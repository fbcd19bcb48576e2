---------------------------- MODULE Modernization ----------------------------
(***************************************************************************)
(* UniversalModernizationPipeline.execute: discovery, capability analysis, *)
(* transformation plan, transformation and assembly of one application.    *)
(*                                                                         *)
(* An application is what its source tree says: programs with their        *)
(* statements, data items, file operations, CALLs and COPYs, and the       *)
(* copybook files with the level and the COPYs inside each.  A name is a   *)
(* pair <<key, spelling>>: COBOL compares the keys, Python the pairs.      *)
(***************************************************************************)
EXTENDS Integers, Sequences, FiniteSets

CONSTANTS Applications,       \* the applications it may be given
          CONSTRUCT_REGISTRY  \* construct -> [level, source_level, scanned]

VARIABLES app,       \* the application that is modernized
          phase,     \* the phase execute() has reached
          analysis,  \* the capability report: programs, copybooks, calls
          plan,      \* the component plans
          report,    \* what the report says: success, errors, project
          classes    \* the program classes in the output directory
modernizationVars == <<app, phase, analysis, plan, report, classes>>

Programs == DOMAIN app.programs
P(i) == app.programs[i]
normalize_cobol_name(n) == n[1]
EntriesOf(s) == {s[i] : i \in DOMAIN s}
(* The last entry of a sequence that satisfies a test, by position: what a *)
(* dict filled in that order holds.                                        *)
LastOf(positions) == CHOOSE i \in positions : \A j \in positions : j <= i

Levels == {"SUPPORTED", "UNAVAILABLE", "PARTIAL", "UNKNOWN", "UNSUPPORTED"}

(* Programs and the CALLs of each come in an order, copybook files are     *)
(* finitely many, and every level is one of the five.                      *)
ASSUME ApplicationsAssumption ==
  \A a \in Applications :
    /\ a.programs \in Seq(EntriesOf(a.programs))
    /\ \A p \in EntriesOf(a.programs) : p.calls \in Seq(EntriesOf(p.calls))
    /\ IsFiniteSet(DOMAIN a.tree)
    /\ \A k \in DOMAIN a.tree : a.tree[k].level \in Levels
ASSUME RegistryAssumption ==
  /\ {"INDEXED", "RELATIVE", "DYNAMIC", "RECORD KEY"} \subseteq DOMAIN CONSTRUCT_REGISTRY
  /\ \A k \in DOMAIN CONSTRUCT_REGISTRY :
       {CONSTRUCT_REGISTRY[k].level, CONSTRUCT_REGISTRY[k].source_level} \subseteq Levels

-----------------------------------------------------------------------------
(* Levels (semantic_capability)                                            *)

LevelRank == [SUPPORTED |-> 0, UNAVAILABLE |-> 1, PARTIAL |-> 2,
              UNKNOWN |-> 3, UNSUPPORTED |-> 4]
worst_level(levels) == CHOOSE l \in levels \cup {"SUPPORTED"} :
                          \A k \in levels : LevelRank[k] <= LevelRank[l]

Component(id, type, level) == [id |-> id, type |-> type, level |-> level]

-----------------------------------------------------------------------------
(* Copybooks: a file per key, found once, not at all or in several places  *)

File(key) == app.tree[key]
Resolves(key) == key \in DOMAIN app.tree /\ File(key).found = "once"

(* collect_copybook_texts: the files below a copybook, depth first, and    *)
(* whether a nested COPY cannot be followed.  chain ends in the copybook.  *)
collect_copybook_texts ==
  [chain \in Seq(DOMAIN app.tree) |->
     LET texts[c \in Seq(DOMAIN app.tree)] ==
           LET stem == c[Len(c)]
               nested == {n.to : n \in File(stem).copies}
               bad == {k \in nested : k \in EntriesOf(c) \/ ~Resolves(k)}
               below == {texts[Append(c, k)] : k \in nested \ bad}
           IN  IF ~File(stem).readable THEN [files |-> {}, errors |-> TRUE]
               ELSE [files |-> {stem} \cup UNION {b.files : b \in below},
                     errors |-> bad # {} \/ \E b \in below : b.errors]
     IN  texts[chain]]

(* _expand_copybook_text: the same walk, which also reads the REPLACING    *)
(* clause of a nested COPY.                                                *)
expand_copybook_text ==
  [chain \in Seq(DOMAIN app.tree) |->
     LET fails[c \in Seq(DOMAIN app.tree)] ==
           LET stem == c[Len(c)]
           IN  \/ ~File(stem).readable
               \/ \E n \in File(stem).copies :
                     \/ n.clause = "malformed"
                     \/ n.to \in EntriesOf(c) \/ ~Resolves(n.to)
                     \/ fails[Append(c, n.to)]
     IN  fails[chain]]

(* mutant: a copybook is as supported as its own text, whatever it COPYs *)
analyze_copybook_alone(name) ==
  LET key == normalize_cobol_name(name)
  IN  Component(<<name>>, "COPYBOOK",
        IF ~Resolves(key) \/ ~File(key).readable
             \/ collect_copybook_texts[<<key>>].errors
        THEN "UNSUPPORTED" ELSE File(key).level)

(* _analyze_copybook *)
analyze_copybook(name) ==
  LET key == normalize_cobol_name(name)
      texts == collect_copybook_texts[<<key>>]
  IN  Component(<<name>>, "COPYBOOK",
        IF ~Resolves(key) \/ ~File(key).readable \/ texts.errors THEN "UNSUPPORTED"
        ELSE worst_level({File(f).level : f \in texts.files}))

-----------------------------------------------------------------------------
(* Programs                                                                *)

(* A statement is the construct it is written as, whether the parser made  *)
(* a statement of it, how far that can be lowered, and its phrases; nested *)
(* ones are statements like any other.                                     *)
LevelOf(key) == IF key \in DOMAIN CONSTRUCT_REGISTRY
                THEN CONSTRUCT_REGISTRY[key].level ELSE "UNSUPPORTED"

(* CONSTRUCT_IR_COVERAGE: constructs the parser turns into another one's   *)
(* statements.                                                             *)
IrConstruct(key) == IF key = "EVALUATE" THEN "IF/ELSE"
                    ELSE IF key = "PERFORM TIMES" THEN "PERFORM" ELSE key

(* Constructs that are phrases of a statement, never one. *)
PhraseConstructs == {"ROUNDED", "SIZE ERROR", "INVALID KEY", "BY CONTENT", "BY VALUE",
                     "FIGURATIVE CONSTANT"}
FileControlKeys == {"INDEXED", "RELATIVE", "DYNAMIC", "RECORD KEY"}
Scanned(k) == k \in DOMAIN CONSTRUCT_REGISTRY /\ CONSTRUCT_REGISTRY[k].scanned

(* What CONSTRUCT_REGISTRY says: nothing that is only seen in the source is *)
(* supported, a construct that becomes another's statement is as supported *)
(* as that one, phrases are looked for in the source and the two that are  *)
(* only noted are supported, and an overlay, a table, LOCAL-STORAGE,       *)
(* REPLACE and an encoded USAGE are not.                                   *)
ASSUME ConstructsAssumption ==
  /\ \A k \in DOMAIN CONSTRUCT_REGISTRY : CONSTRUCT_REGISTRY[k].source_level # "SUPPORTED"
  /\ \A k \in {"EVALUATE", "PERFORM TIMES"} : LevelOf(k) = LevelOf(IrConstruct(k))
  /\ \A k \in PhraseConstructs : Scanned(k)
  /\ \A k \in {"INVALID KEY", "FIGURATIVE CONSTANT"} : LevelOf(k) = "SUPPORTED"
  /\ \A k \in {"REDEFINES", "OCCURS", "LOCAL-STORAGE", "REPLACE",
               "COMP", "COMP-1", "COMP-2", "COMP-3", "COMP-5"} : LevelOf(k) # "SUPPORTED"

(* What a program can say.  A statement the parser makes nothing of is one *)
(* that the scan knows by its words, or leaves a diagnostic; a USAGE that  *)
(* has no entry in USAGE_TO_CONSTRUCT bears no construct's name.           *)
SaysWhatItCan(p) ==
  /\ \A s \in p.statements :
       /\ s.lowers \in {"fully", "outside", "not"}
       /\ s.parsed \/ Scanned(s.key) \/ p.diagnostics # {}
       /\ s.key \notin PhraseConstructs \cup FileControlKeys
       /\ \A q \in s.phrases : q.key \in PhraseConstructs
  /\ \A d \in p.items :
       /\ d.clause \in {"none", "REDEFINES", "OCCURS", "88-LEVEL"}
       /\ d.usage \in {"DISPLAY", "COMP", "COMP-1", "COMP-2", "COMP-3", "COMP-5"}
            \/ d.usage \notin DOMAIN CONSTRUCT_REGISTRY
  /\ p.words \subseteq {"LOCAL-STORAGE", "REPLACE"}
ASSUME ProgramsAssumption ==
  \A a \in Applications : \A p \in EntriesOf(a.programs) : SaysWhatItCan(p)

Parsed(i) == {s \in P(i).statements : s.parsed}
ir_keys(i) == {IrConstruct(s.key) : s \in Parsed(i)}

(* _note_ir: an UNSTRING outside the certified subset, or an OPEN whose    *)
(* file was not captured, is partial whatever the registry says.           *)
note_ir(s) == IF s.lowers = "outside" THEN "PARTIAL" ELSE LevelOf(IrConstruct(s.key))

(* An expression or condition the mapper has no Java for, and a PERFORM    *)
(* THRU over paragraphs the program lacks.                                 *)
unlowered(i) == {s \in Parsed(i) : s.lowers = "not"}

(* Phrases the parser attached to a statement.  A figurative constant and  *)
(* INVALID KEY are only noted, the others classified.                      *)
Phrases(statements) == UNION {s.phrases : s \in statements}
PhraseKeys(i) == {p.key : p \in {q \in Phrases(Parsed(i)) : q.attached}}
note_phrases(i) == {LevelOf(k) : k \in PhraseKeys(i) \ {"FIGURATIVE CONSTANT", "INVALID KEY"}}

walk(i) == {note_ir(s) : s \in Parsed(i)} \cup note_phrases(i)
              \cup {"UNSUPPORTED" : s \in unlowered(i)}
              \cup {"UNSUPPORTED" : d \in P(i).diagnostics}

(* FILE-CONTROL: the clauses of the SELECTs that became a file definition. *)
SelectKeys(f) == ({f.organization} \cap {"INDEXED", "RELATIVE"})
                    \cup ({f.access} \cap {"DYNAMIC"})
                    \cup {"RECORD KEY" : x \in {f.organization} \cap {"INDEXED"}}
                    \cup {"RECORD KEY" : x \in {f.alternate} \cap {TRUE}}
file_control_keys(i) == UNION {SelectKeys(f) : f \in {g \in P(i).files : g.defined}}
file_control(i) ==
  {LevelOf(k) : k \in file_control_keys(i)}
    \cup {"UNSUPPORTED" : f \in {g \in P(i).files : g.defined /\ g.alternate}}

(* What is covered is covered for the whole program, wherever it stands. *)
ir_flag_keys(i) == PhraseKeys(i) \cup file_control_keys(i)

(* scan_constructs finds some constructs by their words in the procedure.  *)
ProcedureWords(i) ==
  {k \in {s.key : s \in P(i).statements} \cup {p.key : p \in Phrases(P(i).statements)} :
     Scanned(k)}
source_evidence(i) ==
  {CONSTRUCT_REGISTRY[k].source_level :
     k \in {w \in ProcedureWords(i) \ (ir_keys(i) \cup ir_flag_keys(i)) :
              IrConstruct(w) \notin ir_keys(i)}}

(* A data item: its USAGE, the clause that makes it more than a picture,   *)
(* whether the lowering of that clause certifies it, whether it stands     *)
(* alone on level 01 or 77, where it is declared, and how statements use   *)
(* it: by its value, by its bytes, or whole (a table without a subscript). *)
Standalone(i, d) == /\ d.alone /\ d.place = "WORKING-STORAGE" /\ d.clause # "REDEFINES"
                    /\ P(i).copies = {} /\ "REPLACE" \notin P(i).words
is_unreferenced_standalone_item(i, d) == Standalone(i, d) /\ d.uses = {}
is_value_only_item(i, d) ==
  /\ Standalone(i, d) /\ d.clause # "OCCURS"
  /\ d.usage \in {"COMP", "COMP-3"} /\ d.uses \subseteq {"value"}
usage_evidence(i) ==
  {IF d.usage \in DOMAIN CONSTRUCT_REGISTRY THEN LevelOf(d.usage) ELSE "PARTIAL" :
     d \in {e \in P(i).items : /\ e.usage # "DISPLAY"
                               /\ ~is_unreferenced_standalone_item(i, e)
                               /\ ~is_value_only_item(i, e)}}

ItemsWith(i, clause) == {d \in P(i).items : d.clause = clause}
certified_data_construct(key, i) ==
  /\ ItemsWith(i, key) # {}
  /\ \A d \in ItemsWith(i, key) : d.certified /\ d.place = "WORKING-STORAGE"
  /\ \/ key = "REDEFINES"
     \/ /\ key = "OCCURS"
        /\ \A d \in ItemsWith(i, key) : d.usage = "DISPLAY" /\ "whole" \notin d.uses

(* The words before the PROCEDURE DIVISION: clauses of data items, SELECTs *)
(* that became no file definition, LOCAL-STORAGE and REPLACE.              *)
DataWords(i) == ({d.clause : d \in P(i).items} \ {"none"}) \cup P(i).words
                   \cup UNION {SelectKeys(f) : f \in P(i).files}
data_evidence(i) ==
  {IF certified_data_construct(k, i) THEN "SUPPORTED"
   ELSE IF k \in FileControlKeys THEN CONSTRUCT_REGISTRY[k].source_level ELSE LevelOf(k) :
     k \in DataWords(i) \ ir_flag_keys(i)}
  \cup {"UNSUPPORTED" : d \in {e \in ItemsWith(i, "88-LEVEL") : ~e.certified}}

(* _scan_copy_replacing *)
scan_copy_replacing(i) == {"UNSUPPORTED" : c \in {d \in P(i).copies : d.clause = "malformed"}}

(* _file_capability: one file operation against its FILE-CONTROL entry.    *)
file_capability(f) ==
  IF ~f.defined \/ f.alternate THEN "UNSUPPORTED"
  ELSE IF f.organization # "SEQUENTIAL"
  THEN IF f.access = "DYNAMIC" THEN "SUPPORTED" ELSE "UNSUPPORTED"
  ELSE IF f.access = "DYNAMIC" \/ f.operation = "REWRITE" THEN "UNSUPPORTED"
  ELSE IF f.operation = "OPEN I-O" THEN "PARTIAL" ELSE "SUPPORTED"
file_dependencies(i) == {f \in P(i).files : f.operation # "none"}

(* mutant: what the parser dropped is not looked for *)
analyze_program_ir_only(i) ==
  Component(<<P(i).id>>, "PROGRAM",
    worst_level(walk(i) \cup file_control(i) \cup usage_evidence(i) \cup data_evidence(i)
                  \cup scan_copy_replacing(i)
                  \cup {file_capability(f) : f \in file_dependencies(i)}))

(* _analyze_program_unit and _aggregate: the walk of the statements, the   *)
(* scans of both texts, and the file operations; the worst of all counts.  *)
analyze_program(i) ==
  Component(<<P(i).id>>, "PROGRAM",
    worst_level(walk(i) \cup file_control(i) \cup source_evidence(i)
                  \cup usage_evidence(i) \cup data_evidence(i)
                  \cup scan_copy_replacing(i)
                  \cup {file_capability(f) : f \in file_dependencies(i)}))

CopybookNames == UNION {{c.name : c \in P(i).copies} : i \in Programs}

-----------------------------------------------------------------------------
(* CALLs                                                                   *)

(* _build_dependency_graph: an edge per CALL, in program order. *)
EdgesOf(i) ==
  [k \in DOMAIN P(i).calls |->
     LET c == P(i).calls[k]
     IN  [source |-> P(i).id, target |-> c.to, dynamic |-> c.dynamic, args |-> c.args,
          resolved |-> ~c.dynamic /\ normalize_cobol_name(c.to) \in
                         {normalize_cobol_name(P(j).id) : j \in Programs}]]
Edges == LET upTo[i \in 0..Len(app.programs)] ==
               IF i = 0 THEN <<>> ELSE upTo[i - 1] \o EdgesOf(i)
         IN  upTo[Len(app.programs)]

(* The positions of the programs a CALL may mean. *)
Callees(name) == {j \in Programs : normalize_cobol_name(P(j).id) =
                                   normalize_cobol_name(name)}

(* mutant: the callee is supported whatever its level *)
analyze_call_any_callee(e) ==
  Component(<<e.source, e.target>>, "CALL",
    IF e.dynamic \/ normalize_cobol_name(e.source) = normalize_cobol_name(e.target)
    THEN "UNSUPPORTED" ELSE IF e.resolved THEN "SUPPORTED" ELSE "PARTIAL")

(* _analyze_call: by the level of the program the name stands for last. *)
analyze_call(e) ==
  LET callee == analyze_program(LastOf(Callees(e.target))).level IN
  Component(<<e.source, e.target>>, "CALL",
    IF e.dynamic \/ normalize_cobol_name(e.source) = normalize_cobol_name(e.target)
    THEN "UNSUPPORTED"
    ELSE IF ~e.resolved \/ callee \in {"PARTIAL", "UNAVAILABLE"} THEN "PARTIAL"
    ELSE callee)

(* _analyze_call_linkage_arity, over every CALL of a program however deep  *)
(* it is nested.                                                           *)
ArityMismatches ==
  {e \in EntriesOf(Edges) : /\ ~e.dynamic /\ Callees(e.target) # {}
                            /\ e.args # P(LastOf(Callees(e.target))).linkage}
ArityComponents ==
  {Component(<<e.source, <<normalize_cobol_name(e.target), "upper">>>>, "CALL",
             "UNSUPPORTED") : e \in ArityMismatches}

(* CobolApplication.detect_cycles: depth first from every program, along   *)
(* the edges in order; names are compared as they are spelled.             *)
Search(visited, cycles) == [visited |-> visited, cycles |-> cycles]
SuffixFrom(stack, n) ==
  SubSeq(stack, CHOOSE k \in DOMAIN stack : stack[k] = n, Len(stack))

(* A visit: the stack, the next edge and what is known so far. *)
Visit(stack, k, s) == [stack |-> stack, next |-> k, known |-> s]
Down(s, t) == Search(s.visited \cup {t}, s.cycles)
Met(s, stack, t) ==
  Search(s.visited, s.cycles \cup
           {Append(SuffixFrom(stack, u), u) : u \in {t} \cap EntriesOf(stack)})
dfs_step(dfs, edges, v) ==
  LET stack == v.stack
      k == v.next
      t == edges[k].target
  IN  IF k > Len(edges) THEN v.known
      ELSE IF edges[k].source # stack[Len(stack)] THEN dfs[Visit(stack, k + 1, v.known)]
      ELSE IF t \notin v.known.visited
      THEN dfs[Visit(stack, k + 1, dfs[Visit(Append(stack, t), 1, Down(v.known, t))])]
      ELSE dfs[Visit(stack, k + 1, Met(v.known, stack, t))]
States(names) == [visited : SUBSET names, cycles : SUBSET Seq(names)]
Visits(names) == [stack : Seq(names), next : Nat \ {0}, known : States(names)]
CallNames == {e.target : e \in EntriesOf(Edges)} \cup {P(i).id : i \in Programs}
Dfs ==
  LET edges == Edges
      dfs[v \in Visits(CallNames)] == dfs_step(dfs, edges, v)
      from[i \in 0..Len(app.programs)] ==
        IF i = 0 THEN Search({}, {})
        ELSE IF P(i).id \in from[i - 1].visited THEN from[i - 1]
        ELSE dfs[Visit(<<P(i).id>>, 1, Down(from[i - 1], P(i).id))]
  IN  from[Len(app.programs)]
detect_cycles_none == {}
detect_cycles == Dfs.cycles

-----------------------------------------------------------------------------
(* CapabilityAnalyzer.analyze: without Docker a supported program or CALL  *)
(* is unavailable.                                                         *)

Available(c) == IF app.docker \/ c.level # "SUPPORTED" \/ c.type = "COPYBOOK"
                THEN c ELSE [c EXCEPT !.level = "UNAVAILABLE"]
analyze ==
  [programs  |-> [i \in Programs |-> Available(analyze_program(i))],
   copybooks |-> {analyze_copybook(n) : n \in CopybookNames},
   calls     |-> {Available(analyze_call(e)) : e \in EntriesOf(Edges)}
                   \cup {Component(c, "CALL", "UNSUPPORTED") : c \in detect_cycles}
                   \cup ArityComponents]

-----------------------------------------------------------------------------
(* TransformationPlanGenerator.generate                                    *)

ComponentPlan(id, type, level) ==
  [id |-> id, type |-> type,
   action |-> IF level = "SUPPORTED" THEN "TRANSFORM" ELSE "SKIP"]

(* The capability dict is keyed by component id alone: of a program and a  *)
(* copybook of one name, or of two programs, it holds the last.            *)
capability_lookup(name) ==
  IF \E c \in analysis.copybooks : c.id = <<name>>
  THEN (CHOOSE c \in analysis.copybooks : c.id = <<name>>).level
  ELSE analysis.programs[LastOf({i \in Programs : P(i).id = name})].level

(* mutant: only an unresolved CALL is planned as a SKIP *)
plan_calls_unresolved_only ==
  {ComponentPlan(<<e.source, e.target>>, "CALL", "UNRESOLVED") :
     e \in {d \in EntriesOf(Edges) : ~d.resolved}}

plan_calls ==
  {ComponentPlan(<<e.source, e.target>>, "CALL", "UNRESOLVED") :
     e \in {d \in EntriesOf(Edges) : ~d.resolved}}
  \cup {ComponentPlan(c.id, "CALL", c.level) :
           c \in {d \in analysis.calls : d.level # "SUPPORTED"}}

generate_plan ==
  {ComponentPlan(<<P(i).id>>, "PROGRAM", capability_lookup(P(i).id)) : i \in Programs}
  \cup {ComponentPlan(<<n>>, "COPYBOOK", capability_lookup(n)) : n \in CopybookNames}
  \cup plan_calls

-----------------------------------------------------------------------------
(* ApplicationGenerator.generate and the runtime adapter                   *)

(* prepare_application_copybooks finds nothing wrong. *)
prepares ==
  \A i \in Programs : \A c \in P(i).copies :
     LET key == normalize_cobol_name(c.name)
     IN  /\ c.clause # "malformed"
         /\ Resolves(key) /\ ~expand_copybook_text[<<key>>]

(* The Java class of a program, and the file it is written to. *)
class_name(id) == normalize_cobol_name(id)
DuplicateClass == \E i, j \in Programs : i # j /\ class_name(P(i).id) = class_name(P(j).id)

(* SpringBootApplication.validate refuses a second service of one name;    *)
(* the other adapters write the later class over the earlier.              *)
adapter_refuses == app.target_runtime = "spring_boot" /\ DuplicateClass

-----------------------------------------------------------------------------
(* execute()                                                               *)

Report(success, errors, project) ==
  [success |-> success, errors |-> errors, project |-> project]
NoReport == Report(FALSE, FALSE, FALSE)

Init == /\ app \in Applications
        /\ phase = "start" /\ plan = {} /\ report = NoReport /\ classes = {}
        /\ analysis = [programs |-> <<>>, copybooks |-> {}, calls |-> {}]

(* The adapter is resolved before any work; a source that cannot be read   *)
(* or decoded makes the discovery incomplete.                              *)
Discover ==
  /\ phase = "start"
  /\ phase' = IF app.target_runtime = "unknown" \/ app.unreadable
              THEN "reported" ELSE "discovered"
  /\ UNCHANGED <<app, analysis, plan, report, classes>>

Analyze ==
  /\ phase = "discovered" /\ phase' = "analyzed"
  /\ analysis' = analyze
  /\ UNCHANGED <<app, plan, report, classes>>

(* The plan and the gate on it: a skipped program, CALL or copybook blocks *)
(* the transformation.                                                     *)
Skipped(plans) == {c \in plans : c.action = "SKIP"}

(* mutant: a skipped copybook does not block *)
gate_programs_and_calls(plans) == \A c \in Skipped(plans) : c.type = "COPYBOOK"
gate(plans) == Skipped(plans) = {}

Plan ==
  /\ phase = "analyzed"
  /\ plan' = generate_plan
  /\ IF gate(plan')
     THEN phase' = "planned" /\ UNCHANGED report
     ELSE phase' = "reported" /\ report' = Report(FALSE, TRUE, FALSE)
  /\ UNCHANGED <<app, analysis, classes>>

(* Phase 4.  The mapping may raise on what the analysis could not foresee. *)
Transform ==
  /\ phase = "planned" /\ prepares /\ Programs # {}
  /\ phase' = "transformed"
  /\ report' = Report(TRUE, report.errors, report.project)
  /\ UNCHANGED <<app, analysis, plan, classes>>

TransformFails ==
  /\ phase = "planned"
  /\ phase' = "reported"
  /\ report' = Report(FALSE, TRUE, FALSE)
  /\ UNCHANGED <<app, analysis, plan, classes>>

(* Phase 5.  Assembly writes every class, or raises before it wrote any or *)
(* half way; what it wrote then stays.                                     *)
Assemble ==
  /\ phase = "transformed" /\ ~adapter_refuses
  /\ phase' = "assembled"
  /\ classes' = {class_name(P(i).id) : i \in Programs}
  /\ report' = Report(report.success, report.errors, TRUE)
  /\ UNCHANGED <<app, analysis, plan>>

(* mutant: the flag is not taken back *)
assembly_failed_keeps_success == Report(report.success, TRUE, FALSE)
assembly_failed == Report(FALSE, TRUE, FALSE)

AssembleFails ==
  /\ phase = "transformed"
  /\ phase' = "reported"
  /\ report' = assembly_failed
  /\ classes' \in IF adapter_refuses THEN {{}}
                  ELSE SUBSET {class_name(P(i).id) : i \in Programs}
  /\ UNCHANGED <<app, analysis, plan>>

(* The generated Java is searched for the names the mapper gives what it   *)
(* cannot lower; a project with one is deleted.                            *)
CheckFailClosedSymbols ==
  /\ phase = "assembled" /\ phase' = "reported"
  /\ IF app.marked
     THEN classes' = {} /\ report' = Report(FALSE, TRUE, FALSE)
     ELSE UNCHANGED <<classes, report>>
  /\ UNCHANGED <<app, analysis, plan>>

Next == \/ Discover \/ Analyze \/ Plan \/ Transform \/ TransformFails
        \/ Assemble \/ AssembleFails \/ CheckFailClosedSymbols

Spec == Init /\ [][Next]_modernizationVars

-----------------------------------------------------------------------------
(* Properties                                                              *)

(* Type invariant of execute() and its report. *)
TypeOK ==
  /\ phase \in {"start", "discovered", "analyzed", "planned", "transformed",
                "assembled", "reported"}
  /\ report \in [success : BOOLEAN, errors : BOOLEAN, project : BOOLEAN]
  /\ \A c \in plan : c.action \in {"TRANSFORM", "SKIP"}
  /\ classes \subseteq {class_name(P(i).id) : i \in Programs}

(* A set of nodes of which each has a successor in the set: a cycle. *)
Cyclic(nodes, follows(_, _)) ==
  \E S \in (SUBSET nodes) \ {{}} : \A n \in S : \E k \in S : follows(n, k)

(* Every spelling names one component: what the capability dict assumes. *)
NamesApart ==
  /\ \A i, j \in Programs : P(i).id = P(j).id => i = j
  /\ \A i \in Programs : P(i).id \notin CopybookNames

(* The copybook files a program is merged with, however deep. *)
Merged(i) ==
  LET first == {normalize_cobol_name(c.name) : c \in P(i).copies}
      closed(T) == \A k \in T \cap DOMAIN app.tree : {n.to : n \in File(k).copies} \subseteq T
      keys == DOMAIN app.tree \cup first
                \cup UNION {{n.to : n \in File(k).copies} : k \in DOMAIN app.tree}
  IN  {k \in keys : \A T \in SUBSET keys : first \subseteq T /\ closed(T) => k \in T}
Includes(a, b) == a \in DOMAIN app.tree /\ b \in {n.to : n \in File(a).copies}

(* Every copybook merged into a generated program, at any depth, exists    *)
(* once, is readable, supported, and in no COPY cycle                      *)
(* (collect_copybook_texts reads what the generation merges).              *)
MergedCopybooksAreSound ==
  report.success /\ NamesApart =>
    \A i \in Programs :
      /\ \A k \in Merged(i) : /\ Resolves(k) /\ File(k).readable
                              /\ File(k).level = "SUPPORTED"
      /\ ~Cyclic(Merged(i), Includes)

(* What a generated application is made of: every statement of every       *)
(* program can be lowered, is of a supported construct, and was parsed or  *)
(* has its construct parsed elsewhere in the program, and so for every     *)
(* phrase; no item's byte encoding or overlay is seen that the Java field  *)
(* lacks; no file definition has an alternate key and every file operation *)
(* is certified (a SELECT that became no definition and is never operated  *)
(* on leaves nothing in the Java); and Docker is there.  A piece that slips *)
(* past the analysis ends up in the Java, or is missing from it.           *)
StatementsLowered(i) ==
  \A s \in P(i).statements :
    /\ LevelOf(s.key) = "SUPPORTED" /\ (s.parsed => s.lowers = "fully")
    /\ \E t \in P(i).statements : t.parsed /\ IrConstruct(t.key) = IrConstruct(s.key)
    /\ \A p \in s.phrases : /\ LevelOf(p.key) = "SUPPORTED"
                            /\ p.key \in PhraseKeys(i)
BytesUnseen(i) ==
  \A d \in P(i).items :
    /\ d.usage # "DISPLAY" =>
         /\ d.alone /\ P(i).copies = {}
         /\ d.uses = {} \/ (d.uses = {"value"} /\ d.usage \in {"COMP", "COMP-3"})
    /\ d.clause # "none" => d.certified
    /\ d.clause \in {"REDEFINES", "OCCURS"} => d.place = "WORKING-STORAGE"
    /\ d.clause = "OCCURS" => "whole" \notin d.uses
OnlySupportedIsGenerated ==
  report.success /\ NamesApart =>
    /\ app.docker
    /\ \A i \in Programs :
         /\ P(i).diagnostics = {} /\ P(i).words = {}
         /\ StatementsLowered(i) /\ BytesUnseen(i)
         /\ \A f \in P(i).files : f.defined => ~f.alternate
         /\ \A f \in file_dependencies(i) : file_capability(f) = "SUPPORTED"

(* No CALL cycle, of any length and through any other program, reaches the *)
(* Java, where it would be unbounded recursion (names as they are spelled: *)
(* detect_cycles does not fold their case).                                *)
Calls(a, b) == \E e \in EntriesOf(Edges) : e.source = a /\ e.target = b
NoCallCycleIsGenerated ==
  report.success => ~Cyclic({P(i).id : i \in Programs}, Calls)

(* Every CALL of a generated application is static, means one of its       *)
(* programs, and passes as many arguments as that one declares: otherwise  *)
(* the Java fails at compile time or, silently, at run time.               *)
EveryCallDispatches ==
  report.success /\ ~DuplicateClass =>
    \A e \in EntriesOf(Edges) :
       ~e.dynamic /\ \E i \in Programs : /\ class_name(P(i).id) = class_name(e.target)
                                         /\ P(i).linkage = e.args

(* "Analysis must see the same files generation merges": what the plan     *)
(* lets through, the preparation of the copybooks does not refuse, except  *)
(* for a REPLACING clause inside a copybook, which only the latter reads.  *)
PreparationForeseen ==
  phase = "planned" /\ NamesApart
    => prepares \/ \E k \in DOMAIN app.tree : \E n \in File(k).copies : n.clause = "malformed"

(* The report a caller goes by: success means that the project is there    *)
(* with the class of every program and that nothing went wrong; a plan     *)
(* that was made and did not end in success names an error.                *)
ReportIsTruthful ==
  phase = "reported" =>
    /\ report.success <=> report.project
    /\ report.success => /\ ~report.errors
                         /\ classes = {class_name(P(i).id) : i \in Programs}
    /\ plan # {} /\ ~report.success => report.errors

(* _plan_program: "SUPPORTED -> TRANSFORM (the only path to                *)
(* transformation)" (transformation_plan.py).                              *)
PlanTransformsSupportedOnly ==
  phase = "planned" => \A i \in Programs : analysis.programs[i].level = "SUPPORTED"
=============================================================================
