--------------------------- MODULE MCModernization ---------------------------
(* Small applications: call graphs of three programs, contents of two; and  *)
(* members of up to MaxCards JCL statements; one run, its workers and what  *)
(* is served of it; and source trees of up to three files with an entry     *)
(* program.  A behaviour is about one.                                      *)
EXTENDS Modernization, BatchJobs, ServedProof, EntryProgram, TLC

VARIABLE about  \* "application", "batch", "serving" or "entry"

Name(k) == <<k, "upper">>
Lower(k) == <<k, "lower">>
(* An excerpt of CONSTRUCT_REGISTRY and, with "scanned", of the patterns.   *)
Construct(level, source_level, scanned) ==
  [level |-> level, source_level |-> source_level, scanned |-> scanned]
MCRegistry ==
  ("MOVE" :> Construct("SUPPORTED", "UNKNOWN", FALSE))
  @@ ("IF/ELSE" :> Construct("SUPPORTED", "UNKNOWN", FALSE))
  @@ ("EVALUATE" :> Construct("SUPPORTED", "UNSUPPORTED", TRUE))
  @@ ("INITIALIZE" :> Construct("SUPPORTED", "UNSUPPORTED", TRUE))
  @@ ("SORT" :> Construct("UNSUPPORTED", "UNSUPPORTED", TRUE))
  @@ [k \in {"ROUNDED", "FIGURATIVE CONSTANT"} |-> Construct("SUPPORTED", "UNKNOWN", TRUE)]
  @@ [k \in {"INVALID KEY", "SIZE ERROR", "BY CONTENT"} |->
        Construct("SUPPORTED", "UNSUPPORTED", TRUE)]
  @@ ("BY VALUE" :> Construct("PARTIAL", "UNSUPPORTED", TRUE))
  @@ ("COMP" :> Construct("PARTIAL", "PARTIAL", FALSE))
  @@ ("COMP-5" :> Construct("PARTIAL", "PARTIAL", FALSE))
  @@ ("REDEFINES" :> Construct("PARTIAL", "PARTIAL", FALSE))
  @@ ("OCCURS" :> Construct("PARTIAL", "PARTIAL", FALSE))
  @@ ("88-LEVEL" :> Construct("SUPPORTED", "UNSUPPORTED", FALSE))
  @@ ("REPLACE" :> Construct("PARTIAL", "UNSUPPORTED", FALSE))
  @@ [k \in {"INDEXED", "RELATIVE", "DYNAMIC", "RECORD KEY"} |->
        Construct("SUPPORTED", "UNSUPPORTED", FALSE)]

Call(to, dynamic, args) == [to |-> to, dynamic |-> dynamic, args |-> args]
Static(to) == Call(to, FALSE, 0)
Stated(key, parsed, lowers, phrases) ==
  [key |-> key, parsed |-> parsed, lowers |-> lowers, phrases |-> phrases]
Statement(key, parsed) == Stated(key, parsed, "fully", {})
Moves == {Statement("MOVE", TRUE)}
Divided(id, statements, diagnostics, files, items, words, copies, calls, linkage) ==
  [id |-> id, statements |-> statements, diagnostics |-> diagnostics, files |-> files,
   items |-> items, words |-> words, copies |-> copies, calls |-> calls, linkage |-> linkage]
Program(id, statements, diagnostics, files, copies, calls, linkage) ==
  Divided(id, statements, diagnostics, files, {}, {}, copies, calls, linkage)
Application(programs, tree, docker, target_runtime, unreadable, marked) ==
  [programs |-> programs, tree |-> tree, docker |-> docker, unreadable |-> unreadable,
   target_runtime |-> target_runtime, marked |-> marked]

(* Call graphs: cycles, case variants, unknown, dynamic and mismatched     *)
(* callees, two CALLs of one program.                                      *)
CallSeqs == {<<>>, <<Static(Name("A"))>>, <<Static(Name("B"))>>, <<Static(Name("C"))>>,
             <<Static(Lower("A"))>>, <<Static(Name("B")), Static(Name("C"))>>,
             <<Static(Name("C")), Static(Name("A"))>>}
OddSeqs == {<<Static(Name("Z"))>>, <<Call(Name("B"), TRUE, 0)>>, <<Call(Name("B"), FALSE, 1)>>}
AllSeqs == CallSeqs \cup OddSeqs
Caller(k, calls) == Program(Name(k), Moves, {}, {}, {}, calls, 0)
CallGraphs ==
  {Application(<<Caller("A", a), Program(Name("B"), Moves \cup odd, {}, {}, {}, b, linkage),
                 Caller("C", c)>>, <<>>, TRUE, "spring_boot", FALSE, FALSE) :
     a \in AllSeqs, b \in AllSeqs, c \in AllSeqs, linkage \in 0..1,
     odd \in {{}, {Stated("UNSTRING", TRUE, "outside", {})}}}

(* Contents: a program with its statements, files and COPYs of CUST (which *)
(* may COPY ADDR) beside a second program, which may bear the same name.   *)
Copy(k, clause) == [name |-> Name(k), clause |-> clause]
Nested(k, clause) == [to |-> k, clause |-> clause]
Text(found, readable, level, copies) ==
  [found |-> found, readable |-> readable, level |-> level, copies |-> copies]
Sound(copies) == Text("once", TRUE, "SUPPORTED", copies)
Trees == {[CUST |-> cust, ADDR |-> addr] :
            cust \in {Sound(c) : c \in {{}, {Nested("ADDR", "plain")}, {Nested("ADDR", "malformed")},
                                        {Nested("CUST", "plain")}, {Nested("GONE", "plain")}}}
                     \cup {Text("several", TRUE, "SUPPORTED", {}), Text("once", FALSE, "SUPPORTED", {})},
            addr \in {Sound({}), Sound({Nested("CUST", "plain")}), Text("none", TRUE, "SUPPORTED", {}),
                      Text("once", TRUE, "UNSUPPORTED", {})}}
FileOp(defined, alternate, organization, access, operation) ==
  [defined |-> defined, alternate |-> alternate, organization |-> organization,
   access |-> access, operation |-> operation]
FileOps == {{}, {FileOp(TRUE, FALSE, "SEQUENTIAL", "SEQUENTIAL", "READ")},
            {FileOp(TRUE, FALSE, "SEQUENTIAL", "SEQUENTIAL", "OPEN I-O")},
            {FileOp(TRUE, FALSE, "INDEXED", "DYNAMIC", "READ"),
             FileOp(TRUE, TRUE, "INDEXED", "DYNAMIC", "READ")}}
Statements == {Moves, Moves \cup {Statement("SORT", TRUE)}, Moves \cup {Statement("SORT", FALSE)},
               {Statement("INITIALIZE", FALSE)},
               {Statement("INITIALIZE", TRUE), Statement("INITIALIZE", FALSE)}}
Copies == {{}, {Copy("CUST", "plain")}, {Copy("CUST", "malformed")},
           {Copy("CUST", "plain"), Copy("GONE", "plain")}}
SomeTree == [CUST |-> Sound({}), ADDR |-> Sound({})]
Second(id) == Program(id, Moves, {}, {}, {}, <<>>, 0)
Contents ==
  {Application(<<Program(id, s, d, f, c, <<>>, 0), Second(Name("B"))>>,
               SomeTree, docker, "spring_boot", FALSE, marked) :
     id \in {Name("A"), Name("B"), Name("CUST")}, s \in Statements, d \in {{}, {"dropped"}},
     f \in FileOps, c \in Copies, docker \in BOOLEAN, marked \in BOOLEAN}
Copybooks ==
  {Application(<<Program(id, Moves, {}, {}, c, <<>>, 0), Second(second)>>, tree, TRUE, rt, FALSE, FALSE) :
     id \in {Name("A"), Name("CUST")}, c \in Copies, tree \in Trees,
     second \in {Name("A"), Lower("A"), Name("B")},
     rt \in {"spring_boot", "plain_java"}}
Ends == {Application(programs, SomeTree, TRUE, rt, unreadable, FALSE) :
           programs \in {<<>>, <<Second(Name("A"))>>}, rt \in {"spring_boot", "plain_java", "unknown"},
           unreadable \in BOOLEAN}

(* Two statements and what is on them; a file; one or two data items, used *)
(* in a procedure that may also COPY CUST.                                 *)
Phrase(key, attached) == [key |-> key, attached |-> attached]
PhraseSets == {{}} \cup {{Phrase(k, a)} : k \in {"ROUNDED", "INVALID KEY", "BY VALUE"},
                                       a \in BOOLEAN}
StatementPairs ==
  {{Stated("IF/ELSE", TRUE, l, p), Stated(k, parsed, "fully", q)} :
     l \in {"fully", "outside", "not"}, p \in PhraseSets, q \in PhraseSets,
     k \in {"EVALUATE", "INITIALIZE"}, parsed \in BOOLEAN}
  \cup {{Statement("ALIEN", TRUE)}}  \* an IR class without a construct
ClauseFiles == {{}, {FileOp(TRUE, TRUE, "INDEXED", "DYNAMIC", "none")},
                {FileOp(FALSE, FALSE, "RELATIVE", "RANDOM", "none")},
                {FileOp(TRUE, FALSE, "RELATIVE", "DYNAMIC", "READ"),
                 FileOp(FALSE, FALSE, "RELATIVE", "DYNAMIC", "none")},
                {FileOp(TRUE, FALSE, "INDEXED", "DYNAMIC", "READ"),
                 FileOp(FALSE, TRUE, "INDEXED", "DYNAMIC", "none")},
                {FileOp(TRUE, FALSE, "SEQUENTIAL", "SEQUENTIAL", "REWRITE")}}
Item(usage, clause, place, alone, certified, uses) ==
  [usage |-> usage, clause |-> clause, place |-> place, alone |-> alone,
   certified |-> certified, uses |-> uses]
Places == {"WORKING-STORAGE", "FILE"}
Items ==
  {Item(usage, clause, place, alone, TRUE, uses) :
     usage \in {"DISPLAY", "COMP", "COMP-5", "POINTER"}, clause \in {"none", "OCCURS"},
     place \in Places, alone \in BOOLEAN, uses \in SUBSET {"value", "bytes", "whole"}}
  \cup {Item("DISPLAY", clause, place, alone, certified, {"value"}) :
          clause \in {"REDEFINES", "OCCURS", "88-LEVEL"}, place \in Places,
          alone \in BOOLEAN, certified \in BOOLEAN}
OtherItems == {{}, {Item("DISPLAY", "REDEFINES", "WORKING-STORAGE", TRUE, TRUE, {"value"})},
               {Item("DISPLAY", "OCCURS", "WORKING-STORAGE", FALSE, TRUE, {"value"})}}
OneProgram(p) == Application(<<p>>, SomeTree, TRUE, "spring_boot", FALSE, FALSE)
Divisions ==
  {OneProgram(Divided(Name("A"), s, {}, {}, {}, {}, {}, <<>>, 0)) : s \in StatementPairs}
  \cup {OneProgram(Divided(Name("A"), Moves, {}, f, o, {}, {}, <<>>, 0)) :
          f \in ClauseFiles, o \in OtherItems}
  \cup {OneProgram(Divided(Name("A"), Moves, {}, {}, {d} \cup o, {}, {}, <<>>, 0)) :
          d \in Items, o \in OtherItems}
  \cup {OneProgram(Divided(Name("A"), Moves, {}, {}, {d}, w, c, <<>>, 0)) :
          d \in Items, w \in {{}, {"REPLACE"}}, c \in {{}, {Copy("CUST", "plain")}}}
MCApplications == CallGraphs \cup Contents \cup Copybooks \cup Ends \cup Divisions

Card(stmt, name, of, as) == [stmt |-> stmt, name |-> name, of |-> of, as |-> as]
MCCards ==
  {Card("JOB", "J1", "", "operands"), Card("JOB", "J2", "", "operands"),
   Card("JOB", "J3", "", "bare"), Card("EXEC", "S1", "P1", "none"),
   Card("EXEC", "S2", "P2", "ONLY"), Card("EXEC", "S3", "", "PROC"),
   Card("EXEC", "S4", "P2", "codes"), Card("DD", "D1", "A", "SHR"),
   Card("DD", "D2", "W", "NEW"), Card("DD", "", "A", "SHR"),
   Card("JOB", "", "", "operands"), Card("EXEC", "", "P1", "none"),
   Card("DD", "D3", "", "DATA"), Card("data", "S9", "P9", "EXEC"),
   Card("data", "D9", "A", "DD"), Card("data", "", "", "IF"), Card("data", "", "", ""),
   Card("IF", "", "", ""), Card("comment", "", "", ""), Card("SET", "", "", "")}

(* Executions: equivalent, with a return code that is compared or not, and  *)
(* with one thing wrong.                                                    *)
World(contract, oracle, candidate, built, differ, moved, rewritten) ==
  [contract |-> contract, oracle |-> oracle, candidate |-> candidate, built |-> built,
   differ |-> differ, moved |-> moved, rewritten |-> rewritten]
Streams == {"STDOUT", "EXIT_STATUS"}
Files == Streams \cup {"TEXT_FILE"}
MCWorlds ==
  {World(Streams, "normal", "normal", TRUE, {}, FALSE, FALSE),
   World(Files, "return_code", "nonzero_exit", TRUE, {}, FALSE, FALSE),
   World({"STDOUT"}, "return_code", "nonzero_exit", TRUE, {}, FALSE, FALSE),
   World(Files, "normal", "normal", TRUE, {"TEXT_FILE"}, FALSE, FALSE),
   World(Streams, "return_code", "nonzero_exit", FALSE, {}, FALSE, FALSE),
   World(Streams, "normal", "normal", TRUE, {}, TRUE, FALSE),
   World(Streams, "normal", "normal", TRUE, {}, FALSE, TRUE),
   World(Streams, "error", "normal", TRUE, {}, FALSE, FALSE)}
Reported(id, kind) == [id |-> id, kind |-> kind, level |-> "SUPPORTED"]
MCReports == {{Reported("A", "PROGRAM")}, {Reported("A", "PROGRAM"), Reported("F", "FILE")}}
Member(cobol, lane) == [cobol |-> cobol, lane |-> lane, names |-> TRUE]
MCSources ==
  {[jcl |-> j, members |-> {}] : j \in {"NOT_PRESENT", "FULL"}}
    \cup {[jcl |-> "NOT_PRESENT", members |-> {m}] :
             m \in {Member(TRUE, "MQI"), Member(FALSE, "MQI"), Member(FALSE, "SQL")}}

(* Trees: a program A or with another id in A.cob, one in a file main with   *)
(* or without suffix, one in a directory of its own; CALLs of every kind.    *)
SourceFile(dir, stem, suffix, id, calls) ==
  [dir |-> dir, stem |-> stem, suffix |-> suffix, id |-> id, calls |-> calls]
Plain(k) == <<k, "plain">>
Main == <<"MAIN", "lower">>
Dashed == <<"P", "dashed">>
CallsOf(to) == {{}} \cup {{[to |-> to, how |-> how]} : how \in {"static", "dynamic", "comment"}}
FirstFiles ==
  {SourceFile(d, Plain("A"), "cob", id, calls) :
     d \in {"root", "lib"}, id \in {Plain("A"), <<"A", "lower">>, Plain("MAIN"), <<"", "plain">>}, calls \in CallsOf(Plain("P"))}
SecondFiles ==
  {SourceFile(d, Main, suffix, id, calls) : d \in {"root", "lib"}, suffix \in {"cbl", "cob", ""},
     id \in {Plain("MAIN"), Plain("B"), Dashed}, calls \in {{}, {[to |-> <<"A", "lower">>, how |-> "static"]}}}
ThirdFiles ==
  {SourceFile(d, Plain("P"), "cob", Plain("P"), calls) : d \in {"root", "sub"}, calls \in CallsOf(Plain("A"))}
MCSourceTrees ==
  {<<f>> : f \in FirstFiles \cup SecondFiles}
    \cup {<<f, g>> : f \in FirstFiles, g \in SecondFiles}
    \cup {<<f, g, h>> : f \in FirstFiles, g \in SecondFiles, h \in ThirdFiles}
MCDeclarations == {Main, Plain("A"), Dashed, <<"", "plain">>}
MCNoName == <<"", "plain">>

BatchIdle == BatchInit /\ member = <<Card("JOB", "J1", "", "operands")>> /\ ~undecodable
ApplicationIdle == app = (CHOOSE a \in Ends : a.unreadable) /\ Init
EntryIdle == /\ sources = <<SourceFile("root", Main, "cob", Plain("MAIN"), {})>>
             /\ declared = Main /\ runtime = "spring_boot" /\ NothingEntered
ServingIdle == validated = [jcl |-> "NOT_PRESENT", members |-> {}] /\ ServingInit
MCInit == \/ about = "application" /\ Init /\ BatchIdle /\ ServingIdle /\ EntryIdle
          \/ about = "batch" /\ BatchInit /\ ApplicationIdle /\ ServingIdle /\ EntryIdle
          \/ about = "serving" /\ ServingInit /\ BatchIdle /\ ApplicationIdle /\ EntryIdle
          \/ about = "entry" /\ ApplicationIdle /\ BatchIdle /\ ServingIdle /\ EntryInit
MCNext ==
  \/ about = "application" /\ Next /\ UNCHANGED <<about, batchVars, servingVars, entryVars>>
  \/ about = "batch" /\ BatchNext /\ UNCHANGED <<about, modernizationVars, servingVars, entryVars>>
  \/ about = "serving" /\ ServingNext /\ UNCHANGED <<about, modernizationVars, batchVars, entryVars>>
  \/ about = "entry" /\ EntryNext /\ UNCHANGED <<about, modernizationVars, batchVars, servingVars>>
MCSpec == MCInit /\ [][MCNext]_<<about, modernizationVars, batchVars, servingVars, entryVars>>
=============================================================================
