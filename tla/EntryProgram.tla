---------------------------- MODULE EntryProgram ----------------------------
(***************************************************************************)
(* Which program runs first.  The generated application and the reference  *)
(* resolve it separately: generation asks what discovery found in the      *)
(* whole tree and compares names without dashes, quotes and case; the      *)
(* oracle reads the modules of one directory and compares PROGRAM-IDs and  *)
(* file names.  Two programs that are not the same one cannot be compared. *)
(***************************************************************************)
EXTENDS Naturals, Sequences, FiniteSets

CONSTANTS
  SourceTrees,   \* source trees: files in the order of their paths
  Declarations,  \* values of the application's java_entrypoint
  NoName         \* the empty name

\* A file is [dir, stem, suffix, id, calls]: id is its PROGRAM-ID, or NoName;
\* calls are [to, how], how being "static" for CALL 'X', "dynamic" for CALL X,
\* "comment" for a CALL 'X' in a comment.  A name is <<key, spelling>>, the key
\* being what is left without dashes and case.  Files are known by position.
_normalise_service_key(n) == n[1]
upper(n) == IF n[2] = "lower" THEN <<n[1], "plain">> ELSE n

\* Trees are finite, and only the empty name is empty in capitals.
ASSUME EntryAssumption ==
  /\ \A t \in SourceTrees :
       /\ t \in Seq({t[i] : i \in DOMAIN t})
       /\ \A i \in DOMAIN t : upper(t[i].id) = NoName => t[i].id = NoName
  /\ \A d \in Declarations : upper(d) = NoName => d = NoName
  /\ upper(NoName) = NoName

VARIABLES
  sources,   \* the tree of the run
  declared,  \* java_entrypoint
  runtime,   \* the runtime profile it is generated for
  stage,     \* "generate", "validate", "compared" or "refused"
  entered,   \* the files whose programs the generated application enters
  status,    \* the program whose RETURN-CODE is its exit status
  module     \* the file whose program the oracle enters, or NoModule

entryVars == <<sources, declared, runtime, stage, entered, status, module>>

First(S) == CHOOSE i \in S : \A j \in S : i <= j
Latest(S) == CHOOSE i \in S : \A j \in S : j <= i
Single(S) == \E i \in S : S = {i}

-----------------------------------------------------------------------------
(* Discovery (ApplicationDiscovery, discover_application).                 *)

\* Files without a suffix count when they hold an IDENTIFICATION DIVISION.
cobol_programs(t) ==
  {i \in DOMAIN t : t[i].suffix \in {"cob", "cbl", ""} /\ t[i].id # NoName}

Named(t, n) ==
  {i \in cobol_programs(t) :
     n # NoName /\ _normalise_service_key(t[i].id) = _normalise_service_key(n)}

\* A CALL through a data name has that name as its target.
_extract_calls(f) == {c.to : c \in {d \in f.calls : d.how # "comment"}}

call_dependencies(t) == UNION {_extract_calls(t[i]) : i \in cobol_programs(t)}

_resolve_entry_program(t, d) ==
  LET called == {_normalise_service_key(n) : n \in call_dependencies(t)}
      roots == {i \in cobol_programs(t) : _normalise_service_key(t[i].id) \notin called}
  IN IF Named(t, d) # {} THEN t[Latest(Named(t, d))].id
     ELSE IF Single(roots) THEN t[First(roots)].id
     ELSE d

-----------------------------------------------------------------------------
(* The generated application.                                              *)

\* SpringBootEntryPoint.selected_service.
_derive_entry_point(t, entry) ==
  IF Named(t, entry) = {} THEN {} ELSE {First(Named(t, entry))}

\* Without a selected service every service is invoked, and the exit status is 0.
_generate_entry_point(t, entry) ==
  LET selected == _derive_entry_point(t, entry)
      active == IF selected = {} THEN cobol_programs(t) ELSE selected
  IN [generated |-> TRUE, active |-> active,
      status |-> IF Single(active) THEN t[First(active)].id ELSE NoName]

\* Plain Java, Jakarta EE and the frameworks in command mode have one main class;
\* of two programs of one name the later is written over the earlier.
_assemble_main_class(t, entry) ==
  LET resolved == IF entry = NoName THEN t[First(cobol_programs(t))].id ELSE entry
      made == {i \in cobol_programs(t) : t[i].id = resolved}
  IN [generated |-> made # {}, active |-> IF made = {} THEN {} ELSE {Latest(made)},
      status |-> resolved]

assemble(r, t, entry) ==
  IF r = "spring_boot" THEN _generate_entry_point(t, entry) ELSE _assemble_main_class(t, entry)

-----------------------------------------------------------------------------
(* The oracle (DockerOracleAdapter).                                       *)

NoModule == 0
IsModule(f) == f.suffix \in {"cob", "cbl"}

\* The directories it may compile: one of them, or it refuses.
module_directory(t) ==
  LET modules == {i \in DOMAIN t : IsModule(t[i])}
      programs == {i \in modules : t[i].id # NoName}
  IN IF (\E i \in modules : t[i].dir = "root") \/ programs = {} THEN {"root"}
     ELSE {t[i].dir : i \in programs}

modules_of(t, dir) == {i \in DOMAIN t : IsModule(t[i]) /\ t[i].dir = dir}

_read_static_call_targets(f) == {upper(c.to) : c \in {d \in f.calls : d.how # "dynamic"}}

\* .cob before .cbl, each by name.
FirstModule(t, S) ==
  LET cobs == {i \in S : t[i].suffix = "cob"}
  IN IF S = {} THEN NoModule ELSE First(IF cobs = {} THEN S ELSE cobs)
Sole(S) == IF Single(S) THEN First(S) ELSE NoModule

\* Mutant of named_module: the file name is looked at first.
named_module_by_file(t, modules, wanted) ==
  LET by_id == {i \in modules : upper(t[i].id) = wanted}
      by_file == {i \in modules : upper(t[i].stem) = wanted}
  IN IF by_file = {} THEN Sole(by_id) ELSE FirstModule(t, by_file)

\* A named entry: by PROGRAM-ID, when it is the only one, or by file name.
named_module(t, modules, wanted) ==
  LET by_id == {i \in modules : upper(t[i].id) = wanted}
      by_file == {i \in modules : upper(t[i].stem) = wanted}
  IN IF by_id = {} THEN FirstModule(t, by_file) ELSE Sole(by_id)

\* Otherwise the only module, main.cob or main.cbl, or the only one not called.
conventional_module(t, modules) ==
  LET markers == {i \in modules : upper(t[i].stem) = <<"MAIN", "plain">>}
      called == UNION {_read_static_call_targets(t[i]) : i \in modules}
      roots == {i \in modules : upper(t[i].id) \notin called}
  IN IF Single(modules) THEN First(modules)
     ELSE IF markers # {} THEN FirstModule(t, markers)
     ELSE Sole(roots)

select_modules(t, entry) ==
  IF ~Single(module_directory(t)) THEN NoModule
  ELSE LET modules == modules_of(t, CHOOSE d \in module_directory(t) : TRUE)
       IN IF entry = NoName THEN conventional_module(t, modules)
          ELSE named_module(t, modules, upper(entry))

-----------------------------------------------------------------------------
NothingEntered ==
  stage = "generate" /\ entered = {} /\ status = NoName /\ module = NoModule

EntryInit ==
  /\ sources \in SourceTrees /\ declared \in Declarations
  /\ runtime \in {"spring_boot", "plain_java"}
  /\ NothingEntered

\* _generate_application; a tree without a program is refused before.
GenerateEntry ==
  /\ stage = "generate" /\ cobol_programs(sources) # {}
  /\ LET made == assemble(runtime, sources, _resolve_entry_program(sources, declared))
     IN IF made.generated
        THEN stage' = "validate" /\ entered' = made.active /\ status' = made.status
        ELSE stage' = "refused" /\ UNCHANGED <<entered, status>>
  /\ UNCHANGED <<sources, declared, runtime, module>>

\* _run_validation resolves the name again, from the source the run has.
SelectOracleEntry ==
  /\ stage = "validate"
  /\ LET found == select_modules(sources, _resolve_entry_program(sources, declared))
     IN IF found # NoModule THEN stage' = "compared" /\ module' = found
        ELSE stage' = "refused" /\ UNCHANGED module
  /\ UNCHANGED <<sources, declared, runtime, entered, status>>

EntryNext == GenerateEntry \/ SelectOracleEntry
EntrySpec == EntryInit /\ [][EntryNext]_entryVars

-----------------------------------------------------------------------------
(* Trees on which the two resolutions are known to part.                   *)

Requested == _resolve_entry_program(sources, declared)

\* Nothing says where the application starts: it enters every service, and the
\* oracle goes by main.cob or its own reading of the CALLs.
Undeclared == Requested = NoName

\* No module the oracle compiles has that PROGRAM-ID, and one has it for a file
\* name: the declared "Main" that no program bears, or a program elsewhere.
ByFileName ==
  LET compiled == UNION {modules_of(sources, d) : d \in module_directory(sources)}
  IN /\ \E i \in compiled : upper(sources[i].stem) = upper(Requested)
     /\ \A i \in compiled : upper(sources[i].id) # upper(Requested)

\* The first of two programs that differ in dashes only is entered for the last.
Ambiguous ==
  \E i, j \in cobol_programs(sources) :
    /\ i # j
    /\ _normalise_service_key(sources[i].id) = _normalise_service_key(sources[j].id)

\* When both sides run, the candidate enters exactly the program the oracle
\* enters, and exits with that program's status (select_modules: "the oracle must
\* run the same program the candidate enters, so it never guesses"); and a source
\* tree of one directory whose entry is known is never refused by either.
SameProgramEnters ==
  /\ stage = "compared" /\ ~Undeclared /\ ~ByFileName /\ ~Ambiguous
       => entered = {module} /\ status = sources[module].id
  /\ stage = "refused" /\ ~Ambiguous
       /\ (\E i \in cobol_programs(sources) : sources[i].id = Requested)
       => \E i, j \in DOMAIN sources : \/ sources[i].dir # sources[j].dir
                                       \/ sources[i].suffix = ""
=============================================================================
