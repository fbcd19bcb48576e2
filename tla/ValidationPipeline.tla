------------------------ MODULE ValidationPipeline ------------------------
(***************************************************************************)
(* One validation of a generated program (VerticalSlicePipeline.run in     *)
(* engine/pipeline.py): the COBOL oracle and the Java candidate are        *)
(* executed, what they leave is captured and compared, and a verdict is    *)
(* derived from the sealed evidence.                                       *)
(*                                                                         *)
(* The model keeps both what the two programs really did (oracle,          *)
(* candidate, program) and what the pipeline recorded of it (evidence,     *)
(* verdict), so that a verdict can be judged against the facts.  The COBOL *)
(* source is a directory shared with the upload handlers: every step that  *)
(* reads it is a step of its own, and SourceReplaced may delete it between *)
(* two of them (see SourceWorkspace).                                      *)
(***************************************************************************)
EXTENDS Integers, FiniteSets

CONSTANTS
  Texts,           \* what bytes say, up to line ends and line order
  Forms,           \* how they say it: line ends, line order
  Unreadable,      \* texts of file images that cannot be decoded
  PlainFiles,      \* files the programs may write
  KeyedFiles,      \* INDEXED and RELATIVE files of the COBOL source
  ExitCodes,       \* exit codes other than 0
  Missing,         \* a file that was not written
  Empty,           \* no output
  Programs,        \* COBOL programs, by the effects no comparator observes
  Contracts,       \* certification contracts: artifacts, business rules
  SourceVanishes   \* may an upload delete the source during the validation?

Contents == Texts \X Forms

\* A generated file: a plain file, the COBOL file of a keyed SELECT, or the
\* image (.idx, .rel) the Java runtime keeps for it.
FileNames == (PlainFiles \X {"data"}) \cup (KeyedFiles \X {"data", "image"})

StreamTypes == {"STDOUT", "STDERR", "EXIT_STATUS"}
FileTypes == {"TEXT_FILE", "FIXED_RECORD"}
EFFECT_TYPE == "DATABASE_STATE"

\* engine/workload.py WorkloadArtifact: exact is an empty normalisation and
\* SEQUENTIAL ordering; on_missing is the failure policy.  An artifact of a
\* stream names no output file.
ArtifactDefs ==
  [type : StreamTypes, path : {<<"process", "stream">>}, exact : BOOLEAN,
   on_missing : {"UNAVAILABLE", "FAILED"}]
    \cup
  [type : FileTypes, path : FileNames, exact : BOOLEAN,
   on_missing : {"UNAVAILABLE", "FAILED"}]

ASSUME ContractAssumption ==
  /\ Contracts # {}
  /\ \A k \in Contracts :
       /\ k.artifacts \subseteq ArtifactDefs /\ k.artifacts # {}
       /\ k.invariants \in BOOLEAN
  /\ Unreadable \subseteq Texts
  /\ Missing \notin Contents
  /\ Empty \in Contents
  /\ Programs \subseteq [effects : BOOLEAN]
  /\ ExitCodes \subseteq Nat \ {0}
  /\ SourceVanishes \in BOOLEAN

VARIABLES
  pc,         \* the next phase of run()
  source,     \* is the source directory on disk?
  program,    \* does the COBOL source have effects no comparator observes?
  contract,   \* the resolved certification contract
  oracle,     \* what the oracle execution left
  candidate,  \* what the candidate left
  evidence,   \* artifact and comparison evidence collected so far
  verdict

vars == <<pc, source, program, contract, oracle, candidate, evidence, verdict>>

NoFiles == [n \in FileNames |-> Missing]

\* Observations: termination status, exit code (NoExit for none), streams,
\* files, whether the declared business rules hold on them, the phase reached,
\* and whether the tree the execution works from was the same before and
\* after it.
NoExit == -1
WithoutFiles(status, exit, out, err, phase, unchanged) ==
  [status |-> status, exit |-> exit, stdout |-> out, stderr |-> err,
   files |-> NoFiles, holds |-> FALSE, phase |-> phase,
   unchanged |-> unchanged]
NotRun == WithoutFiles("none", NoExit, Missing, Missing, "none", TRUE)

Init ==
  /\ pc = "oracle"
  /\ source = TRUE
  /\ program \in Programs
  /\ contract \in Contracts
  /\ oracle = NotRun
  /\ candidate = NotRun
  /\ evidence = {}
  /\ verdict = "none"

-----------------------------------------------------------------------------
(* Executions.                                                             *)

Files == [FileNames -> Contents \cup {Missing}]

\* build_report: the declared business rules are a function of what was
\* observed, the same on both sides.
RuleOutcomes(exit, out, err, files) ==
  {holds \in BOOLEAN :
     /\ ~contract.invariants => holds
     /\ (/\ exit = oracle.exit /\ out = oracle.stdout /\ err = oracle.stderr
         /\ files = oracle.files) => holds = oracle.holds}

\* An execution whose output is discarded: it could not run or ran too long.
\* Its verdict is ERROR whatever else it left.
Lost(status, err, unchanged) ==
  WithoutFiles(status, NoExit, Empty, err, "EXECUTE", unchanged)

\* engine/oracle/docker_adapter.py classify_oracle_termination.  sets: the
\* program compiled, sets RETURN-CODE and libcob reported no error.
classify_oracle_termination(exit, sets) ==
  IF exit = 0 THEN "normal" ELSE IF sets THEN "return_code" ELSE "nonzero_exit"

\* DockerOracleAdapter.execute up to the staged copy of the source.  Without
\* docker, the pinned image and compiler, a provable entry program or the source
\* it reports an error.
StageOracle ==
  /\ pc = "oracle"
  /\ \/ /\ source
        /\ pc' = "staged"
        /\ UNCHANGED oracle
     \/ /\ pc' = "build"
        /\ \E err \in Contents : oracle' = Lost("error", err, TRUE)
  /\ UNCHANGED <<source, program, contract, candidate, evidence, verdict>>

\* The container runs on the staged copy; the source tree is hashed again,
\* unless the adapter failed.
RunOracle ==
  /\ pc = "staged"
  /\ \E out, err \in Contents :
       \/ oracle' = Lost("timeout", err, source)
       \/ oracle' = Lost("error", err, TRUE)
       \/ \E files \in Files, exit \in ExitCodes \cup {0}, sets \in BOOLEAN :
            \E holds \in RuleOutcomes(exit, out, err, files) :
              oracle' =
                [status |-> classify_oracle_termination(exit, sets),
                 exit |-> exit, stdout |-> out, stderr |-> err, files |-> files,
                 holds |-> holds, phase |-> "EXECUTE", unchanged |-> source]
  /\ pc' = "build"
  /\ UNCHANGED <<source, program, contract, candidate, evidence, verdict>>

\* CandidateAdapter.compile: the build succeeds, could not run
\* (infrastructure) or failed; it may rewrite the tree it builds.
BuildCandidate ==
  /\ pc = "build"
  /\ \E unchanged \in BOOLEAN :
       \/ /\ pc' = "execute"
          /\ candidate' = WithoutFiles("none", NoExit, Missing, Missing, "none",
                                       unchanged)
       \/ /\ pc' = "compare"
          /\ \E err \in Contents :
               \/ candidate' = WithoutFiles("error", NoExit, Empty, err, "BUILD",
                                            unchanged)
               \/ candidate' = WithoutFiles("nonzero_exit", 1, Empty, err, "BUILD",
                                            unchanged)
  /\ UNCHANGED <<source, program, contract, oracle, evidence, verdict>>

ExecuteCandidate ==
  /\ pc = "execute"
  /\ \E out, err \in Contents :
       \/ \E status \in {"timeout", "error"} :
            candidate' = Lost(status, err, candidate.unchanged)
       \/ \E files \in Files, exit \in ExitCodes \cup {0} :
            \E holds \in RuleOutcomes(exit, out, err, files) :
              candidate' =
                [status |-> IF exit = 0 THEN "normal" ELSE "nonzero_exit",
                 exit |-> exit, stdout |-> out, stderr |-> err, files |-> files,
                 holds |-> holds, phase |-> "EXECUTE",
                 unchanged |-> candidate.unchanged]
  /\ pc' = "compare"
  /\ UNCHANGED <<source, program, contract, oracle, evidence, verdict>>

-----------------------------------------------------------------------------
(* Comparison.  An entry of the evidence is one ORACLE artifact, one       *)
(* CANDIDATE artifact of the same definition and the comparison of the two.*)

Entry(d, result) == [artifact |-> d, result |-> result]

\* _extract_artifact_content; no exit code reads as -1.
extract(d, obs) ==
  CASE d.type = "STDOUT" -> obs.stdout
    [] d.type = "STDERR" -> obs.stderr
    [] d.type = "EXIT_STATUS" -> obs.exit
    [] OTHER -> obs.files[d.path]

\* TypedComparator._normalize and _apply_ordering; exit codes and fixed records
\* take neither.
normalize(d, x) ==
  IF d.exact \/ d.type \in {"EXIT_STATUS", "FIXED_RECORD"} THEN x ELSE x[1]

\* TypedComparator._handle_missing.
handle_missing(d) ==
  IF d.on_missing = "UNAVAILABLE" THEN "INCONCLUSIVE" ELSE "MISMATCH"

\* compare of the five comparators of observed artifacts.
compare(d) ==
  LET o == extract(d, oracle)
      c == extract(d, candidate)
  IN IF d.type \in FileTypes /\ (o = Missing \/ c = Missing)
     THEN handle_missing(d)
     ELSE IF normalize(d, o) = normalize(d, c) THEN "MATCH" ELSE "MISMATCH"

\* Mutant of required_artifacts: a contract without STDERR leaves it out.
required_artifacts_without_stderr ==
  contract.artifacts \cup
    {[type |-> t, path |-> <<"process", "stream">>, exact |-> TRUE,
      on_missing |-> "UNAVAILABLE"] :
        t \in {u \in StreamTypes \ {"STDERR"} :
                 \A d \in contract.artifacts : d.type # u}}

\* Streams and exit status are compared even when the contract omits them.
required_artifacts ==
  contract.artifacts \cup
    {[type |-> t, path |-> <<"process", "stream">>, exact |-> TRUE,
      on_missing |-> "UNAVAILABLE"] :
        t \in {u \in StreamTypes : \A d \in contract.artifacts : d.type # u}}

declared_paths == {d.path : d \in {e \in contract.artifacts : e.type \in FileTypes}}

\* Mutant of undeclared: a file that only the candidate wrote is ignored.
undeclared_of_oracle ==
  {n \in FileNames : oracle.files[n] # Missing} \ declared_paths

undeclared ==
  {n \in FileNames : oracle.files[n] # Missing \/ candidate.files[n] # Missing}
    \ declared_paths

file_artifact(path, on_missing) ==
  [type |-> "TEXT_FILE", path |-> path, exact |-> TRUE,
   on_missing |-> on_missing]

\* Mutant of emulated_file_image_names: the companion image is not recognised.
emulated_file_image_names_exact(readable) ==
  IF readable THEN {n \in undeclared : n[1] \in KeyedFiles /\ n[2] = "data"}
  ELSE {}

\* _emulated_file_image_names, from the SELECTs found in the source text.
emulated_file_image_names(readable) ==
  IF readable THEN {n \in undeclared : n[1] \in KeyedFiles} ELSE {}

\* _compare_file_records: the files whose two images hold records that can be
\* read and are each on their own side only.
records_compared(readable, organised) ==
  {k \in organised :
     LET data == <<k, "data">>
         image == <<k, "image">>
     IN /\ data \in emulated_file_image_names(readable)
        /\ oracle.files[data] # Missing /\ oracle.files[image] = Missing
        /\ candidate.files[data] = Missing /\ candidate.files[image] # Missing
        /\ oracle.files[data][1] \notin Unreadable
        /\ candidate.files[image][1] \notin Unreadable}

compare_file_records(readable, organised) ==
  {Entry(file_artifact(<<k, "records">>, "FAILED"),
         IF oracle.files[<<k, "data">>][1] = candidate.files[<<k, "image">>][1]
         THEN "MATCH" ELSE "MISMATCH") : 
           k \in records_compared(readable, organised)}

compare_undeclared(emulated, handled) ==
  {IF n \in emulated
   THEN Entry(file_artifact(n, "UNAVAILABLE"), "INCONCLUSIVE")
   ELSE Entry(file_artifact(n, "FAILED"), compare(file_artifact(n, "FAILED"))) :
     n \in {m \in undeclared : m[1] \notin handled}}

INVARIANTS ==
  [type |-> "BUSINESS_INVARIANT", path |-> <<"rules", "report">>,
   exact |-> TRUE, on_missing |-> "UNAVAILABLE"]

compare_invariants ==
  IF contract.invariants
  THEN {Entry(INVARIANTS, IF oracle.holds /\ candidate.holds
                          THEN "MATCH" ELSE "MISMATCH")}
  ELSE {}

\* _run_declaration_driven.  readable: the source text was there when the names
\* of keyed files were looked up; organised: the keyed files it was still there
\* for when their organisation was looked up.
run_declaration_driven(readable, organised) ==
  {Entry(d, compare(d)) : d \in required_artifacts}
    \cup compare_file_records(readable, organised)
    \cup compare_undeclared(emulated_file_image_names(readable),
                            records_compared(readable, organised))
    \cup compare_invariants

\* The source may be deleted between two reads of one comparison.
Organised ==
  IF ~source THEN {{}}
  ELSE IF SourceVanishes THEN SUBSET KeyedFiles ELSE {KeyedFiles}

Compare ==
  /\ pc = "compare"
  /\ \E organised \in Organised :
       /\ evidence' = run_declaration_driven(source, organised)
       /\ source' = (source /\ organised = KeyedFiles)
  /\ pc' = "effects"
  /\ UNCHANGED <<program, contract, oracle, candidate, verdict>>

EFFECTS ==
  [type |-> EFFECT_TYPE, path |-> <<"effects", "report">>, exact |-> TRUE,
   on_missing |-> "UNAVAILABLE"]

\* Mutant of ScanEffects: the scan is skipped.
ScanEffects_skipped ==
  /\ pc = "effects"
  /\ pc' = "validate"
  /\ UNCHANGED <<source, program, contract, oracle, candidate, evidence, verdict>>

\* _unobserved_effect_evidence: markers for the channels found in the source
\* text; a source that is not there has no text.
ScanEffects ==
  /\ pc = "effects"
  /\ evidence' = IF source /\ program.effects
                 THEN evidence \cup {Entry(EFFECTS, "INCONCLUSIVE")}
                 ELSE evidence
  /\ pc' = "validate"
  /\ UNCHANGED <<source, program, contract, oracle, candidate, verdict>>

-----------------------------------------------------------------------------
(* Admission and derivation.                                               *)

Types == {e.artifact.type : e \in evidence}
Results == {e.result : e \in evidence}

\* EvidenceIntegrityValidator.validate.  The bindings of run, workload,
\* source, oracle image, artifacts and comparators hold for evidence that one
\* pipeline collected for one run; these checks are the ones it can fail.
validate ==
  /\ oracle.unchanged /\ candidate.unchanged
  /\ \/ candidate.status = "nonzero_exit"
     \/ oracle.status = "return_code"
     => "EXIT_STATUS" \in Types
  /\ candidate.phase = "EXECUTE"
  /\ evidence # {}

SUPPORTED_TYPES == StreamTypes \cup FileTypes \cup {"BUSINESS_INVARIANT"}

check_for_errors ==
  {oracle.status, candidate.status} \cap {"error", "timeout"} # {}

check_for_unavailable == oracle.status = "nonzero_exit"

\* VerdictDeriver.derive.
derive ==
  IF check_for_errors THEN "ERROR"
  ELSE IF check_for_unavailable THEN "UNAVAILABLE"
  ELSE IF ~(Types \subseteq SUPPORTED_TYPES) THEN "UNSUPPORTED"
  ELSE IF evidence = {} THEN "UNPROVEN"
  ELSE IF "MISMATCH" \in Results THEN "FAILED"
  ELSE IF "INCONCLUSIVE" \in Results THEN "PARTIAL"
  ELSE "VERIFIED"

\* Mutant of DeriveVerdict: evidence that was not admitted gets a verdict of its
\* own, outside the vocabulary.
DeriveVerdict_untrusted ==
  /\ pc = "validate"
  /\ verdict' = IF ~validate THEN "UNTRUSTED" ELSE derive
  /\ pc' = "done"
  /\ UNCHANGED <<source, program, contract, oracle, candidate, evidence>>

\* derive_untrusted: evidence that was not admitted never certifies.
DeriveVerdict ==
  /\ pc = "validate"
  /\ verdict' = IF ~validate /\ derive = "VERIFIED" THEN "ERROR" ELSE derive
  /\ pc' = "done"
  /\ UNCHANGED <<source, program, contract, oracle, candidate, evidence>>

-----------------------------------------------------------------------------
\* An upload replaced the application's source and deleted this directory.
SourceReplaced ==
  /\ SourceVanishes
  /\ source
  /\ source' = FALSE
  /\ UNCHANGED <<pc, program, contract, oracle, candidate, evidence, verdict>>

Next ==
  \/ StageOracle \/ RunOracle \/ BuildCandidate \/ ExecuteCandidate
  \/ Compare \/ ScanEffects \/ DeriveVerdict
  \/ SourceReplaced

Spec == Init /\ [][Next]_vars

-----------------------------------------------------------------------------
(* What the two programs did, independently of the evidence.               *)

\* Every declaration of the path leaves line ends and line order open; a fixed
\* record never does.
Lenient(types, path) ==
  LET declared == {d \in contract.artifacts : d.type \in types /\ d.path = path}
  IN declared # {} /\ \A d \in declared : ~d.exact /\ d.type # "FIXED_RECORD"

SameBytes(o, c, lenient) == o[1] = c[1] /\ (lenient \/ o = c)

SameFile(n) ==
  \/ oracle.files[n] = Missing /\ candidate.files[n] = Missing
  \/ /\ oracle.files[n] # Missing /\ candidate.files[n] # Missing
     /\ SameBytes(oracle.files[n], candidate.files[n],
                  Lenient(FileTypes, n))

\* The COBOL file of one side and the image of the other hold the same records.
SameRecords(k) ==
  /\ oracle.files[<<k, "data">>] # Missing
  /\ candidate.files[<<k, "image">>] # Missing
  /\ oracle.files[<<k, "data">>][1] = candidate.files[<<k, "image">>][1]
  /\ oracle.files[<<k, "image">>] = Missing
  /\ candidate.files[<<k, "data">>] = Missing

Equivalent ==
  /\ oracle.exit = candidate.exit
  /\ SameBytes(oracle.stdout, candidate.stdout,
               Lenient({"STDOUT"}, <<"process", "stream">>))
  /\ SameBytes(oracle.stderr, candidate.stderr,
               Lenient({"STDERR"}, <<"process", "stream">>))
  /\ \A n \in FileNames :
       SameFile(n) \/ (n[1] \in KeyedFiles /\ SameRecords(n[1]))

-----------------------------------------------------------------------------
(* Properties.                                                             *)

Observations ==
  [status : {"none", "normal", "return_code", "nonzero_exit", "timeout", "error"},
   exit : Int, stdout : Contents \cup {Missing}, stderr : Contents \cup {Missing},
   files : Files, holds : BOOLEAN, phase : {"none", "BUILD", "EXECUTE"},
   unchanged : BOOLEAN]

Verdicts == {"VERIFIED", "PARTIAL", "FAILED", "UNPROVEN", "UNAVAILABLE",
             "UNSUPPORTED", "ERROR"}

\* Types of the observations, the evidence and the verdict.
TypeOK ==
  /\ pc \in {"oracle", "staged", "build", "execute", "compare", "effects",
             "validate", "done"}
  /\ source \in BOOLEAN
  /\ program \in Programs
  /\ contract \in Contracts
  /\ oracle \in Observations
  /\ candidate \in Observations
  /\ \A e \in evidence : e.result \in {"MATCH", "MISMATCH", "INCONCLUSIVE"}
  /\ verdict \in Verdicts \cup {"none"}

\* VERIFIED means that a usable reference and the executed candidate agree on
\* every stream, the exit code and every file either of them wrote, up to the
\* leniency the contract declares, with their trees untouched and the business
\* rules satisfied, even when the source disappears half way
\* (_run_declaration_driven, validate and derive together).
VerifiedIsEquivalent ==
  verdict = "VERIFIED" =>
    /\ oracle.status \in {"normal", "return_code"}
    /\ candidate.phase = "EXECUTE"
    /\ candidate.status \in {"normal", "nonzero_exit"}
    /\ oracle.unchanged /\ candidate.unchanged
    /\ Equivalent
    /\ contract.invariants => oracle.holds /\ candidate.holds

\* The verdict never certifies a program whose side effects were not compared
\* (_unobserved_effect_evidence, said of it in run()), as long as the source
\* was there to be scanned: a path that is gone is never used again.
EffectsAreNeverCertified ==
  (verdict = "VERIFIED" /\ source) => ~program.effects

\* FAILED is never said of a candidate for want of a usable reference, and has
\* a cause: it was not built, it differs, a business rule is broken, or a file
\* the contract insists on is missing (derive against the facts).  Without the
\* source the key of a keyed file is unknown and a correct candidate fails.
FailedIsJustified ==
  (verdict = "FAILED" /\ source) =>
    /\ oracle.status \in {"normal", "return_code"}
    /\ \/ candidate.phase = "BUILD"
       \/ ~Equivalent
       \/ contract.invariants /\ ~(oracle.holds /\ candidate.holds)
       \/ \E d \in contract.artifacts :
            /\ d.type \in FileTypes /\ d.on_missing = "FAILED"
            /\ Missing \in {oracle.files[d.path], candidate.files[d.path]}
=============================================================================
