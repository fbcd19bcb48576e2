---------------------- MODULE ValidationPipeline_proofs ----------------------
(***************************************************************************)
(* Proofs about one validation, for any contents, files and contracts: the *)
(* types, what VERIFIED stands for, and that effects are never certified   *)
(* while the source stays in place.                                        *)
(*                                                                         *)
(* And about the containers it runs: every one of them runs a verified     *)
(* image, and every result that is compared is that of a whole execution,  *)
(* for any images, versions and pins, however often the tags move and      *)
(* however containers and their clients end.                               *)
(***************************************************************************)
EXTENDS ValidationPipeline, Containers, TLAPS

Ran == {"normal", "return_code", "nonzero_exit", "timeout", "error"}

\* The evidence holds every comparison of the declaration-driven pass, however
\* much of the source could be read during it.
EvidenceIsComplete ==
  \E readable \in BOOLEAN, organised \in SUBSET KeyedFiles :
    run_declaration_driven(readable, organised) \subseteq evidence

\* The inductive invariant.
PipelineInvariant ==
  /\ TypeOK
  /\ pc \notin {"oracle", "staged"} => oracle.status \in Ran
  /\ pc \in {"compare", "effects", "validate", "done"} =>
       candidate.status \in Ran \ {"return_code"}
  /\ pc \in {"effects", "validate", "done"} => EvidenceIsComplete
  /\ verdict = "VERIFIED" => pc = "done" /\ validate /\ derive = "VERIFIED"

-----------------------------------------------------------------------------
(* Types of the operators.                                                 *)

\* An execution without files is an observation.
LEMMA WithoutFilesType ==
  ASSUME NEW status \in Ran \cup {"none"}, NEW exit \in Int,
         NEW out \in Contents \cup {Missing}, NEW err \in Contents \cup {Missing},
         NEW phase \in {"none", "BUILD", "EXECUTE"}, NEW unchanged \in BOOLEAN
  PROVE  /\ WithoutFiles(status, exit, out, err, phase, unchanged) \in Observations
         /\ WithoutFiles(status, exit, out, err, phase, unchanged).status = status
<1>1. NoFiles \in Files BY DEF NoFiles, Files
<1> QED BY <1>1 DEF WithoutFiles, Observations, Ran

LEMMA Basics == NoExit \in Int /\ Empty \in Contents
<1>1. NoExit \in Int BY DEF NoExit
<1>2. Empty \in Contents BY ContractAssumption
<1> QED BY <1>1, <1>2

\* So is one whose output is discarded.
LEMMA LostType ==
  ASSUME NEW status \in {"timeout", "error"}, NEW err \in Contents,
         NEW unchanged \in BOOLEAN
  PROVE  /\ Lost(status, err, unchanged) \in Observations
         /\ Lost(status, err, unchanged).status = status
<1>1. NoFiles \in Files BY DEF NoFiles, Files
<1> QED BY <1>1, Basics DEF Lost, WithoutFiles, Observations

\* Comparing two contents gives a known result.
LEMMA CompareType ==
  ASSUME NEW d
  PROVE  compare(d) \in {"MATCH", "MISMATCH", "INCONCLUSIVE"}
BY DEF compare, handle_missing

\* The comparisons of the declaration-driven pass have known results.
LEMMA PassType ==
  ASSUME NEW r, NEW s
  PROVE  \A e \in run_declaration_driven(r, s) :
           e.result \in {"MATCH", "MISMATCH", "INCONCLUSIVE"}
<1> DEFINE Known(e) == e.result \in {"MATCH", "MISMATCH", "INCONCLUSIVE"}
<1>1. \A e \in {Entry(d, compare(d)) : d \in required_artifacts} : Known(e)
  BY CompareType DEF Entry
<1>2. ASSUME NEW e \in compare_file_records(r, s) PROVE Known(e)
  <2>1. PICK k \in records_compared(r, s) :
          e = Entry(file_artifact(<<k, "records">>, "FAILED"),
                    IF oracle.files[<<k, "data">>][1]
                         = candidate.files[<<k, "image">>][1]
                    THEN "MATCH" ELSE "MISMATCH")
    BY Zenon DEF compare_file_records
  <2> DEFINE a == file_artifact(<<k, "records">>, "FAILED")
             same == oracle.files[<<k, "data">>][1]
                       = candidate.files[<<k, "image">>][1]
  <2>2. e = Entry(a, IF same THEN "MATCH" ELSE "MISMATCH") BY <2>1
  <2> HIDE DEF a, same
  <2> QED BY <2>2 DEF Entry
<1>3. \A e \in compare_undeclared(emulated_file_image_names(r),
                                  records_compared(r, s)) : Known(e)
  BY CompareType DEF compare_undeclared, Entry
<1>4. \A e \in compare_invariants : Known(e)
  BY DEF compare_invariants, Entry
<1> HIDE DEF Known
<1>5. \A e \in run_declaration_driven(r, s) : Known(e)
  BY <1>1, <1>2, <1>3, <1>4 DEF run_declaration_driven
<1> QED BY <1>5 DEF Known

\* The derivation stays in the vocabulary.
LEMMA DeriveType == derive \in Verdicts
BY DEF derive, Verdicts

-----------------------------------------------------------------------------
(* The invariant.                                                          *)

\* Before any execution the invariant holds.
LEMMA InitInvariant == Init => PipelineInvariant
<1>1. NotRun \in Observations
  BY WithoutFilesType, Basics DEF NotRun
<1> QED BY <1>1 DEF Init, PipelineInvariant, TypeOK, Verdicts

\* What the evidence covers depends on the executions and the contract only.
LEMMA CompleteStays ==
  ASSUME EvidenceIsComplete, evidence \subseteq evidence',
         UNCHANGED <<contract, oracle, candidate>>
  PROVE  EvidenceIsComplete'
<1>1. PICK r \in BOOLEAN, s \in SUBSET KeyedFiles :
        run_declaration_driven(r, s) \subseteq evidence
  BY DEF EvidenceIsComplete
<1>2. run_declaration_driven(r, s)' = run_declaration_driven(r, s)
  BY DEF run_declaration_driven, compare_file_records, compare_undeclared,
         compare_invariants, compare, extract, required_artifacts, undeclared,
         declared_paths, emulated_file_image_names, records_compared
<1> QED BY <1>1, <1>2 DEF EvidenceIsComplete

\* Every step of the pipeline keeps the invariant.
LEMMA StepInvariant ==
  ASSUME PipelineInvariant, [Next]_vars
  PROVE  PipelineInvariant'
<1>t. TypeOK BY DEF PipelineInvariant
<1> USE DEF Ran
<1>1. CASE StageOracle
  <2>1. oracle' \in Observations /\ (pc' = "build" => oracle'.status \in Ran)
    <3>1. CASE UNCHANGED oracle /\ pc' = "staged"
      BY <1>t, <3>1 DEF TypeOK
    <3>2. CASE \E err \in Contents : oracle' = Lost("error", err, TRUE)
      BY <3>2, LostType
    <3> QED BY <1>1, <3>1, <3>2 DEF StageOracle
  <2>2. verdict # "VERIFIED"
    BY <1>1 DEF PipelineInvariant, StageOracle
  <2> QED BY <1>1, <1>t, <2>1, <2>2 DEF StageOracle, PipelineInvariant, TypeOK
<1>2. CASE RunOracle
  <2>1. oracle' \in Observations /\ oracle'.status \in Ran
    <3>1. PICK out \in Contents, err \in Contents :
            \/ oracle' = Lost("timeout", err, source)
            \/ oracle' = Lost("error", err, TRUE)
            \/ \E files \in Files, exit \in ExitCodes \cup {0}, coded \in BOOLEAN :
                 \E holds \in RuleOutcomes(exit, out, err, files) :
                   oracle' =
                     [status |-> classify_oracle_termination(exit, coded),
                      exit |-> exit, stdout |-> out, stderr |-> err,
                      files |-> files, holds |-> holds, phase |-> "EXECUTE",
                      unchanged |-> source]
      BY <1>2 DEF RunOracle
    <3>2. source \in BOOLEAN BY <1>t DEF TypeOK
    <3>3. CASE \/ oracle' = Lost("timeout", err, source)
               \/ oracle' = Lost("error", err, TRUE)
      BY <3>2, <3>3, LostType
    <3>4. CASE \E files \in Files, exit \in ExitCodes \cup {0}, coded \in BOOLEAN :
                 \E holds \in RuleOutcomes(exit, out, err, files) :
                   oracle' =
                     [status |-> classify_oracle_termination(exit, coded),
                      exit |-> exit, stdout |-> out, stderr |-> err,
                      files |-> files, holds |-> holds, phase |-> "EXECUTE",
                      unchanged |-> source]
      BY <3>2, <3>4, ContractAssumption
         DEF RuleOutcomes, classify_oracle_termination, Observations
    <3> QED BY <3>1, <3>3, <3>4
  <2>2. verdict # "VERIFIED"
    BY <1>2 DEF PipelineInvariant, RunOracle
  <2> QED BY <1>2, <1>t, <2>1, <2>2 DEF RunOracle, PipelineInvariant, TypeOK
<1>3. CASE BuildCandidate
  <2>1. candidate' \in Observations /\
          (pc' = "compare" => candidate'.status \in Ran \ {"return_code"})
    <3>1. PICK unchanged \in BOOLEAN :
            \/ /\ pc' = "execute"
               /\ candidate' = WithoutFiles("none", NoExit, Missing, Missing,
                                            "none", unchanged)
            \/ /\ pc' = "compare"
               /\ \E err \in Contents :
                    \/ candidate' = WithoutFiles("error", NoExit, Empty, err,
                                                 "BUILD", unchanged)
                    \/ candidate' = WithoutFiles("nonzero_exit", 1, Empty, err,
                                                 "BUILD", unchanged)
      BY <1>3 DEF BuildCandidate
    <3>2. CASE candidate' = WithoutFiles("none", NoExit, Missing, Missing,
                                         "none", unchanged) /\ pc' = "execute"
      BY <3>2, WithoutFilesType, Basics
    <3>3. ASSUME NEW err \in Contents,
                 \/ candidate' = WithoutFiles("error", NoExit, Empty, err,
                                              "BUILD", unchanged)
                 \/ candidate' = WithoutFiles("nonzero_exit", 1, Empty, err,
                                              "BUILD", unchanged)
          PROVE  candidate' \in Observations
                 /\ candidate'.status \in Ran \ {"return_code"}
      BY <3>3, WithoutFilesType, Basics
    <3> QED BY <3>1, <3>2, <3>3
  <2>2. verdict # "VERIFIED"
    BY <1>3 DEF PipelineInvariant, BuildCandidate
  <2> QED BY <1>3, <1>t, <2>1, <2>2
             DEF BuildCandidate, PipelineInvariant, TypeOK
<1>4. CASE ExecuteCandidate
  <2>1. candidate' \in Observations /\ candidate'.status \in Ran \ {"return_code"}
    <3>1. candidate.unchanged \in BOOLEAN BY <1>t DEF TypeOK, Observations
    <3>2. PICK out \in Contents, err \in Contents :
            \/ \E status \in {"timeout", "error"} :
                 candidate' = Lost(status, err, candidate.unchanged)
            \/ \E files \in Files, exit \in ExitCodes \cup {0} :
                 \E holds \in RuleOutcomes(exit, out, err, files) :
                   candidate' =
                     [status |-> IF exit = 0 THEN "normal" ELSE "nonzero_exit",
                      exit |-> exit, stdout |-> out, stderr |-> err,
                      files |-> files, holds |-> holds, phase |-> "EXECUTE",
                      unchanged |-> candidate.unchanged]
      BY <1>4 DEF ExecuteCandidate
    <3>3. CASE \E status \in {"timeout", "error"} :
                 candidate' = Lost(status, err, candidate.unchanged)
      BY <3>1, <3>3, LostType
    <3>4. CASE \E files \in Files, exit \in ExitCodes \cup {0} :
                 \E holds \in RuleOutcomes(exit, out, err, files) :
                   candidate' =
                     [status |-> IF exit = 0 THEN "normal" ELSE "nonzero_exit",
                      exit |-> exit, stdout |-> out, stderr |-> err,
                      files |-> files, holds |-> holds, phase |-> "EXECUTE",
                      unchanged |-> candidate.unchanged]
      BY <3>1, <3>4, ContractAssumption DEF RuleOutcomes, Observations
    <3> QED BY <3>2, <3>3, <3>4
  <2>2. verdict # "VERIFIED"
    BY <1>4 DEF PipelineInvariant, ExecuteCandidate
  <2> QED BY <1>4, <1>t, <2>1, <2>2
             DEF ExecuteCandidate, PipelineInvariant, TypeOK
<1>5. CASE Compare
  <2>1. PICK organised \in Organised :
          /\ evidence' = run_declaration_driven(source, organised)
          /\ source' = (source /\ organised = KeyedFiles)
    BY <1>5 DEF Compare
  <2>2. source \in BOOLEAN /\ source' \in BOOLEAN
    BY <1>t, <2>1 DEF TypeOK
  <2>3. organised \in SUBSET KeyedFiles BY DEF Organised
  <2>4. EvidenceIsComplete'
    <3> DEFINE Pass == run_declaration_driven(source, organised)
    <3>1. PICK r \in BOOLEAN, o \in SUBSET KeyedFiles :
            evidence' = run_declaration_driven(r, o)
      BY <2>1, <2>2, <2>3
    <3>2. run_declaration_driven(r, o)' = run_declaration_driven(r, o)
      BY <1>5 DEF Compare, run_declaration_driven, compare_file_records,
         compare_undeclared, compare_invariants, compare, extract,
         required_artifacts, undeclared, declared_paths,
         emulated_file_image_names, records_compared
    <3> QED BY <3>1, <3>2 DEF EvidenceIsComplete
  <2>5. \A e \in evidence' : e.result \in {"MATCH", "MISMATCH", "INCONCLUSIVE"}
    BY <2>1, PassType
  <2>6. verdict # "VERIFIED"
    BY <1>5 DEF PipelineInvariant, Compare
  <2> QED BY <1>5, <1>t, <2>2, <2>4, <2>5, <2>6
             DEF Compare, PipelineInvariant, TypeOK
<1>6. CASE ScanEffects
  <2>1. EvidenceIsComplete'
    BY <1>6, CompleteStays DEF ScanEffects, PipelineInvariant
  <2>2. \A e \in evidence' : e.result \in {"MATCH", "MISMATCH", "INCONCLUSIVE"}
    BY <1>6, <1>t DEF ScanEffects, TypeOK, Entry
  <2>3. verdict # "VERIFIED"
    BY <1>6 DEF PipelineInvariant, ScanEffects
  <2> QED BY <1>6, <1>t, <2>1, <2>2, <2>3
             DEF ScanEffects, PipelineInvariant, TypeOK
<1>7. CASE DeriveVerdict
  <2>1. EvidenceIsComplete'
    BY <1>7, CompleteStays DEF DeriveVerdict, PipelineInvariant
  <2>2. verdict' \in Verdicts
    BY <1>7, DeriveType DEF DeriveVerdict, Verdicts
  <2>3. verdict' = "VERIFIED" => validate /\ derive = "VERIFIED"
    BY <1>7 DEF DeriveVerdict
  <2>4. validate' = validate /\ derive' = derive
    BY <1>7 DEF DeriveVerdict, validate, derive, check_for_errors,
       check_for_unavailable, Types, Results
  <2> QED BY <1>7, <1>t, <2>1, <2>2, <2>3, <2>4
             DEF DeriveVerdict, PipelineInvariant, TypeOK
<1>8. CASE SourceReplaced \/ UNCHANGED vars
  <2>1. UNCHANGED <<pc, program, contract, oracle, candidate, evidence, verdict>>
        /\ source' \in BOOLEAN
    BY <1>8, <1>t DEF SourceReplaced, vars, TypeOK
  <2>2. EvidenceIsComplete => EvidenceIsComplete'
    BY <2>1, CompleteStays
  <2>3. validate' = validate /\ derive' = derive
    BY <2>1 DEF validate, derive, check_for_errors, check_for_unavailable,
       Types, Results
  <2> QED BY <1>t, <2>1, <2>2, <2>3 DEF PipelineInvariant, TypeOK
<1> QED BY <1>1, <1>2, <1>3, <1>4, <1>5, <1>6, <1>7, <1>8 DEF Next

-----------------------------------------------------------------------------
(* What VERIFIED stands for.                                               *)

\* Where every comparison of an artifact is a match, the two contents are
\* equal up to what the declaration allows.
LEMMA MatchIsEqual ==
  ASSUME NEW d, compare(d) = "MATCH"
  PROVE  /\ normalize(d, extract(d, oracle)) = normalize(d, extract(d, candidate))
         /\ d.type \in FileTypes =>
              extract(d, oracle) # Missing /\ extract(d, candidate) # Missing
BY DEF compare, handle_missing

\* A verdict derived as VERIFIED has matches only, and a usable reference.
LEMMA DerivedFromMatches ==
  ASSUME PipelineInvariant, derive = "VERIFIED"
  PROVE  /\ \A e \in evidence : e.result = "MATCH"
         /\ ~check_for_errors /\ ~check_for_unavailable
<1>1. /\ ~check_for_errors /\ ~check_for_unavailable
      /\ "MISMATCH" \notin Results /\ "INCONCLUSIVE" \notin Results
  BY DEF derive
<1>2. \A e \in evidence : e.result \in Results BY DEF Results
<1> QED BY <1>1, <1>2 DEF PipelineInvariant, TypeOK

\* Streams and exit code are compared whatever the contract names.
LEMMA StreamsAgree ==
  ASSUME contract \in Contracts,
         \A d \in required_artifacts : compare(d) = "MATCH"
  PROVE  /\ oracle.exit = candidate.exit
         /\ SameBytes(oracle.stdout, candidate.stdout,
                      Lenient({"STDOUT"}, <<"process", "stream">>))
         /\ SameBytes(oracle.stderr, candidate.stderr,
                      Lenient({"STDERR"}, <<"process", "stream">>))
<1> DEFINE PS == <<"process", "stream">>
<1>1. ASSUME NEW t \in StreamTypes
      PROVE  \E d \in required_artifacts :
               d.type = t /\ (d.exact \/ Lenient({t}, PS))
  <2> DEFINE declared == {d \in contract.artifacts : d.type \in {t} /\ d.path = PS}
  <2>1. CASE \A d \in contract.artifacts : d.type # t
    <3> DEFINE a == [type |-> t, path |-> <<"process", "stream">>,
                     exact |-> TRUE, on_missing |-> "UNAVAILABLE"]
    <3>1. a \in required_artifacts BY <2>1, <1>1 DEF required_artifacts
    <3> QED BY <3>1
  <2>2. CASE \E d \in contract.artifacts : d.type = t
    <3>1. PICK d \in contract.artifacts : d.type = t BY <2>2
    <3>2. d \in ArtifactDefs BY ContractAssumption
    <3>3. d.path = PS
      BY <3>1, <3>2, <1>1 DEF ArtifactDefs, StreamTypes, FileTypes
    <3>4. d \in declared BY <3>1, <3>3
    <3>5. CASE Lenient({t}, PS)
      BY <3>1, <3>5 DEF required_artifacts
    <3>6. CASE ~Lenient({t}, PS)
      <4>1. PICK e \in declared : e.exact \/ e.type = "FIXED_RECORD"
        BY <3>4, <3>6 DEF Lenient
      <4>2. e.type = t /\ e \in required_artifacts BY DEF required_artifacts
      <4>3. t # "FIXED_RECORD" BY <1>1 DEF StreamTypes
      <4> QED BY <4>1, <4>2, <4>3
    <3> QED BY <3>5, <3>6
  <2> QED BY <2>1, <2>2
<1>2. oracle.exit = candidate.exit
  <2>1. PICK d \in required_artifacts : d.type = "EXIT_STATUS"
    BY <1>1 DEF StreamTypes
  <2> QED BY <2>1, MatchIsEqual DEF normalize, extract
<1>3. SameBytes(oracle.stdout, candidate.stdout,
                Lenient({"STDOUT"}, <<"process", "stream">>))
  <2>1. PICK d \in required_artifacts :
          d.type = "STDOUT" /\ (d.exact \/ Lenient({"STDOUT"}, PS))
    BY <1>1 DEF StreamTypes
  <2>2. normalize(d, oracle.stdout) = normalize(d, candidate.stdout)
    BY <2>1, MatchIsEqual DEF extract
  <2> QED BY <2>1, <2>2 DEF normalize, SameBytes
<1>4. SameBytes(oracle.stderr, candidate.stderr,
                Lenient({"STDERR"}, <<"process", "stream">>))
  <2>1. PICK d \in required_artifacts :
          d.type = "STDERR" /\ (d.exact \/ Lenient({"STDERR"}, PS))
    BY <1>1 DEF StreamTypes
  <2>2. normalize(d, oracle.stderr) = normalize(d, candidate.stderr)
    BY <2>1, MatchIsEqual DEF extract
  <2> QED BY <2>1, <2>2 DEF normalize, SameBytes
<1> QED BY <1>2, <1>3, <1>4

\* A file the contract names is compared under its declaration.
LEMMA DeclaredFileAgrees ==
  ASSUME contract \in Contracts, NEW n \in declared_paths,
         \A d \in required_artifacts : compare(d) = "MATCH"
  PROVE  SameFile(n)
<1>1. PICK d \in contract.artifacts :
        /\ d.type \in FileTypes /\ d.path = n
        /\ d.exact \/ d.type = "FIXED_RECORD" \/ Lenient(FileTypes, n)
  BY DEF declared_paths, Lenient
<1>2. compare(d) = "MATCH" BY DEF required_artifacts
<1>3. d.type \notin StreamTypes BY <1>1 DEF FileTypes, StreamTypes
<1>4. /\ extract(d, oracle) = oracle.files[n]
      /\ extract(d, candidate) = candidate.files[n]
  BY <1>1, <1>3 DEF extract, StreamTypes
<1>5. /\ normalize(d, oracle.files[n]) = normalize(d, candidate.files[n])
      /\ oracle.files[n] # Missing /\ candidate.files[n] # Missing
  BY <1>1, <1>2, <1>4, MatchIsEqual
<1>6. CASE d.exact \/ d.type = "FIXED_RECORD"
  BY <1>5, <1>6 DEF normalize, SameFile, SameBytes
<1>7. CASE ~d.exact /\ d.type = "TEXT_FILE"
  <2>1. Lenient(FileTypes, n) BY <1>1, <1>7
  <2>2. oracle.files[n][1] = candidate.files[n][1]
    BY <1>5, <1>7 DEF normalize
  <2> QED BY <1>5, <2>1, <2>2 DEF SameFile, SameBytes
<1> QED BY <1>1, <1>6, <1>7 DEF FileTypes

\* A file it does not name is compared too: its records, or its bytes.
LEMMA UndeclaredFileAgrees ==
  ASSUME NEW r, NEW s \in SUBSET KeyedFiles, NEW n \in undeclared,
         \A e \in run_declaration_driven(r, s) : e.result = "MATCH"
  PROVE  SameFile(n) \/ (n[1] \in KeyedFiles /\ SameRecords(n[1]))
<1>1. CASE n[1] \in records_compared(r, s)
  <2> DEFINE k == n[1]
             a == file_artifact(<<k, "records">>, "FAILED")
             same == oracle.files[<<k, "data">>][1]
                       = candidate.files[<<k, "image">>][1]
             e == Entry(a, IF same THEN "MATCH" ELSE "MISMATCH")
  <2>1. k \in KeyedFiles /\ k \in s
        /\ oracle.files[<<k, "data">>] # Missing
        /\ oracle.files[<<k, "image">>] = Missing
        /\ candidate.files[<<k, "data">>] = Missing
        /\ candidate.files[<<k, "image">>] # Missing
    BY <1>1 DEF records_compared
  <2>2. e \in compare_file_records(r, s)
    BY <1>1 DEF compare_file_records
  <2>3. e \in run_declaration_driven(r, s)
    BY <2>2 DEF run_declaration_driven
  <2>4. e.result = "MATCH" BY <2>3
  <2>5. same
    <3> HIDE DEF a, same
    <3> QED BY <2>4 DEF Entry
  <2> QED BY <2>1, <2>5 DEF SameRecords
<1>2. CASE n[1] \notin records_compared(r, s)
  <2> DEFINE emulated == emulated_file_image_names(r)
             handled == records_compared(r, s)
             a == file_artifact(n, "FAILED")
             e == IF n \in emulated
                  THEN Entry(file_artifact(n, "UNAVAILABLE"), "INCONCLUSIVE")
                  ELSE Entry(a, compare(a))
  <2>1. e \in compare_undeclared(emulated, handled)
    BY <1>2 DEF compare_undeclared
  <2>2. e \in run_declaration_driven(r, s)
    BY <2>1 DEF run_declaration_driven
  <2>3. e.result = "MATCH" BY <2>2
  <2>4. compare(a) = "MATCH"
    <3> HIDE DEF a, emulated
    <3> QED BY <2>3 DEF Entry
  <2>5. /\ a.type = "TEXT_FILE" /\ a.exact /\ a.path = n
    BY DEF file_artifact
  <2>6. /\ extract(a, oracle) = oracle.files[n]
        /\ extract(a, candidate) = candidate.files[n]
    BY <2>5 DEF extract
  <2>7. /\ oracle.files[n] = candidate.files[n]
        /\ oracle.files[n] # Missing /\ candidate.files[n] # Missing
    <3> HIDE DEF a
    <3> QED BY <2>4, <2>5, <2>6, MatchIsEqual DEF normalize, FileTypes
  <2> QED BY <2>7 DEF SameFile, SameBytes
<1> QED BY <1>1, <1>2

\* What the invariant says of a VERIFIED verdict.
LEMMA InvariantVerified == PipelineInvariant => VerifiedIsEquivalent
<1> SUFFICES ASSUME PipelineInvariant, verdict = "VERIFIED"
             PROVE  VerifiedIsEquivalent
  BY DEF VerifiedIsEquivalent
<1>1. /\ pc = "done" /\ validate /\ derive = "VERIFIED" /\ contract \in Contracts
      /\ oracle.status \in Ran /\ candidate.status \in Ran \ {"return_code"}
      /\ EvidenceIsComplete
  BY DEF PipelineInvariant, TypeOK
<1>2. /\ \A e \in evidence : e.result = "MATCH"
      /\ ~check_for_errors /\ ~check_for_unavailable
  BY <1>1, DerivedFromMatches
<1>3. /\ oracle.status \in {"normal", "return_code"}
      /\ candidate.status \in {"normal", "nonzero_exit"}
  BY <1>1, <1>2 DEF check_for_errors, check_for_unavailable, Ran
<1>4. /\ candidate.phase = "EXECUTE" /\ oracle.unchanged /\ candidate.unchanged
  BY <1>1 DEF validate
<1>5. PICK r \in BOOLEAN, s \in SUBSET KeyedFiles :
        \A e \in run_declaration_driven(r, s) : e.result = "MATCH"
  BY <1>1, <1>2 DEF EvidenceIsComplete
<1>6. \A d \in required_artifacts : compare(d) = "MATCH"
  <2> TAKE d \in required_artifacts
  <2>1. Entry(d, compare(d)) \in run_declaration_driven(r, s)
    BY DEF run_declaration_driven
  <2> QED BY <1>5, <2>1 DEF Entry
<1>7. \A n \in FileNames :
        SameFile(n) \/ (n[1] \in KeyedFiles /\ SameRecords(n[1]))
  <2> TAKE n \in FileNames
  <2>1. CASE n \in declared_paths BY <1>1, <1>6, <2>1, DeclaredFileAgrees
  <2>2. CASE n \in undeclared BY <1>5, <2>2, UndeclaredFileAgrees
  <2>3. CASE n \notin declared_paths /\ n \notin undeclared
    BY <2>3 DEF undeclared, SameFile
  <2> QED BY <2>1, <2>2, <2>3
<1>8. Equivalent BY <1>1, <1>6, <1>7, StreamsAgree DEF Equivalent
<1>9. contract.invariants => oracle.holds /\ candidate.holds
  <2> SUFFICES ASSUME contract.invariants PROVE oracle.holds /\ candidate.holds
    OBVIOUS
  <2> DEFINE both == oracle.holds /\ candidate.holds
             e == Entry(INVARIANTS, IF both THEN "MATCH" ELSE "MISMATCH")
  <2>1. e \in run_declaration_driven(r, s)
    BY DEF run_declaration_driven, compare_invariants
  <2>2. e.result = "MATCH" BY <1>5, <2>1
  <2>3. both
    <3> HIDE DEF both
    <3> QED BY <2>2 DEF Entry
  <2> QED BY <2>3
<1> QED BY <1>3, <1>4, <1>8, <1>9 DEF VerifiedIsEquivalent

-----------------------------------------------------------------------------
(* What FAILED stands for.                                                 *)

\* While the source is there, the evidence holds the comparisons of a pass that
\* could read all of it, and the effects found; FAILED is what it derives.
CauseInvariant ==
  /\ (source /\ pc \in {"effects", "validate", "done"}) =>
       evidence \subseteq run_declaration_driven(TRUE, KeyedFiles)
                            \cup {Entry(EFFECTS, "INCONCLUSIVE")}
  /\ verdict = "FAILED" => pc = "done" /\ derive = "FAILED"

\* What a pass compares depends on the executions and the contract only.
LEMMA PassStays ==
  ASSUME UNCHANGED <<contract, oracle, candidate>>
  PROVE  run_declaration_driven(TRUE, KeyedFiles)'
           = run_declaration_driven(TRUE, KeyedFiles)
BY DEF run_declaration_driven, compare_file_records, compare_undeclared,
       compare_invariants, compare, extract, required_artifacts, undeclared,
       declared_paths, emulated_file_image_names, records_compared

\* Every step keeps the cause.
LEMMA StepCause ==
  ASSUME PipelineInvariant, CauseInvariant, [Next]_vars
  PROVE  CauseInvariant'
<1>1. CASE StageOracle \/ RunOracle \/ BuildCandidate \/ ExecuteCandidate
  BY <1>1 DEF StageOracle, RunOracle, BuildCandidate, ExecuteCandidate,
     CauseInvariant
<1>2. CASE Compare
  <2>1. PICK organised \in Organised :
          /\ evidence' = run_declaration_driven(source, organised)
          /\ source' = (source /\ organised = KeyedFiles)
    BY <1>2 DEF Compare
  <2>2. source \in BOOLEAN BY DEF PipelineInvariant, TypeOK
  <2>3. source' => source = TRUE /\ organised = KeyedFiles
    BY <2>1, <2>2
  <2>4. source' => evidence' = run_declaration_driven(TRUE, KeyedFiles)'
    BY <1>2, <2>1, <2>3, PassStays DEF Compare
  <2>5. verdict' # "FAILED" BY <1>2 DEF Compare, CauseInvariant
  <2> QED BY <2>4, <2>5 DEF CauseInvariant
<1>3. CASE ScanEffects
  <2>1. run_declaration_driven(TRUE, KeyedFiles)'
          = run_declaration_driven(TRUE, KeyedFiles)
    BY <1>3, PassStays DEF ScanEffects
  <2>2. Entry(EFFECTS, "INCONCLUSIVE")' = Entry(EFFECTS, "INCONCLUSIVE")
    BY DEF Entry, EFFECTS
  <2>3. evidence' \subseteq evidence \cup {Entry(EFFECTS, "INCONCLUSIVE")}
    BY <1>3 DEF ScanEffects
  <2>4. source' = source /\ pc = "effects" /\ verdict' # "FAILED"
    BY <1>3 DEF ScanEffects, CauseInvariant
  <2> QED BY <2>1, <2>2, <2>3, <2>4 DEF CauseInvariant
<1>4. CASE DeriveVerdict
  <2>1. run_declaration_driven(TRUE, KeyedFiles)'
          = run_declaration_driven(TRUE, KeyedFiles)
    BY <1>4, PassStays DEF DeriveVerdict
  <2>2. derive' = derive
    BY <1>4 DEF DeriveVerdict, derive, check_for_errors, check_for_unavailable,
       Types, Results
  <2>3. verdict' = "FAILED" => derive = "FAILED"
    BY <1>4 DEF DeriveVerdict
  <2> QED BY <1>4, <2>1, <2>2, <2>3 DEF DeriveVerdict, CauseInvariant
<1>5. CASE SourceReplaced \/ UNCHANGED vars
  <2>1. UNCHANGED <<pc, program, contract, oracle, candidate, evidence, verdict>>
        /\ (source' => source)
    BY <1>5 DEF SourceReplaced, vars
  <2>2. run_declaration_driven(TRUE, KeyedFiles)'
          = run_declaration_driven(TRUE, KeyedFiles)
    BY <2>1, PassStays
  <2>3. derive' = derive
    BY <2>1 DEF derive, check_for_errors, check_for_unavailable, Types, Results
  <2> QED BY <2>1, <2>2, <2>3 DEF CauseInvariant
<1> QED BY <1>1, <1>2, <1>3, <1>4, <1>5 DEF Next

\* A declared file that is not the same and not missing where the contract
\* insists on it.
InsistedMissing ==
  \E d \in contract.artifacts :
    /\ d.type \in FileTypes /\ d.on_missing = "FAILED"
    /\ Missing \in {oracle.files[d.path], candidate.files[d.path]}

\* A required artifact that does not match is a difference of the two programs,
\* or a file the contract insists on.
LEMMA RequiredDiffers ==
  ASSUME contract \in Contracts, NEW d \in required_artifacts,
         compare(d) = "MISMATCH"
  PROVE  ~Equivalent \/ InsistedMissing
<1> DEFINE PS == <<"process", "stream">>
<1>1. d \in contract.artifacts \/
        (/\ d.type \in StreamTypes /\ d.exact /\ d.path = PS
         /\ \A e \in contract.artifacts : e.type # d.type)
  BY DEF required_artifacts
<1>2. /\ d.type \in StreamTypes => d.path = PS
      /\ d.type \in FileTypes => d.path \in FileNames
      /\ d.type \in StreamTypes \cup FileTypes
      /\ d.on_missing \in {"UNAVAILABLE", "FAILED"} \/ d.type \in StreamTypes
      /\ d.type \in FileTypes => d \in contract.artifacts
  <2>1. CASE d \in contract.artifacts
    <3>1. d \in ArtifactDefs BY <2>1, ContractAssumption
    <3> QED BY <2>1, <3>1 DEF ArtifactDefs, StreamTypes, FileTypes
  <2>2. CASE d \notin contract.artifacts
    BY <1>1, <2>2 DEF StreamTypes, FileTypes
  <2> QED BY <2>1, <2>2
<1>3. ASSUME NEW types, d.type \in types, types \in {{"STDOUT"}, {"STDERR"}, FileTypes},
             types = FileTypes \/ d.type \in StreamTypes,
             Lenient(types, d.path)
      PROVE  ~d.exact /\ d.type # "FIXED_RECORD"
  <2>1. CASE d \in contract.artifacts BY <1>3, <2>1 DEF Lenient
  <2>2. CASE d \notin contract.artifacts
    <3>1. /\ d.type \in StreamTypes
          /\ \A e \in contract.artifacts : e.type # d.type
      BY <1>1, <2>2
    <3>2. types = {d.type} BY <1>3, <3>1 DEF StreamTypes, FileTypes
    <3> QED BY <1>3, <3>1, <3>2 DEF Lenient
  <2> QED BY <2>1, <2>2
<1>4. CASE d.type = "EXIT_STATUS"
  <2>1. oracle.exit # candidate.exit
    BY <1>4 DEF compare, normalize, extract, FileTypes
  <2> QED BY <2>1 DEF Equivalent
<1>5. CASE d.type = "STDOUT"
  <2>1. normalize(d, oracle.stdout) # normalize(d, candidate.stdout)
    BY <1>5 DEF compare, extract, FileTypes
  <2>2. Lenient({"STDOUT"}, PS) => ~d.exact
    BY <1>2, <1>3, <1>5 DEF StreamTypes
  <2>3. ~SameBytes(oracle.stdout, candidate.stdout, Lenient({"STDOUT"}, PS))
    BY <1>5, <2>1, <2>2 DEF SameBytes, normalize
  <2> QED BY <2>3 DEF Equivalent
<1>6. CASE d.type = "STDERR"
  <2>1. normalize(d, oracle.stderr) # normalize(d, candidate.stderr)
    BY <1>6 DEF compare, extract, FileTypes
  <2>2. Lenient({"STDERR"}, PS) => ~d.exact
    BY <1>2, <1>3, <1>6 DEF StreamTypes
  <2>3. ~SameBytes(oracle.stderr, candidate.stderr, Lenient({"STDERR"}, PS))
    BY <1>6, <2>1, <2>2 DEF SameBytes, normalize
  <2> QED BY <2>3 DEF Equivalent
<1>7. CASE d.type \in FileTypes
  <2> DEFINE n == d.path
  <2>1. d \in contract.artifacts /\ n \in FileNames BY <1>2, <1>7
  <2>2. extract(d, oracle) = oracle.files[n]
        /\ extract(d, candidate) = candidate.files[n]
    BY <1>7 DEF extract, FileTypes
  <2>3. CASE oracle.files[n] = Missing \/ candidate.files[n] = Missing
    <3>1. handle_missing(d) = "MISMATCH"
      BY <1>7, <2>2, <2>3 DEF compare
    <3>2. d.on_missing = "FAILED"
      BY <1>2, <1>7, <3>1 DEF handle_missing, FileTypes, StreamTypes
    <3> QED BY <1>7, <2>1, <2>3, <3>2 DEF InsistedMissing
  <2>4. CASE oracle.files[n] # Missing /\ candidate.files[n] # Missing
    <3>1. normalize(d, oracle.files[n]) # normalize(d, candidate.files[n])
      BY <2>2, <2>4 DEF compare
    <3>2. Lenient(FileTypes, n) => ~d.exact /\ d.type # "FIXED_RECORD"
      BY <1>3, <1>7
    <3>3. ~SameFile(n)
      BY <1>7, <2>4, <3>1, <3>2 DEF SameFile, SameBytes, normalize, FileTypes
    <3>4. ~SameRecords(n[1])
      <4>1. n = <<n[1], "data">> \/ n = <<n[1], "image">>
        BY <2>1 DEF FileNames
      <4> QED BY <2>4, <4>1 DEF SameRecords
    <3> QED BY <2>1, <3>3, <3>4 DEF Equivalent
  <2> QED BY <2>3, <2>4
<1> QED BY <1>2, <1>4, <1>5, <1>6, <1>7 DEF StreamTypes

\* Records that were compared and differ are a difference of the two programs.
LEMMA RecordsDiffer ==
  ASSUME NEW e \in compare_file_records(TRUE, KeyedFiles), e.result = "MISMATCH"
  PROVE  ~Equivalent
<1>1. PICK k \in records_compared(TRUE, KeyedFiles) :
        e = Entry(file_artifact(<<k, "records">>, "FAILED"),
                  IF oracle.files[<<k, "data">>][1]
                       = candidate.files[<<k, "image">>][1]
                  THEN "MATCH" ELSE "MISMATCH")
  BY Zenon DEF compare_file_records
<1> DEFINE a == file_artifact(<<k, "records">>, "FAILED")
           same == oracle.files[<<k, "data">>][1]
                     = candidate.files[<<k, "image">>][1]
<1>2. ~same
  <2>1. e = Entry(a, IF same THEN "MATCH" ELSE "MISMATCH") BY <1>1
  <2> HIDE DEF a, same
  <2> QED BY <2>1 DEF Entry
<1>3. ~SameRecords(k) BY <1>2 DEF SameRecords
<1>4. /\ <<k, "data">> \in FileNames
      /\ oracle.files[<<k, "data">>] # Missing
      /\ candidate.files[<<k, "data">>] = Missing
  BY <1>1 DEF records_compared, FileNames
<1>5. ~SameFile(<<k, "data">>) BY <1>4 DEF SameFile
<1>6. <<k, "data">>[1] = k OBVIOUS
<1> QED BY <1>3, <1>4, <1>5, <1>6 DEF Equivalent

\* So is an undeclared file that does not match.
LEMMA UndeclaredDiffers ==
  ASSUME NEW handled,
         NEW e \in compare_undeclared(emulated_file_image_names(TRUE), handled),
         e.result = "MISMATCH"
  PROVE  ~Equivalent
<1> DEFINE emulated == emulated_file_image_names(TRUE)
<1>1. PICK n \in undeclared :
        e = IF n \in emulated
            THEN Entry(file_artifact(n, "UNAVAILABLE"), "INCONCLUSIVE")
            ELSE Entry(file_artifact(n, "FAILED"),
                       compare(file_artifact(n, "FAILED")))
  BY Zenon DEF compare_undeclared
<1> DEFINE a == file_artifact(n, "FAILED")
<1>2. n \notin emulated /\ compare(a) = "MISMATCH"
  <2> HIDE DEF a, emulated
  <2>1. e = IF n \in emulated
            THEN Entry(file_artifact(n, "UNAVAILABLE"), "INCONCLUSIVE")
            ELSE Entry(a, compare(a))
    BY <1>1 DEF a
  <2> QED BY <2>1 DEF Entry
<1>3. n[1] \notin KeyedFiles BY <1>2 DEF emulated_file_image_names
<1>4. /\ n \in FileNames /\ n \notin declared_paths
      /\ oracle.files[n] # Missing \/ candidate.files[n] # Missing
  BY DEF undeclared
<1>5. ~Lenient(FileTypes, n) BY <1>4 DEF Lenient, declared_paths
<1>6. /\ a.type = "TEXT_FILE" /\ a.exact /\ a.path = n
  BY DEF file_artifact
<1>7. /\ extract(a, oracle) = oracle.files[n]
      /\ extract(a, candidate) = candidate.files[n]
  BY <1>6 DEF extract
<1>8. \/ oracle.files[n] = Missing \/ candidate.files[n] = Missing
      \/ oracle.files[n] # candidate.files[n]
  <2> HIDE DEF a
  <2> QED BY <1>2, <1>6, <1>7 DEF compare, normalize
<1>9. ~SameFile(n) BY <1>4, <1>5, <1>8 DEF SameFile, SameBytes
<1> QED BY <1>3, <1>4, <1>9 DEF Equivalent

\* What the two invariants say of a FAILED verdict.
LEMMA InvariantFailed ==
  PipelineInvariant /\ CauseInvariant => FailedIsJustified
<1> SUFFICES ASSUME PipelineInvariant, CauseInvariant, verdict = "FAILED", source
             PROVE  /\ oracle.status \in {"normal", "return_code"}
                    /\ \/ ~Equivalent
                       \/ contract.invariants /\ ~(oracle.holds /\ candidate.holds)
                       \/ InsistedMissing
  BY DEF FailedIsJustified, InsistedMissing
<1>1. /\ pc = "done" /\ derive = "FAILED" /\ contract \in Contracts
      /\ oracle.status \in Ran
  BY DEF CauseInvariant, PipelineInvariant, TypeOK
<1>2. ~check_for_errors /\ ~check_for_unavailable /\ "MISMATCH" \in Results
  BY <1>1 DEF derive
<1>3. oracle.status \in {"normal", "return_code"}
  BY <1>1, <1>2 DEF check_for_errors, check_for_unavailable, Ran
<1>4. PICK e \in evidence : e.result = "MISMATCH" BY <1>2 DEF Results
<1>5. e \in run_declaration_driven(TRUE, KeyedFiles)
  <2>1. e # Entry(EFFECTS, "INCONCLUSIVE") BY <1>4 DEF Entry
  <2> QED BY <1>1, <2>1 DEF CauseInvariant
<1>6. CASE e \in {Entry(d, compare(d)) : d \in required_artifacts}
  <2>1. PICK d \in required_artifacts : e = Entry(d, compare(d)) BY <1>6
  <2>2. compare(d) = "MISMATCH" BY <1>4, <2>1 DEF Entry
  <2> QED BY <1>1, <1>3, <2>2, RequiredDiffers
<1>7. CASE e \in compare_file_records(TRUE, KeyedFiles)
  BY <1>3, <1>4, <1>7, RecordsDiffer
<1>8. CASE e \in compare_undeclared(emulated_file_image_names(TRUE),
                                    records_compared(TRUE, KeyedFiles))
  BY <1>3, <1>4, <1>8, UndeclaredDiffers
<1>9. CASE e \in compare_invariants
  <2> DEFINE both == oracle.holds /\ candidate.holds
  <2>1. /\ contract.invariants
        /\ e = Entry(INVARIANTS, IF both THEN "MATCH" ELSE "MISMATCH")
    BY <1>9 DEF compare_invariants
  <2>2. ~both
    <3> HIDE DEF both
    <3> QED BY <1>4, <2>1 DEF Entry
  <2> QED BY <1>3, <2>1, <2>2
<1> QED BY <1>5, <1>6, <1>7, <1>8, <1>9 DEF run_declaration_driven

-----------------------------------------------------------------------------
(* Theorems.                                                               *)

\* The invariant holds in every state of every validation.
LEMMA InvariantHolds == Spec => []PipelineInvariant
<1>1. Init => PipelineInvariant BY InitInvariant
<1>2. PipelineInvariant /\ [Next]_vars => PipelineInvariant' BY StepInvariant
<1> QED BY <1>1, <1>2, PTL DEF Spec

\* Observations, comparison results and verdicts stay in their vocabularies
\* through every execution, build failure and deletion of the source.
THEOREM TypeCorrect == Spec => []TypeOK
<1>1. PipelineInvariant => TypeOK BY DEF PipelineInvariant
<1> QED BY <1>1, InvariantHolds, PTL

\* VERIFIED is derived only of a candidate that agrees with a usable reference
\* on streams, exit code and every file, whatever the contract declares and
\* wherever in the run the source disappears.
THEOREM VerifiedIsSound == Spec => []VerifiedIsEquivalent
<1> QED BY InvariantVerified, InvariantHolds, PTL

\* FAILED has a cause: with a usable reference, the candidate was not built,
\* differs, breaks a business rule or lacks a file the contract insists on,
\* for any contract that declares any path any number of times (derive,
\* _run_declaration_driven).
THEOREM FailedIsSound == Spec => []FailedIsJustified
<1>1. Init => CauseInvariant BY DEF Init, CauseInvariant
<1>2. PipelineInvariant /\ CauseInvariant /\ [Next]_vars => CauseInvariant'
  BY StepCause
<1> QED BY <1>1, <1>2, InvariantFailed, InvariantHolds, PTL DEF Spec

\* The effects of a source that is still there are in the evidence once it was
\* scanned.
EffectsRecorded ==
  /\ (source /\ pc \in {"validate", "done"} /\ program.effects) =>
       EFFECT_TYPE \in Types
  /\ verdict = "VERIFIED" => pc = "done" /\ Types \subseteq SUPPORTED_TYPES

\* A program with effects no comparator observes is never VERIFIED while its
\* source is there, at whatever point uploads delete others
\* (_unobserved_effect_evidence).
THEOREM EffectsAreSound == Spec => []EffectsAreNeverCertified
<1>1. Init => EffectsRecorded BY DEF Init, EffectsRecorded
<1>2. EffectsRecorded /\ [Next]_vars => EffectsRecorded'
  <2> SUFFICES ASSUME EffectsRecorded, [Next]_vars PROVE EffectsRecorded'
    OBVIOUS
  <2>1. CASE StageOracle \/ RunOracle \/ BuildCandidate \/ ExecuteCandidate
    BY <2>1 DEF StageOracle, RunOracle, BuildCandidate, ExecuteCandidate,
       EffectsRecorded
  <2>2. CASE Compare
    <3>1. pc' = "effects" /\ verdict' = verdict /\ pc = "compare"
      BY <2>2 DEF Compare
    <3> QED BY <3>1 DEF EffectsRecorded
  <2>3. CASE ScanEffects
    <3>1. source /\ program.effects => Entry(EFFECTS, "INCONCLUSIVE") \in evidence'
      BY <2>3 DEF ScanEffects
    <3>2. Entry(EFFECTS, "INCONCLUSIVE").artifact.type = EFFECT_TYPE
      BY DEF Entry, EFFECTS
    <3>3. source /\ program.effects => EFFECT_TYPE \in Types'
      BY <3>1, <3>2 DEF Types
    <3>4. /\ source' = source /\ program' = program
          /\ verdict' = verdict /\ pc = "effects"
      BY <2>3 DEF ScanEffects
    <3> QED BY <3>3, <3>4 DEF EffectsRecorded
  <2>4. CASE DeriveVerdict
    <3>1. verdict' = "VERIFIED" => Types \subseteq SUPPORTED_TYPES
      BY <2>4 DEF DeriveVerdict, derive
    <3>2. Types' = Types BY <2>4 DEF DeriveVerdict, Types
    <3> QED BY <2>4, <3>1, <3>2 DEF DeriveVerdict, EffectsRecorded
  <2>5. CASE SourceReplaced
    <3>1. Types' = Types BY <2>5 DEF SourceReplaced, Types
    <3> QED BY <2>5, <3>1 DEF SourceReplaced, EffectsRecorded
  <2>6. CASE UNCHANGED vars
    BY <2>6 DEF vars, EffectsRecorded, Types
  <2> QED BY <2>1, <2>2, <2>3, <2>4, <2>5, <2>6 DEF Next
<1>3. EffectsRecorded => EffectsAreNeverCertified
  BY DEF EffectsRecorded, EffectsAreNeverCertified, EFFECT_TYPE,
     SUPPORTED_TYPES, StreamTypes, FileTypes
<1> QED BY <1>1, <1>2, <1>3, PTL DEF Spec

-----------------------------------------------------------------------------
(* The containers.                                                         *)

Identities == Images \cup {NoImage}
BoxStates == {"none", "compile", "run", "ended"}
Endings == {"none", "docker", "compiler", "watchdog", "itself", "libcob", "kernel"}
Marks == {"compiled", "compile_timeout", "run_timeout"}
Boxes == [state : BoxStates, image : Identities, by : Endings, exit : Int,
          wrote : {"part", "whole"}, marks : SUBSET Marks]
Outcomes == {"none", "infrastructure", "error", "nonzero_exit", "failed", "timeout",
             "normal", "return_code", "built"}
Reports == [how : Outcomes, exit : Int, image : Identities,
            seen : {"nothing", "no source", "part", "whole"}]
Clients == [how : {"none", "refused", "lost", "raised", "exit", "timeout"}, code : Int]

\* The types of what the adapters and containers keep (ContainerRun,
\* ImageObservation, the adapters' fields).
ContainersTypeOK ==
  /\ kind \in {"spring", "java"}
  /\ tag \in [Roles -> Identities]
  /\ adapter \in [build : Identities, runtime : Identities, available : BOOLEAN]
  /\ lane \in Lanes \cup {"none", "done"}
  /\ step \in {"construct", "resolve", "compiler", "stage", "wait", "cleanup",
               "collect", "done"}
  /\ ref \in Identities /\ client \in Clients
  /\ box \in [Lanes -> Boxes] /\ result \in [Lanes -> Reports]

Before == {"resolve", "compiler", "stage"}
During == {"wait", "cleanup", "collect"}

\* Lanes that have not returned, in the order they run in.
Ahead(l) == IF l = "none" THEN Lanes
            ELSE IF l = "oracle" THEN {"build", "exec"}
            ELSE IF l = "build" THEN {"exec"} ELSE {}

\* Lanes ahead have neither container nor result; the lane at work has no result
\* and, until docker run, no container.
LanesInOrder ==
  /\ (step = "construct") <=> (lane = "none")
  /\ (step = "done") <=> (lane = "done")
  /\ \A l \in Ahead(lane) : box[l].state = "none" /\ result[l].how = "none"
  /\ lane \in Lanes => result[lane].how = "none"
  /\ lane \in Lanes /\ step \in Before => box[lane].state = "none"

\* An available candidate lane was constructed on images that passed its checks.
AdapterVerified ==
  adapter.available => IF kind = "spring"
                       THEN SpringAvailable(adapter.build, adapter.runtime)
                       ELSE JavaAvailable(adapter.runtime)

\* The reference the lane runs next has passed the lane's checks so far.
RefVerified ==
  /\ step = "compiler" => lane = "oracle" /\ (Pin # NoImage => ref = Pin)
  /\ step = "stage" => Verified(lane, ref)
  /\ step \in During /\ box[lane].state # "none" => box[lane].image = ref

ImagesInvariant ==
  /\ ContainersTypeOK /\ LanesInOrder /\ AdapterVerified /\ RefVerified
  /\ VerifiedImagesRan

-----------------------------------------------------------------------------
(* What the lanes return.                                                  *)

\* The status of what never ended is an integer (exit_code None).
LEMMA NoStatusIsInt == NoStatus \in Int
BY DEF NoStatus

\* The report a lane ends with has the type of one (ContainerRun).
LEMMA ReportType ==
  ASSUME NEW how \in Outcomes, NEW exit \in Int, NEW image \in Identities,
         NEW seen \in {"nothing", "no source", "part", "whole"}
  PROVE  /\ Report(how, exit, image, seen) \in Reports
         /\ Report(how, exit, image, seen).how = how
         /\ Report(how, exit, image, seen).image = image
BY DEF Report, Reports

\* Nothing is a client that never ran (the lane's local variables).
LEMMA NoClientType == NoClient \in Clients
BY NoStatusIsInt DEF NoClient, Clients

\* A container that did not start has the type of one.
LEMMA NoBoxType == NoBox \in Boxes /\ NoBox.state = "none" /\ NoBox.image = NoImage
BY NoStatusIsInt DEF NoBox, Boxes, Identities, BoxStates, Endings, Marks

\* A lane that could not do its work returns a report nothing compares.
LEMMA UnableReturns ==
  ASSUME NEW image \in Identities, Unable(image)
  PROVE  \E r \in Reports : Return(r) /\ r.image = image /\ r.how \in {"infrastructure", "error"}
<1>1. ASSUME NEW how \in {"infrastructure", "error"},
             Return(Report(how, NoStatus, image, "nothing"))
      PROVE  \E r \in Reports : Return(r) /\ r.image = image /\ r.how \in {"infrastructure", "error"}
  <2>1. how \in Outcomes
    BY DEF Outcomes
  <2>2. /\ Report(how, NoStatus, image, "nothing") \in Reports
        /\ Report(how, NoStatus, image, "nothing").how = how
        /\ Report(how, NoStatus, image, "nothing").image = image
    BY <2>1, ReportType, NoStatusIsInt
  <2> QED
    BY <1>1, <2>2
<1>2. CASE lane = "build"
  <2>1. Return(Report("infrastructure", NoStatus, image, "nothing"))
    BY <1>2 DEF Unable
  <2> QED
    BY <1>1, <2>1
<1>3. CASE lane # "build"
  <2>1. Return(Report("error", NoStatus, image, "nothing"))
    BY <1>3 DEF Unable
  <2> QED
    BY <1>1, <2>1
<1> QED
  BY <1>2, <1>3

\* Returning a result keeps the invariant when the lane's container, if there
\* is one, ran the image the result names.
LEMMA ReturnKeeps ==
  ASSUME ImagesInvariant, lane \in Lanes, NEW r \in Reports, Return(r), r.how # "none",
         box[lane].state # "none" => r.image = box[lane].image,
         UNCHANGED <<kind, tag, adapter, box>>
  PROVE  ImagesInvariant'
<1>1. /\ result' = [result EXCEPT ![lane] = r]
      /\ lane' \in {"build", "exec", "done"} /\ lane' # lane
      /\ lane = "oracle" => lane' = "build"
      /\ lane = "build" => lane' \in {"exec", "done"}
      /\ lane = "exec" => lane' = "done"
      /\ step' = IF lane' = "done" THEN "done" ELSE "resolve"
      /\ client' = NoClient /\ ref' = NoImage
  BY DEF Return, NextLane, Lanes
<1>2. ContainersTypeOK'
  BY <1>1, NoClientType DEF ImagesInvariant, ContainersTypeOK, Lanes, Identities
<1>3. LanesInOrder'
  <2>1. \A l \in Lanes \ {lane} : result'[l] = result[l]
    BY <1>1 DEF ImagesInvariant, ContainersTypeOK
  <2>2. Ahead(lane') \subseteq Ahead(lane) \ {lane} /\ Ahead(lane) \subseteq Lanes
    BY <1>1 DEF Ahead, Lanes
  <2>3. lane' # "done" => lane' \in Ahead(lane)
    BY <1>1 DEF Ahead, Lanes
  <2> QED
    BY <1>1, <2>1, <2>2, <2>3 DEF ImagesInvariant, LanesInOrder, Lanes, Before
<1>4. AdapterVerified'
  BY DEF ImagesInvariant, AdapterVerified, SpringAvailable, JavaAvailable, verify_image_identity
<1>5. RefVerified'
  BY <1>1 DEF RefVerified, During
<1>6. VerifiedImagesRan'
  <2> SUFFICES ASSUME NEW l \in Lanes, box[l].state # "none"
               PROVE  /\ Verified(l, box[l].image)'
                      /\ Comparable(l)' => result'[l].image = box[l].image
    BY DEF VerifiedImagesRan
  <2>1. Verified(l, box[l].image)'
    BY DEF ImagesInvariant, VerifiedImagesRan, Verified
  <2>2. CASE l = lane
    BY <1>1, <2>1, <2>2 DEF ImagesInvariant, ContainersTypeOK
  <2>3. CASE l # lane
    <3>1. result'[l] = result[l]
      BY <1>1, <2>3 DEF ImagesInvariant, ContainersTypeOK
    <3>2. Comparable(l)' => Comparable(l)
      BY <3>1 DEF Comparable
    <3> QED
      BY <2>1, <3>1, <3>2 DEF ImagesInvariant, VerifiedImagesRan
  <2> QED
    BY <2>2, <2>3
<1> QED
  BY <1>2, <1>3, <1>4, <1>5, <1>6 DEF ImagesInvariant

\* A lane that gives up reports the image it was about to run, or the one its
\* container ran.
LEMMA UnableKeeps ==
  ASSUME ImagesInvariant, lane \in Lanes, NEW image \in Identities, Unable(image),
         box[lane].state # "none" => image = box[lane].image,
         UNCHANGED <<kind, tag, adapter, box>>
  PROVE  ImagesInvariant'
<1>1. PICK r \in Reports : Return(r) /\ r.image = image /\ r.how \in {"infrastructure", "error"}
  BY UnableReturns
<1> QED
  BY <1>1, ReturnKeeps

\* A lane that did its work reports the image it ran.
LEMMA ReportKeeps ==
  ASSUME ImagesInvariant, lane \in Lanes, ref \in Identities,
         NEW how \in Outcomes \ {"none"}, NEW exit \in Int,
         NEW seen \in {"nothing", "no source", "part", "whole"},
         Return(Report(how, exit, ref, seen)),
         box[lane].state # "none" => ref = box[lane].image,
         UNCHANGED <<kind, tag, adapter, box>>
  PROVE  ImagesInvariant'
<1>1. /\ Report(how, exit, ref, seen) \in Reports /\ Report(how, exit, ref, seen).how = how
      /\ Report(how, exit, ref, seen).image = ref
  BY DEF Report, Reports
<1> QED
  BY <1>1, ReturnKeeps

\* No container starts, and none changes its image.
BoxesKept ==
  /\ box' \in [Lanes -> Boxes]
  /\ \A l \in Lanes : /\ box'[l].image = box[l].image
                      /\ (box'[l].state = "none") <=> (box[l].state = "none")

\* What containers do keeps the invariant as long as their images stay.
LEMMA BoxKeeps ==
  ASSUME ImagesInvariant, BoxesKept, step' = step \/ (step \in During /\ step' \in During),
         client' \in Clients, tag' \in [Roles -> Identities],
         UNCHANGED <<kind, adapter, lane, ref, result>>
  PROVE  ImagesInvariant'
<1>1. ContainersTypeOK'
  BY DEF BoxesKept, ImagesInvariant, ContainersTypeOK, During
<1>2. LanesInOrder'
  <2>1. Ahead(lane) \subseteq Lanes
    BY DEF Ahead, Lanes
  <2> QED
    BY <2>1 DEF BoxesKept, ImagesInvariant, LanesInOrder, Before, During
<1>3. AdapterVerified'
  BY DEF ImagesInvariant, AdapterVerified, SpringAvailable, JavaAvailable, verify_image_identity
<1>4. RefVerified'
  <2>1. step \in During => lane \in Lanes
    BY DEF ImagesInvariant, ContainersTypeOK, LanesInOrder, During
  <2>2. CASE step' = step /\ step \notin During
    BY <2>2 DEF ImagesInvariant, RefVerified, Verified, During
  <2>3. CASE step \in During /\ step' \in During
    BY <2>1, <2>3 DEF BoxesKept, ImagesInvariant, RefVerified, During
  <2> QED
    BY <2>2, <2>3
<1>5. VerifiedImagesRan'
  <2> SUFFICES ASSUME NEW l \in Lanes, box'[l].state # "none"
               PROVE  /\ Verified(l, box[l].image)'
                      /\ Comparable(l)' => result'[l].image = box'[l].image
    BY DEF VerifiedImagesRan
  <2>1. box'[l].image = box[l].image /\ box[l].state # "none"
    BY DEF BoxesKept
  <2> QED
    BY <2>1 DEF ImagesInvariant, VerifiedImagesRan, Verified, Comparable
<1> QED
  BY <1>1, <1>2, <1>3, <1>4, <1>5 DEF ImagesInvariant

\* A verified reference may be staged.
LEMMA StageKeeps ==
  ASSUME ImagesInvariant, lane \in Lanes, step \in {"resolve", "compiler"},
         NEW image \in Identities, Verified(lane, image), ref' = image, step' = "stage",
         UNCHANGED <<kind, tag, adapter, lane, client, box, result>>
  PROVE  ImagesInvariant'
<1>1. ContainersTypeOK'
  BY DEF ImagesInvariant, ContainersTypeOK
<1>2. LanesInOrder'
  BY DEF ImagesInvariant, LanesInOrder, Before, Lanes
<1>3. AdapterVerified'
  BY DEF ImagesInvariant, AdapterVerified, SpringAvailable, JavaAvailable, verify_image_identity
<1>4. RefVerified'
  BY DEF RefVerified, Verified, During
<1>5. VerifiedImagesRan'
  BY DEF ImagesInvariant, VerifiedImagesRan, Verified, Comparable
<1> QED
  BY <1>1, <1>2, <1>3, <1>4, <1>5 DEF ImagesInvariant

-----------------------------------------------------------------------------
(* The steps.                                                              *)

\* No lane has run at first.
LEMMA ImagesInit == ASSUME ContainersInit PROVE ImagesInvariant
<1>1. FirstTag \in Identities /\ NoImage \in Identities
  BY ContainersAssumption DEF Identities
<1>2. NoResult \in Reports /\ NoResult.how = "none"
  BY NoStatusIsInt DEF NoResult, Reports, Outcomes, Identities
<1>3. ContainersTypeOK
  BY <1>1, <1>2, NoBoxType, NoClientType DEF ContainersInit, ContainersTypeOK
<1>4. LanesInOrder
  BY <1>2, NoBoxType DEF ContainersInit, LanesInOrder, Ahead, Lanes
<1>5. AdapterVerified /\ RefVerified
  BY DEF ContainersInit, AdapterVerified, RefVerified, During
<1>6. VerifiedImagesRan
  BY NoBoxType DEF ContainersInit, VerifiedImagesRan
<1> QED
  BY <1>3, <1>4, <1>5, <1>6 DEF ImagesInvariant

\* The constructors check the images before any lane runs.
LEMMA ConstructKeeps == ASSUME ImagesInvariant, Construct PROVE ImagesInvariant'
<1>1. PICK b \in Observed("build"), r \in Observed("runtime") :
        adapter' = [build |-> b, runtime |-> r,
                    available |->
                      IF kind = "spring" THEN SpringAvailable(b, r) ELSE JavaAvailable(r)]
  BY DEF Construct
<1>2. b \in Identities /\ r \in Identities
  BY DEF ImagesInvariant, ContainersTypeOK, Observed, Roles, Identities
<1>3. /\ SpringAvailable(b, r) \in BOOLEAN /\ JavaAvailable(r) \in BOOLEAN
  BY DEF SpringAvailable, JavaAvailable, verify_image_identity
<1>4. ContainersTypeOK'
  <2>1. adapter' \in [build : Identities, runtime : Identities, available : BOOLEAN]
    BY <1>1, <1>2, <1>3
  <2> QED
    BY <2>1 DEF Construct, ImagesInvariant, ContainersTypeOK, Lanes
<1>5. LanesInOrder'
  BY DEF Construct, ImagesInvariant, LanesInOrder, Ahead, Lanes, Before
<1>6. AdapterVerified'
  BY <1>1 DEF Construct, AdapterVerified, SpringAvailable, JavaAvailable, verify_image_identity
<1>7. RefVerified'
  BY DEF Construct, RefVerified, During
<1>8. VerifiedImagesRan'
  BY DEF Construct, ImagesInvariant, LanesInOrder, Ahead, VerifiedImagesRan
<1> QED
  BY <1>4, <1>5, <1>6, <1>7, <1>8 DEF ImagesInvariant

\* The oracle's image is held against the pin before its compiler is asked.
LEMMA ResolveOracleKeeps == ASSUME ImagesInvariant, ResolveOracle PROVE ImagesInvariant'
<1>1. PICK id \in Observed("oracle") :
        IF id = NoImage \/ (Pin # NoImage /\ Pin # id)
        THEN Unable(id)
        ELSE ref' = id /\ step' = "compiler" /\ UNCHANGED <<lane, client, result>>
  BY DEF ResolveOracle
<1>2. id \in Identities
  BY DEF ImagesInvariant, ContainersTypeOK, Observed, Roles, Identities
<1>3. /\ lane = "oracle" /\ step = "resolve" /\ box[lane].state = "none"
      /\ UNCHANGED <<kind, tag, adapter, box>>
  BY DEF ResolveOracle, ImagesInvariant, LanesInOrder, Lanes, Before
<1>4. CASE id = NoImage \/ (Pin # NoImage /\ Pin # id)
  BY <1>1, <1>2, <1>3, <1>4, UnableKeeps DEF Lanes
<1>5. CASE ~(id = NoImage \/ (Pin # NoImage /\ Pin # id))
  <2>1. ref' = id /\ step' = "compiler" /\ UNCHANGED <<lane, client, result>>
    BY <1>1, <1>5
  <2>2. ContainersTypeOK'
    BY <1>2, <1>3, <2>1 DEF ImagesInvariant, ContainersTypeOK
  <2>3. LanesInOrder'
    BY <1>3, <2>1 DEF ImagesInvariant, LanesInOrder, Before
  <2>4. AdapterVerified'
    BY <1>3 DEF ImagesInvariant, AdapterVerified, SpringAvailable, JavaAvailable, verify_image_identity
  <2>5. RefVerified'
    BY <1>3, <1>5, <2>1 DEF RefVerified, During
  <2>6. VerifiedImagesRan'
    BY <1>3, <2>1 DEF ImagesInvariant, VerifiedImagesRan, Verified, Comparable
  <2> QED
    BY <2>2, <2>3, <2>4, <2>5, <2>6 DEF ImagesInvariant
<1> QED
  BY <1>4, <1>5

\* Only an image of the declared compiler is staged.
LEMMA CheckCompilerKeeps == ASSUME ImagesInvariant, CheckCompiler PROVE ImagesInvariant'
<1>1. /\ lane = "oracle" /\ step = "compiler" /\ box[lane].state = "none"
      /\ Pin # NoImage => ref = Pin
      /\ ref \in Identities /\ UNCHANGED <<kind, tag, adapter, box>>
  BY DEF CheckCompiler, ImagesInvariant, ContainersTypeOK, RefVerified, LanesInOrder, Lanes, Before
<1>2. \/ Version[ref] = DeclaredVersion /\ step' = "stage" /\ UNCHANGED <<lane, ref, client, result>>
      \/ Unable(ref)
  BY DEF CheckCompiler
<1>3. CASE Unable(ref)
  BY <1>1, <1>3, UnableKeeps DEF Lanes
<1>4. CASE Version[ref] = DeclaredVersion /\ step' = "stage" /\ UNCHANGED <<lane, ref, client, result>>
  <2>1. Verified(lane, ref)
    BY <1>1, <1>4 DEF Verified
  <2> QED
    BY <1>1, <1>4, <2>1, StageKeeps DEF Lanes
<1> QED
  BY <1>2, <1>3, <1>4

\* The Spring Boot adapter's fresh probe finds the verified identity or refuses.
LEMMA ResolveSpringKeeps == ASSUME ImagesInvariant, ResolveSpring PROVE ImagesInvariant'
<1> DEFINE role == IF lane = "build" THEN "build" ELSE "runtime"
<1>1. PICK id \in Observed(role) :
        IF ~adapter.available \/ run_ref(role, id, adapter[role]) = NoImage
        THEN Unable(NoImage) ELSE Stage(run_ref(role, id, adapter[role]))
  BY DEF ResolveSpring
<1>2. /\ kind = "spring" /\ lane \in {"build", "exec"} /\ step = "resolve"
      /\ box[lane].state = "none" /\ UNCHANGED <<kind, tag, adapter, box>>
  BY DEF ResolveSpring, ImagesInvariant, LanesInOrder, Lanes, Before
<1>3. CASE ~adapter.available \/ run_ref(role, id, adapter[role]) = NoImage
  <2>1. NoImage \in Identities /\ Unable(NoImage)
    BY <1>1, <1>3 DEF Identities
  <2> QED
    BY <1>2, <2>1, UnableKeeps DEF Lanes
<1>4. CASE adapter.available /\ run_ref(role, id, adapter[role]) # NoImage
  <2>1. run_ref(role, id, adapter[role]) = adapter[role]
    BY <1>4 DEF run_ref
  <2>2. Verified(lane, adapter[role]) /\ adapter[role] \in Identities
    <3>1. CASE lane = "build"
      BY <1>2, <1>4, <3>1 DEF ImagesInvariant, ContainersTypeOK, AdapterVerified,
         SpringAvailable, verify_image_identity, Verified
    <3>2. CASE lane = "exec"
      BY <1>2, <1>4, <3>2 DEF ImagesInvariant, ContainersTypeOK, AdapterVerified,
         SpringAvailable, verify_image_identity, Verified
    <3> QED
      BY <1>2, <3>1, <3>2
  <2>3. Stage(adapter[role])
    BY <1>1, <1>4, <2>1
  <2> QED
    BY <1>2, <2>2, <2>3, StageKeeps DEF Stage, Lanes
<1> QED
  BY <1>3, <1>4

\* The plain Java adapter runs the digest it was constructed on.
LEMMA ResolveJavaKeeps == ASSUME ImagesInvariant, ResolveJava PROVE ImagesInvariant'
<1>1. /\ kind = "java" /\ lane \in {"build", "exec"} /\ step = "resolve"
      /\ box[lane].state = "none" /\ UNCHANGED <<kind, tag, adapter, box>>
  BY DEF ResolveJava, ImagesInvariant, LanesInOrder, Lanes, Before
<1>2. CASE ~adapter.available
  <2>1. NoImage \in Identities /\ Unable(NoImage)
    BY <1>2 DEF ResolveJava, Identities
  <2> QED
    BY <1>1, <2>1, UnableKeeps DEF Lanes
<1>3. CASE adapter.available
  <2>1. Verified(lane, adapter.runtime) /\ adapter.runtime \in Identities
    BY <1>1, <1>3 DEF ImagesInvariant, ContainersTypeOK, AdapterVerified, JavaAvailable, Verified
  <2>2. Stage(adapter.runtime)
    BY <1>3 DEF ResolveJava
  <2> QED
    BY <1>1, <2>1, <2>2, StageKeeps DEF Stage, Lanes
<1> QED
  BY <1>2, <1>3

\* Nothing runs when the inputs cannot be staged.
LEMMA StageFailsKeeps ==
  ASSUME ImagesInvariant, StageOracleFails \/ StageBuildFails \/ StageExecFails
  PROVE  ImagesInvariant'
<1>1. /\ lane \in Lanes /\ step = "stage" /\ box[lane].state = "none" /\ ref \in Identities
      /\ UNCHANGED <<kind, tag, adapter, box>>
  BY DEF StageOracleFails, StageBuildFails, StageExecFails, ImagesInvariant,
         ContainersTypeOK, LanesInOrder, Lanes, Before
<1>2. \/ Unable(ref)
      \/ Return(Report("nonzero_exit", 1, ref, "nothing"))
      \/ Return(Report("failed", 1, ref, "no source"))
  BY DEF StageOracleFails, StageBuildFails, StageExecFails
<1>3. CASE Unable(ref)
  BY <1>1, <1>3, UnableKeeps
<1>4. PICK status \in Int : status = 1
  OBVIOUS
<1>5. CASE Return(Report("nonzero_exit", 1, ref, "nothing"))
  BY <1>1, <1>4, <1>5, ReportKeeps DEF Outcomes
<1>6. CASE Return(Report("failed", 1, ref, "no source"))
  BY <1>1, <1>4, <1>6, ReportKeeps DEF Outcomes
<1> QED
  BY <1>2, <1>3, <1>5, <1>6

\* docker run starts the staged image or nothing.
LEMMA DockerRunKeeps == ASSUME ImagesInvariant, DockerRun PROVE ImagesInvariant'
<1>1. /\ lane \in Lanes /\ step = "stage" /\ box[lane].state = "none" /\ ref \in Identities
      /\ Verified(lane, ref) /\ result[lane].how = "none"
      /\ UNCHANGED <<kind, tag, adapter, lane, ref, result>>
  BY DEF DockerRun, ImagesInvariant, ContainersTypeOK, RefVerified, LanesInOrder, Lanes, Before
<1>2. CASE step' = "wait" /\ client' = client
           /\ box' = [box EXCEPT ![lane] = [NoBox EXCEPT !.image = ref,
                        !.state = IF lane = "oracle" THEN "compile" ELSE "run"]]
  <2> DEFINE started == [NoBox EXCEPT !.image = ref,
                           !.state = IF lane = "oracle" THEN "compile" ELSE "run"]
  <2>1. started \in Boxes /\ started.image = ref /\ started.state # "none"
    BY <1>1, NoBoxType DEF Boxes, BoxStates
  <2> HIDE DEF started
  <2>2. /\ box' \in [Lanes -> Boxes] /\ box'[lane] = started
        /\ \A l \in Lanes \ {lane} : box'[l] = box[l]
    BY <1>1, <1>2, <2>1 DEF ImagesInvariant, ContainersTypeOK, started
  <2>3. ContainersTypeOK'
    BY <1>1, <1>2, <2>2 DEF ImagesInvariant, ContainersTypeOK
  <2>4. LanesInOrder'
    <3>1. Ahead(lane) \subseteq Lanes \ {lane}
      BY DEF Ahead, Lanes
    <3> QED
      BY <1>1, <1>2, <2>2, <3>1 DEF ImagesInvariant, LanesInOrder, Before
  <2>5. AdapterVerified'
    BY <1>1 DEF ImagesInvariant, AdapterVerified, SpringAvailable, JavaAvailable, verify_image_identity
  <2>6. RefVerified'
    BY <1>1, <1>2, <2>1, <2>2 DEF RefVerified
  <2>7. VerifiedImagesRan'
    <3> SUFFICES ASSUME NEW l \in Lanes, box'[l].state # "none"
                 PROVE  Verified(l, box[l].image)' /\ (Comparable(l) => result[l].image = box[l].image)'
      BY DEF VerifiedImagesRan
    <3>1. CASE l = lane
      <4>1. Verified(lane, ref)'
        BY <1>1 DEF Verified
      <4>2. ~Comparable(l)'
        BY <1>1, <3>1 DEF Comparable
      <4> QED
        BY <1>1, <2>1, <2>2, <3>1, <4>1, <4>2
    <3>2. CASE l # lane
      BY <1>1, <2>2, <3>2 DEF ImagesInvariant, VerifiedImagesRan, Verified, Comparable
    <3> QED
      BY <3>1, <3>2
  <2> QED
    BY <2>3, <2>4, <2>5, <2>6, <2>7 DEF ImagesInvariant
<1>3. ASSUME NEW c \in Clients, client' = c, step' = "collect", UNCHANGED box
      PROVE  ImagesInvariant'
  <2>1. ContainersTypeOK'
    BY <1>1, <1>3 DEF ImagesInvariant, ContainersTypeOK
  <2>2. LanesInOrder'
    BY <1>1, <1>3 DEF ImagesInvariant, LanesInOrder, Before
  <2>3. AdapterVerified'
    BY <1>1 DEF ImagesInvariant, AdapterVerified, SpringAvailable, JavaAvailable, verify_image_identity
  <2>4. RefVerified'
    BY <1>1, <1>3 DEF RefVerified
  <2>5. VerifiedImagesRan'
    BY <1>1, <1>3 DEF ImagesInvariant, VerifiedImagesRan, Verified, Comparable
  <2> QED
    BY <2>1, <2>2, <2>3, <2>4, <2>5 DEF ImagesInvariant
<1>4. \A c \in 125..127 : [how |-> "refused", code |-> c] \in Clients
  BY DEF Clients
<1>5. [how |-> "raised", code |-> NoStatus] \in Clients
  BY NoStatusIsInt DEF Clients
<1> QED
  BY <1>2, <1>3, <1>4, <1>5 DEF DockerRun

\* The client's end changes no container.
LEMMA ClientReturnsKeeps == ASSUME ImagesInvariant, ClientReturns PROVE ImagesInvariant'
<1>1. /\ step \in During /\ step' \in During
      /\ UNCHANGED <<kind, tag, adapter, lane, ref, box, result>>
  BY DEF ClientReturns, During
<1>2. lane \in Lanes /\ box[lane].exit \in Int
  BY <1>1 DEF ImagesInvariant, ContainersTypeOK, LanesInOrder, During, Boxes
<1>3. /\ [how |-> "exit", code |-> box[lane].exit] \in Clients
      /\ \A how \in {"refused", "lost"} : [how |-> how, code |-> 125] \in Clients
      /\ [how |-> "timeout", code |-> NoStatus] \in Clients
  BY <1>2, NoStatusIsInt DEF Clients
<1>4. client' \in Clients
  BY <1>3 DEF ClientReturns
<1> QED
  BY <1>1, <1>4, BoxKeeps DEF BoxesKept, ImagesInvariant, ContainersTypeOK

\* A container that ends keeps its image.
LEMMA EndedBox ==
  ASSUME ImagesInvariant, NEW k \in Lanes, box[k].state # "none", NEW by \in Endings,
         NEW exit \in Int, Ended(k, by, exit)
  PROVE  BoxesKept
<1>1. box \in [Lanes -> Boxes] /\ box[k] \in Boxes
  BY DEF ImagesInvariant, ContainersTypeOK
<1> DEFINE after == [[[box[k] EXCEPT !.state = "ended"] EXCEPT !.by = by] EXCEPT !.exit = exit]
<1>2. after \in Boxes /\ after.image = box[k].image /\ after.state = "ended"
  <2>1. [box[k] EXCEPT !.state = "ended"] \in Boxes
    BY <1>1 DEF Boxes, BoxStates
  <2>2. [[box[k] EXCEPT !.state = "ended"] EXCEPT !.by = by] \in Boxes
    BY <2>1 DEF Boxes
  <2>3. after \in Boxes
    BY <2>2 DEF Boxes
  <2> QED
    BY <1>1, <2>3 DEF Boxes
<1>3. box' = [box EXCEPT ![k] = after]
  BY <1>1 DEF Ended
<1> HIDE DEF after
<1> QED
  BY <1>1, <1>2, <1>3 DEF BoxesKept

\* Stopping and removing a container keeps its image.
LEMMA CleanupKeeps == ASSUME ImagesInvariant, Cleanup PROVE ImagesInvariant'
<1>1. /\ step \in During /\ step' \in During
      /\ UNCHANGED <<kind, tag, adapter, lane, ref, client, result>>
  BY DEF Cleanup, During
<1>2. lane \in Lanes /\ client \in Clients /\ tag \in [Roles -> Identities]
      /\ box \in [Lanes -> Boxes]
  BY <1>1 DEF ImagesInvariant, ContainersTypeOK, LanesInOrder, During
<1>3. CASE Live(lane) /\ Ended(lane, "docker", KILLED)
  <2>1. box[lane].state # "none" /\ "docker" \in Endings /\ KILLED \in Int
    BY <1>3 DEF Live, Endings, KILLED
  <2>2. BoxesKept
    BY <1>2, <1>3, <2>1, EndedBox
  <2>3. client' \in Clients /\ tag' \in [Roles -> Identities]
    BY <1>1, <1>2
  <2> QED
    BY <1>1, <2>2, <2>3, BoxKeeps
<1>4. CASE UNCHANGED box
  BY <1>1, <1>2, <1>4, BoxKeeps DEF BoxesKept
<1> QED
  BY <1>3, <1>4 DEF Cleanup

\* Whatever the classification, the result names the image that ran.
LEMMA CollectKeeps == ASSUME ImagesInvariant, Collect PROVE ImagesInvariant'
<1>1. /\ lane \in Lanes /\ step \in During /\ ref \in Identities /\ client \in Clients
      /\ kind \in {"spring", "java"} /\ box[lane] \in Boxes
      /\ box[lane].state # "none" => ref = box[lane].image
      /\ UNCHANGED <<kind, tag, adapter, box>>
  BY DEF Collect, ImagesInvariant, ContainersTypeOK, LanesInOrder, RefVerified, During
<1>2. NoStatus \in Int /\ client.code \in Int /\ box[lane].wrote \in {"part", "whole"}
  BY <1>1, NoStatusIsInt DEF Clients, Boxes
<1>3. CASE Unable(ref)
  BY <1>1, <1>3, UnableKeeps
<1>4. ASSUME NEW how \in Outcomes \ {"none"}, NEW exit \in Int,
             NEW seen \in {"nothing", "no source", "part", "whole"},
             Return(Report(how, exit, ref, seen))
      PROVE  ImagesInvariant'
  BY <1>1, <1>4, ReportKeeps
<1>5. ASSUME Return(OracleReport(box[lane])) PROVE ImagesInvariant'
  <2>1. classify_termination(box[lane]) \in Outcomes \ {"none"}
    BY DEF classify_termination, Outcomes
  <2>2. CASE oracle_timeout(box[lane])
    BY <1>2, <1>4, <1>5, <2>2 DEF OracleReport, Outcomes
  <2>3. CASE ~oracle_timeout(box[lane])
    BY <1>2, <1>4, <1>5, <2>1, <2>3 DEF OracleReport
  <2> QED
    BY <2>2, <2>3
<1>10. PICK status \in Int : status = 1
  OBVIOUS
<1>6. ASSUME Return(Unbuilt) PROVE ImagesInvariant'
  BY <1>4, <1>6, <1>10 DEF Unbuilt, Outcomes
<1>7. ASSUME NEW how \in {"built", "failed"}, Return(Report(how, 1, ref, box[lane].wrote))
      PROVE  ImagesInvariant'
  BY <1>2, <1>4, <1>7, <1>10 DEF Outcomes
<1>8. ASSUME NEW files \in {"none", "one", "several"},
             Return(IF kind = "spring" THEN MavenReport(box[lane], files)
                                       ELSE JavacReport(box[lane], files))
      PROVE  ImagesInvariant'
  <2>1. CASE ~BuildSucceeded
    BY <1>6, <1>8, <2>1 DEF MavenReport, JavacReport
  <2>2. CASE BuildSucceeded /\ kind = "spring"
    BY <1>7, <1>8, <2>2 DEF MavenReport
  <2>3. CASE BuildSucceeded /\ kind # "spring"
    BY <1>7, <1>8, <2>3 DEF JavacReport
  <2> QED
    BY <2>1, <2>2, <2>3
<1>9. ASSUME Return(ExecReport(box[lane])) PROVE ImagesInvariant'
  <2>1. CASE client.how = "timeout" \/ is_docker_infrastructure_exit(FALSE)
    BY <1>2, <1>4, <1>9, <2>1 DEF ExecReport, Outcomes
  <2>2. CASE ~(client.how = "timeout" \/ is_docker_infrastructure_exit(FALSE))
    BY <1>2, <1>4, <1>9, <2>2 DEF ExecReport, Outcomes
  <2> QED
    BY <2>1, <2>2
<1> QED
  BY <1>3, <1>5, <1>8, <1>9 DEF Collect

\* Nobody looks at what a dead process left (no thread is restarted).
LEMMA ProcessDiesKeeps == ASSUME ImagesInvariant, ProcessDies PROVE ImagesInvariant'
<1>1. NoImage \in Identities
  BY DEF Identities
<1>2. ContainersTypeOK'
  BY <1>1, NoClientType DEF ProcessDies, ImagesInvariant, ContainersTypeOK
<1>3. LanesInOrder'
  BY DEF ProcessDies, LanesInOrder, Ahead, Lanes
<1>4. AdapterVerified'
  BY DEF ProcessDies, ImagesInvariant, AdapterVerified, SpringAvailable, JavaAvailable,
         verify_image_identity
<1>5. RefVerified'
  BY DEF ProcessDies, RefVerified, During
<1>6. VerifiedImagesRan'
  BY DEF ProcessDies, ImagesInvariant, VerifiedImagesRan, Verified, Comparable
<1> QED
  BY <1>2, <1>3, <1>4, <1>5, <1>6 DEF ImagesInvariant

-----------------------------------------------------------------------------
(* The containers' own steps, and the tags'.                               *)

\* A program that starts or ends, and a watchdog, leave the image alone.
LEMMA ProgramsKeep ==
  ASSUME ImagesInvariant, CompileEnds \/ CompileExpires \/ WatchdogMarks \/ WatchdogKills \/ ProgramRuns
  PROVE  ImagesInvariant'
<1>1. BoxStep
  BY DEF CompileEnds, CompileExpires, WatchdogMarks, WatchdogKills, ProgramRuns
<1>2. /\ client' \in Clients /\ tag' \in [Roles -> Identities] /\ step' = step
      /\ UNCHANGED <<kind, adapter, lane, ref, result>>
  BY <1>1 DEF BoxStep, ImagesInvariant, ContainersTypeOK
<1>3. /\ box \in [Lanes -> Boxes] /\ "oracle" \in Lanes
      /\ \A e \in ProgramExits : e \in Int
  BY ContainersAssumption DEF ImagesInvariant, ContainersTypeOK, Lanes
<1>4. KILLED \in Int /\ "watchdog" \in Endings /\ "compiler" \in Endings
      /\ "libcob" \in Endings /\ "kernel" \in Endings
  BY DEF KILLED, Endings
<1>5. ASSUME NEW k \in Lanes, box[k].state # "none", NEW after \in Boxes,
             after.image = box[k].image, after.state # "none", box' = [box EXCEPT ![k] = after]
      PROVE  BoxesKept
  BY <1>3, <1>5 DEF BoxesKept
<1> SUFFICES BoxesKept
  BY <1>2, BoxKeeps
<1>6. CASE CompileEnds
  <2>1. CASE box' = [box EXCEPT !["oracle"].state = "run", !["oracle"].marks = {"compiled"}]
    <3> DEFINE after == [[box["oracle"] EXCEPT !.state = "run"] EXCEPT !.marks = {"compiled"}]
    <3>1. after \in Boxes /\ after.image = box["oracle"].image /\ after.state # "none"
      BY <1>3 DEF Boxes, BoxStates, Marks
    <3>2. box' = [box EXCEPT !["oracle"] = after] /\ box["oracle"].state # "none"
      BY <1>3, <1>6, <2>1 DEF CompileEnds
    <3> QED
      BY <1>3, <1>5, <3>1, <3>2
  <2>2. CASE \E e \in ProgramExits \ {0} : Ended("oracle", "compiler", e)
    BY <1>3, <1>4, <1>6, <2>2, EndedBox DEF CompileEnds
  <2> QED
    BY <1>6, <2>1, <2>2 DEF CompileEnds
<1>7. CASE CompileExpires
  <2> DEFINE after == [box["oracle"] EXCEPT !.state = "ended", !.by = "watchdog", !.exit = KILLED,
                                           !.marks = {"compile_timeout"}]
  <2>1. after \in Boxes /\ after.image = box["oracle"].image /\ after.state # "none"
    BY <1>3, <1>4 DEF Boxes, BoxStates, Marks
  <2>2. box' = [box EXCEPT !["oracle"] = after] /\ box["oracle"].state # "none"
    BY <1>3, <1>7 DEF CompileExpires
  <2> QED
    BY <1>3, <1>5, <2>1, <2>2
<1>8. CASE WatchdogMarks
  <2> DEFINE after == [box["oracle"] EXCEPT !.marks = @ \cup {"run_timeout"}]
  <2>1. after \in Boxes /\ after.image = box["oracle"].image /\ after.state # "none"
    BY <1>3, <1>8 DEF Boxes, BoxStates, Marks, WatchdogMarks
  <2>2. box' = [box EXCEPT !["oracle"] = after] /\ box["oracle"].state # "none"
    BY <1>3, <1>8 DEF WatchdogMarks
  <2> QED
    BY <1>3, <1>5, <2>1, <2>2
<1>9. CASE WatchdogKills
  BY <1>3, <1>4, <1>9, EndedBox DEF WatchdogKills
<1>10. CASE ProgramRuns
  <2>1. PICK l \in Lanes :
          /\ box[l].state = "run"
          /\ \/ \E e \in ProgramExits :
                  box' = [box EXCEPT ![l] = [@ EXCEPT !.state = "ended", !.by = "itself",
                                                      !.exit = e, !.wrote = "whole"]]
             \/ l = "oracle" /\ Ended(l, "libcob", 1)
             \/ Ended(l, "kernel", KILLED)
    BY <1>10 DEF ProgramRuns
  <2>2. ASSUME NEW e \in ProgramExits,
               box' = [box EXCEPT ![l] = [@ EXCEPT !.state = "ended", !.by = "itself",
                                                   !.exit = e, !.wrote = "whole"]]
        PROVE  BoxesKept
    <3> DEFINE after == [box[l] EXCEPT !.state = "ended", !.by = "itself", !.exit = e,
                                       !.wrote = "whole"]
    <3>1. after \in Boxes /\ after.image = box[l].image /\ after.state # "none"
      BY <1>3 DEF Boxes, BoxStates, Endings
    <3>2. box' = [box EXCEPT ![l] = after] /\ box[l].state # "none"
      BY <1>3, <2>1, <2>2
    <3> QED
      BY <1>5, <3>1, <3>2
  <2>3. PICK status \in Int : status = 1
    OBVIOUS
  <2>4. CASE Ended(l, "libcob", 1)
    BY <1>4, <2>1, <2>3, <2>4, EndedBox
  <2>5. CASE Ended(l, "kernel", KILLED)
    BY <1>4, <2>1, <2>5, EndedBox
  <2> QED
    BY <2>1, <2>2, <2>4, <2>5
<1> QED
  BY <1>6, <1>7, <1>8, <1>9, <1>10

\* A tag that moves changes nothing that is running or verified.
LEMMA RetagKeeps == ASSUME ImagesInvariant, Retag PROVE ImagesInvariant'
<1>1. PICK r \in Roles, i \in Identities : tag' = [tag EXCEPT ![r] = i]
  BY DEF Retag, Identities
<1>2. tag' \in [Roles -> Identities] /\ box \in [Lanes -> Boxes] /\ client \in Clients
  BY <1>1 DEF ImagesInvariant, ContainersTypeOK
<1> QED
  BY <1>2, BoxKeeps DEF Retag, BoxesKept

-----------------------------------------------------------------------------
(* The theorems.                                                           *)

\* Every step of the adapters, of the containers and of whoever moves the tags
\* keeps the invariant.
LEMMA ImagesStep ==
  ASSUME ImagesInvariant, [ContainersNext]_containerVars PROVE ImagesInvariant'
<1>1. CASE UNCHANGED containerVars
  BY <1>1, BoxKeeps DEF containerVars, BoxesKept, ImagesInvariant, ContainersTypeOK
<1>2. CASE Retag \/ Construct
  BY <1>2, RetagKeeps, ConstructKeeps
<1>3. CASE ResolveOracle \/ CheckCompiler \/ ResolveSpring \/ ResolveJava
  BY <1>3, ResolveOracleKeeps, CheckCompilerKeeps, ResolveSpringKeeps, ResolveJavaKeeps
<1>4. CASE StageOracleFails \/ StageBuildFails \/ StageExecFails
  BY <1>4, StageFailsKeeps
<1>5. CASE DockerRun \/ ClientReturns \/ Cleanup \/ Collect \/ ProcessDies
  BY <1>5, DockerRunKeeps, ClientReturnsKeeps, CleanupKeeps, CollectKeeps, ProcessDiesKeeps
<1>6. CASE CompileEnds \/ CompileExpires \/ WatchdogMarks \/ WatchdogKills \/ ProgramRuns
  BY <1>6, ProgramsKeep
<1> QED
  BY <1>1, <1>2, <1>3, <1>4, <1>5, <1>6 DEF ContainersNext

\* The invariant holds of every behaviour of the adapters and their containers.
THEOREM ImagesHold == ContainersSpec => []ImagesInvariant
<1>1. ContainersInit => ImagesInvariant
  BY ImagesInit
<1>2. ImagesInvariant /\ [ContainersNext]_containerVars => ImagesInvariant'
  BY ImagesStep
<1> QED
  BY <1>1, <1>2, PTL DEF ContainersSpec

\* Every container runs the image that was verified, and a result that is
\* compared names it (_resolve_image_identity, _fresh_build_ref,
\* _fresh_runtime_ref).
THEOREM ImagesAreVerified == ContainersSpec => []VerifiedImagesRan
<1>1. ImagesInvariant => VerifiedImagesRan
  BY DEF ImagesInvariant
<1> QED
  BY <1>1, ImagesHold, PTL

-----------------------------------------------------------------------------
(* What is compared is a whole execution.                                  *)

\* How a container ended, told from its exit code, what it wrote and the marks
\* it left.
SoundEnd(l, b) ==
  \/ b.by = "itself" /\ b.wrote = "whole"
  \/ b.by = "kernel" /\ b.exit = KILLED
  \/ b.by = "docker" /\ b.exit = KILLED
  \/ l = "oracle" /\ b.by = "libcob" /\ b.exit = 1
  \/ l = "oracle" /\ b.by = "compiler" /\ b.exit # 0 /\ "compiled" \notin b.marks
  \/ /\ l = "oracle" /\ b.by = "watchdog" /\ b.exit = KILLED
     /\ b.marks \cap {"compile_timeout", "run_timeout"} # {}

SoundBox(l, b) ==
  /\ b.state # "ended" => b.by = "none"
  /\ b.state \in {"none", "compile"} => b.marks = {}
  /\ b.state = "ended" => SoundEnd(l, b)

\* What the lane knows of its container: Docker killed it only after the host's
\* limit ran out, an exit code is the container's own, and Docker's codes are
\* 125 when there is a container.
ClientSound ==
  /\ step = "wait" => box[lane].by # "docker"
  /\ step = "cleanup" => client.how = "timeout"
  /\ step = "collect" =>
       /\ client.how \in {"exit", "refused", "lost", "raised", "timeout"}
       /\ client.how = "exit" =>
            /\ box[lane].state = "ended" /\ client.code = box[lane].exit
            /\ box[lane].by # "docker"
       /\ client.how = "refused" =>
            /\ client.code \in 125..127
            /\ box[lane].state # "none" => client.code = 125
       /\ client.how = "lost" => client.code = 125

\* A result is worth comparing with the container it is of.
WholeReport(l, b, r) ==
  /\ r.how \in IF l = "oracle" THEN {"normal", "return_code"}
               ELSE IF l = "build" THEN {"built", "failed"}
               ELSE {"normal", "nonzero_exit"}
  /\ b.by # "kernel"
  /\ ~(l = "oracle" /\ r.how = "return_code" /\ r.exit = 125)
  /\ ~(l = "exec" /\ r.how = "nonzero_exit" /\ r.exit = 125)
  /\ r.seen # "no source"
  => /\ b.state = "ended" /\ b.by = "itself"
     /\ r.how # "failed" => r.seen = "whole"
     /\ l # "build" => r.exit = b.exit

BoxesSound == \A l \in Lanes : SoundBox(l, box[l])
ReportsWhole == \A l \in Lanes : WholeReport(l, box[l], result[l])

\* The inductive invariant.
WholeInvariant == ImagesInvariant /\ BoxesSound /\ ClientSound /\ ReportsWhole

\* The two ways to say it agree.
LEMMA WholeIsCompared == ASSUME ReportsWhole PROVE ComparedIsWhole
BY DEF ReportsWhole, WholeReport, ComparedIsWhole, Comparable, Indistinct

\* A container either stays as it is or is a live one that goes on or ends.
BoxesMoved ==
  \A l \in Lanes :
    \/ box'[l] = box[l]
    \/ /\ Live(l) /\ box'[l].state # "none" /\ SoundBox(l, box'[l])
       /\ box'[l].by = "docker" => step = "cleanup"

\* Nothing that has been reported moves.
LEMMA MovesKeepReports ==
  ASSUME WholeInvariant, BoxesMoved, UNCHANGED result
  PROVE  BoxesSound' /\ ReportsWhole'
<1>1. BoxesSound' BY DEF WholeInvariant, BoxesSound, BoxesMoved
<1>2. ASSUME NEW l \in Lanes PROVE WholeReport(l, box'[l], result[l])
  <2>1. CASE box'[l] = box[l]
    BY <2>1 DEF WholeInvariant, ReportsWhole
  <2>2. CASE Live(l)
    <3>1. box[l].by = "none" /\ box[l].state # "ended"
      BY <2>2 DEF WholeInvariant, BoxesSound, SoundBox, Live
    <3>2. WholeReport(l, box[l], result[l]) BY DEF WholeInvariant, ReportsWhole
    <3> QED BY <3>1, <3>2 DEF WholeReport
  <2> QED BY <2>1, <2>2 DEF BoxesMoved
<1> QED BY <1>1, <1>2 DEF ReportsWhole

\* The client's knowledge survives what containers do by themselves.
LEMMA MovesKeepClient ==
  ASSUME WholeInvariant, BoxesMoved, UNCHANGED <<lane, step, client>>
  PROVE  ClientSound'
<1>1. CASE step \notin {"wait", "collect"}
  BY <1>1 DEF WholeInvariant, ClientSound
<1>2. CASE step \in {"wait", "collect"}
  <2>1. lane \in Lanes
    BY <1>2 DEF WholeInvariant, ImagesInvariant, ContainersTypeOK, LanesInOrder
  <2>2. \/ box'[lane] = box[lane]
        \/ /\ Live(lane) /\ box'[lane].state # "none"
           /\ box'[lane].by # "docker"
    BY <1>2, <2>1 DEF BoxesMoved
  <2> QED BY <1>2, <2>2 DEF WholeInvariant, ClientSound, Live
<1> QED BY <1>1, <1>2

\* A step of the containers alone keeps the invariant.
LEMMA MovesKeepWhole ==
  ASSUME WholeInvariant, ImagesInvariant', BoxesMoved,
         UNCHANGED <<lane, step, client, result>>
  PROVE  WholeInvariant'
BY MovesKeepReports, MovesKeepClient DEF WholeInvariant

\* A lane's report keeps the invariant when it is whole.
LEMMA ReturnKeepsWhole ==
  ASSUME WholeInvariant, ImagesInvariant', lane \in Lanes, NEW r, Return(r),
         WholeReport(lane, box[lane], r), UNCHANGED box
  PROVE  WholeInvariant'
<1>1. result' = [result EXCEPT ![lane] = r] /\ step' \in {"done", "resolve"}
  BY DEF Return
<1>2. ClientSound' BY <1>1 DEF ClientSound
<1>3. result \in [Lanes -> Reports]
  BY DEF WholeInvariant, ImagesInvariant, ContainersTypeOK
<1>4. ReportsWhole'
  BY <1>1, <1>3 DEF WholeInvariant, ReportsWhole
<1>5. BoxesSound' BY DEF WholeInvariant, BoxesSound
<1> QED BY <1>2, <1>4, <1>5 DEF WholeInvariant

\* So it does when it says that the lane could not do its work.
LEMMA UnableKeepsWhole ==
  ASSUME WholeInvariant, ImagesInvariant', lane \in Lanes, NEW image, Unable(image),
         UNCHANGED box
  PROVE  WholeInvariant'
<1>1. ASSUME NEW how \in {"infrastructure", "error"},
             Return(Report(how, NoStatus, image, "nothing"))
      PROVE  WholeInvariant'
  <2>1. WholeReport(lane, box[lane], Report(how, NoStatus, image, "nothing"))
    BY DEF WholeReport, Report
  <2> QED BY <1>1, <2>1, ReturnKeepsWhole
<1>2. CASE lane = "build"
  <2>1. Return(Report("infrastructure", NoStatus, image, "nothing"))
    BY <1>2 DEF Unable
  <2> QED BY <1>1, <2>1
<1>3. CASE lane # "build"
  <2>1. Return(Report("error", NoStatus, image, "nothing"))
    BY <1>3 DEF Unable
  <2> QED BY <1>1, <2>1
<1> QED BY <1>2, <1>3

\* Nothing has ended or been reported at first.
LEMMA WholeInit == ASSUME ContainersInit PROVE WholeInvariant
<1>1. ImagesInvariant BY ImagesInit
<1>2. BoxesSound BY DEF ContainersInit, BoxesSound, SoundBox, NoBox
<1>3. ClientSound BY DEF ContainersInit, ClientSound
<1>4. ReportsWhole
  BY DEF ContainersInit, ReportsWhole, WholeReport, NoResult
<1> QED BY <1>1, <1>2, <1>3, <1>4 DEF WholeInvariant

\* Until a lane runs its container nothing ends and nothing is compared.
LEMMA BeforeKeepsWhole ==
  ASSUME WholeInvariant, ImagesInvariant',
         \/ Retag \/ Construct \/ ResolveOracle \/ CheckCompiler
         \/ ResolveSpring \/ ResolveJava
         \/ StageOracleFails \/ StageBuildFails \/ StageExecFails \/ ProcessDies
  PROVE  WholeInvariant'
<1>1. ASSUME UNCHANGED <<box, result>>, step' \notin {"wait", "cleanup", "collect"}
      PROVE  WholeInvariant'
  BY <1>1 DEF WholeInvariant, BoxesSound, ReportsWhole, ClientSound
<1>2. CASE Retag
  BY <1>2, MovesKeepWhole DEF Retag, BoxesMoved
<1>3. CASE Construct \/ ProcessDies
  BY <1>1, <1>3 DEF Construct, ProcessDies
<1>4. CASE ResolveOracle
  <2>1. PICK id \in Observed("oracle") :
          Unable(id) \/ (step' = "compiler" /\ UNCHANGED result)
    BY <1>4 DEF ResolveOracle
  <2> QED BY <1>1, <1>4, <2>1, UnableKeepsWhole DEF ResolveOracle, Lanes
<1>5. CASE CheckCompiler
  <2>1. lane \in Lanes
    BY <1>5 DEF CheckCompiler, WholeInvariant, ImagesInvariant, RefVerified, Lanes
  <2>2. Unable(ref) \/ (step' = "stage" /\ UNCHANGED result)
    BY <1>5 DEF CheckCompiler
  <2> QED BY <1>1, <1>5, <2>1, <2>2, UnableKeepsWhole DEF CheckCompiler
<1>6. CASE ResolveSpring \/ ResolveJava
  <2>1. lane \in Lanes /\ UNCHANGED box
    BY <1>6 DEF ResolveSpring, ResolveJava, Lanes
  <2>2. Unable(NoImage) \/ (step' = "stage" /\ UNCHANGED result)
    BY <1>6 DEF ResolveSpring, ResolveJava, Stage
  <2> QED BY <1>1, <2>1, <2>2, UnableKeepsWhole
<1>7. CASE StageOracleFails \/ StageBuildFails \/ StageExecFails
  <2>1. lane \in Lanes /\ UNCHANGED box
    BY <1>7 DEF StageOracleFails, StageBuildFails, StageExecFails, Lanes
  <2>2. \/ Unable(ref)
        \/ lane = "oracle" /\ Return(Report("nonzero_exit", 1, ref, "nothing"))
        \/ Return(Report("failed", 1, ref, "no source"))
    BY <1>7 DEF StageOracleFails, StageBuildFails, StageExecFails
  <2>3. CASE lane = "oracle" /\ Return(Report("nonzero_exit", 1, ref, "nothing"))
    <3>1. WholeReport(lane, box[lane], Report("nonzero_exit", 1, ref, "nothing"))
      BY <2>3 DEF WholeReport, Report
    <3> QED BY <2>1, <2>3, <3>1, ReturnKeepsWhole
  <2>4. CASE Return(Report("failed", 1, ref, "no source"))
    <3>1. WholeReport(lane, box[lane], Report("failed", 1, ref, "no source"))
      BY DEF WholeReport, Report
    <3> QED BY <2>1, <2>4, <3>1, ReturnKeepsWhole
  <2> QED BY <2>1, <2>2, <2>3, <2>4, UnableKeepsWhole
<1> QED BY <1>2, <1>3, <1>4, <1>5, <1>6, <1>7

\* A container starts, or Docker says why it does not.
LEMMA DockerRunKeepsWhole ==
  ASSUME WholeInvariant, ImagesInvariant', DockerRun PROVE WholeInvariant'
<1>1. /\ lane \in Lanes /\ box[lane].state = "none" /\ result[lane].how = "none"
      /\ box \in [Lanes -> Boxes] /\ UNCHANGED <<lane, result>>
  BY DEF DockerRun, WholeInvariant, ImagesInvariant, ContainersTypeOK, LanesInOrder,
     Lanes, Before
<1>2. CASE step' = "wait" /\ client' = client
           /\ box' = [box EXCEPT ![lane] = [NoBox EXCEPT !.image = ref,
                        !.state = IF lane = "oracle" THEN "compile" ELSE "run"]]
  <2> DEFINE started == [NoBox EXCEPT !.image = ref,
                           !.state = IF lane = "oracle" THEN "compile" ELSE "run"]
  <2>1. /\ started.state \in {"compile", "run"} /\ started.by = "none"
        /\ started.marks = {}
    BY DEF NoBox
  <2> HIDE DEF started
  <2>2. /\ box'[lane] = started
        /\ \A l \in Lanes \ {lane} : box'[l] = box[l]
    BY <1>1, <1>2 DEF started
  <2>3. BoxesSound'
    BY <2>1, <2>2 DEF WholeInvariant, BoxesSound, SoundBox
  <2>4. ClientSound' BY <1>1, <1>2, <2>1, <2>2 DEF ClientSound
  <2>5. WholeReport(lane, started, result[lane]) BY <1>1 DEF WholeReport
  <2>6. ReportsWhole'
    BY <1>1, <2>2, <2>5 DEF WholeInvariant, ReportsWhole
  <2> QED BY <2>3, <2>4, <2>6 DEF WholeInvariant
<1>3. ASSUME UNCHANGED box, step' = "collect",
             \/ \E c \in 125..127 : client' = [how |-> "refused", code |-> c]
             \/ client' = [how |-> "raised", code |-> NoStatus]
      PROVE  WholeInvariant'
  <2>1. ClientSound' BY <1>1, <1>3 DEF ClientSound
  <2> QED BY <1>1, <1>3, <2>1 DEF WholeInvariant, BoxesSound, ReportsWhole
<1> QED BY <1>2, <1>3 DEF DockerRun

\* The client learns how its container ended, or nothing.
LEMMA ClientReturnsKeepsWhole ==
  ASSUME WholeInvariant, ImagesInvariant', ClientReturns PROVE WholeInvariant'
<1>1. box[lane].by # "docker" /\ UNCHANGED <<lane, box, result>>
  BY DEF ClientReturns, WholeInvariant, ClientSound
<1>2. ClientSound'
  <2>1. CASE /\ box[lane].state = "ended" /\ step' = "collect"
             /\ client' = [how |-> "exit", code |-> box[lane].exit]
    BY <1>1, <2>1 DEF ClientSound
  <2>2. ASSUME NEW how \in {"refused", "lost"}, step' = "collect",
               client' = [how |-> how, code |-> 125]
        PROVE  ClientSound'
    BY <1>1, <2>2 DEF ClientSound
  <2>3. CASE client' = [how |-> "timeout", code |-> NoStatus] /\ step' = "cleanup"
    BY <1>1, <2>3 DEF ClientSound
  <2> QED BY <2>1, <2>2, <2>3 DEF ClientReturns
<1> QED BY <1>1, <1>2 DEF WholeInvariant, BoxesSound, ReportsWhole

\* A live container that ends is one the lane can tell from the others.
LEMMA EndedMoves ==
  ASSUME WholeInvariant, NEW k \in Lanes, Live(k), NEW by, NEW exit,
         Ended(k, by, exit), by = "docker" => step = "cleanup",
         \A b \in Boxes :
           /\ b.state = "ended" /\ b.by = by /\ b.exit = exit
           /\ b.marks = box[k].marks /\ b.wrote = box[k].wrote
           => SoundEnd(k, b),
         by \in Endings \ {"none"}, exit \in Int
  PROVE  BoxesMoved
<1>1. box \in [Lanes -> Boxes] /\ box[k] \in Boxes
  BY DEF WholeInvariant, ImagesInvariant, ContainersTypeOK
<1> DEFINE after == [[[box[k] EXCEPT !.state = "ended"] EXCEPT !.by = by] EXCEPT !.exit = exit]
<1>2. /\ after \in Boxes /\ after.state = "ended" /\ after.by = by /\ after.exit = exit
      /\ after.marks = box[k].marks /\ after.wrote = box[k].wrote
  <2>1. [box[k] EXCEPT !.state = "ended"] \in Boxes BY <1>1 DEF Boxes, BoxStates
  <2>2. [[box[k] EXCEPT !.state = "ended"] EXCEPT !.by = by] \in Boxes
    BY <2>1 DEF Boxes
  <2>3. after \in Boxes BY <2>2 DEF Boxes
  <2> QED BY <1>1, <2>3 DEF Boxes
<1>3. box' = [box EXCEPT ![k] = after] BY <1>1 DEF Ended
<1> HIDE DEF after
<1>4. SoundBox(k, after) BY <1>2 DEF SoundBox
<1>5. box'[k] = after /\ \A l \in Lanes \ {k} : box'[l] = box[l]
  BY <1>1, <1>3
<1> QED BY <1>2, <1>4, <1>5 DEF BoxesMoved

\* Docker stops what the host's limit did not wait for.
LEMMA CleanupKeepsWhole ==
  ASSUME WholeInvariant, ImagesInvariant', Cleanup PROVE WholeInvariant'
<1>1. /\ lane \in Lanes /\ step = "cleanup" /\ client.how = "timeout"
      /\ step' = "collect" /\ UNCHANGED <<lane, client, result>>
  BY DEF Cleanup, WholeInvariant, ImagesInvariant, ContainersTypeOK, LanesInOrder,
     ClientSound
<1>2. BoxesMoved
  <2>1. CASE Live(lane) /\ Ended(lane, "docker", KILLED)
    <3>1. "docker" \in Endings \ {"none"} /\ KILLED \in Int
      BY DEF Endings, KILLED
    <3> QED BY <1>1, <2>1, <3>1, EndedMoves DEF SoundEnd
  <2>2. CASE UNCHANGED box BY <2>2 DEF BoxesMoved
  <2> QED BY <2>1, <2>2 DEF Cleanup
<1>3. ClientSound' BY <1>1 DEF ClientSound
<1> QED BY <1>1, <1>2, <1>3, MovesKeepReports DEF WholeInvariant

\* A classification that is compared is of a container that ended by itself.
LEMMA CollectKeepsWhole ==
  ASSUME WholeInvariant, ImagesInvariant', Collect PROVE WholeInvariant'
<1> DEFINE b == box[lane]
<1>1. /\ lane \in Lanes /\ step = "collect" /\ UNCHANGED box
      /\ SoundBox(lane, b)
      /\ kind \in {"spring", "java"}
  BY DEF Collect, WholeInvariant, ImagesInvariant, ContainersTypeOK, LanesInOrder,
     BoxesSound
<1>2. CASE Unable(ref)
  BY <1>1, <1>2, UnableKeepsWhole
<1>3. CASE client.how # "raised"
  <2>1. /\ client.how \in {"exit", "refused", "lost", "timeout"}
        /\ client.how = "exit" =>
             b.state = "ended" /\ client.code = b.exit /\ b.by # "docker"
        /\ client.how = "refused" =>
             client.code \in 125..127 /\ (b.state # "none" => client.code = 125)
        /\ client.how = "lost" => client.code = 125
    BY <1>1, <1>3 DEF WholeInvariant, ClientSound
  <2>2. ASSUME NEW r, Return(r), WholeReport(lane, b, r) PROVE WholeInvariant'
    BY <1>1, <2>2, ReturnKeepsWhole
  <2> HIDE DEF b
  <2>3. ASSUME lane = "oracle" PROVE WholeReport(lane, b, OracleReport(b))
    <3>1. CASE oracle_timeout(b)
      BY <2>3, <3>1 DEF OracleReport, Report, WholeReport
    <3>2. CASE ~oracle_timeout(b)
      <4> DEFINE how == classify_termination(b)
      <4>1. OracleReport(b) = Report(how, client.code, ref, b.wrote)
        BY <3>2 DEF OracleReport
      <4>2. /\ client.how \in {"exit", "refused", "lost"}
            /\ "compile_timeout" \notin b.marks /\ "run_timeout" \notin b.marks
        BY <2>1, <3>2 DEF oracle_timeout
      <4>3. ASSUME how \in {"normal", "return_code"}, b.by # "kernel",
                   ~(how = "return_code" /\ client.code = 125)
            PROVE  b.state = "ended" /\ b.by = "itself" /\ client.code = b.exit
        <5>1. \/ how = "normal" /\ client.code = 0
              \/ how = "return_code" /\ "compiled" \in b.marks /\ b.by # "libcob"
          BY <4>3 DEF classify_termination
        <5>2. client.how = "exit"
          <6>1. SUFFICES ASSUME client.how \in {"refused", "lost"} PROVE FALSE
            BY <4>2
          <6>2. client.code # 0 BY <2>1, <6>1
          <6>3. how = "return_code" /\ "compiled" \in b.marks BY <5>1, <6>2
          <6>4. b.state # "none" BY <1>1, <6>3 DEF SoundBox, b
          <6> QED BY <2>1, <4>3, <6>1, <6>3, <6>4
        <5>3. SoundEnd(lane, b) BY <1>1, <2>1, <5>2 DEF SoundBox, b
        <5>4. b.by = "itself"
          BY <2>1, <4>2, <4>3, <5>1, <5>2, <5>3 DEF SoundEnd, KILLED
        <5> QED BY <2>1, <5>2, <5>4
      <4>4. b.by = "itself" /\ b.state = "ended" => b.wrote = "whole"
        BY <1>1 DEF SoundBox, SoundEnd, b
      <4>5. /\ OracleReport(b).how = how /\ OracleReport(b).exit = client.code
            /\ OracleReport(b).seen = b.wrote
        BY <4>1 DEF Report
      <4> HIDE DEF how
      <4>6. SUFFICES ASSUME how \in {"normal", "return_code"}, b.by # "kernel",
                            ~(how = "return_code" /\ client.code = 125)
                     PROVE  /\ b.state = "ended" /\ b.by = "itself"
                            /\ OracleReport(b).seen = "whole"
                            /\ OracleReport(b).exit = b.exit
        BY <2>3, <4>5 DEF WholeReport
      <4> QED BY <4>3, <4>4, <4>5, <4>6
    <3> QED BY <3>1, <3>2
  <2>4. ASSUME lane # "oracle", client.how = "exit", b.by # "kernel"
        PROVE  b.state = "ended" /\ b.by = "itself" /\ b.wrote = "whole"
    BY <1>1, <2>1, <2>4 DEF SoundBox, SoundEnd, b
  <2>5. ASSUME lane = "build" PROVE WholeReport(lane, b, Unbuilt)
    <3>1. Unbuilt.how \in {"built", "failed"} => client.how = "exit"
      BY <2>1 DEF Unbuilt, is_docker_infrastructure_exit, Report
    <3>2. Unbuilt.how # "built" BY DEF Unbuilt, Report
    <3> QED BY <2>4, <2>5, <3>1, <3>2 DEF WholeReport
  <2>6. ASSUME lane = "build", BuildSucceeded, NEW how \in {"built", "failed"}
        PROVE  WholeReport(lane, b, Report(how, 1, ref, b.wrote))
    <3>1. client.how = "exit" BY <2>1, <2>6 DEF BuildSucceeded
    <3> QED BY <2>4, <2>6, <3>1 DEF WholeReport, Report
  <2>7. ASSUME lane = "exec" PROVE WholeReport(lane, b, ExecReport(b))
    <3>1. CASE client.how = "timeout" \/ is_docker_infrastructure_exit(FALSE)
      BY <2>7, <3>1 DEF ExecReport, Report, WholeReport
    <3>2. CASE ~(client.how = "timeout" \/ is_docker_infrastructure_exit(FALSE))
      <4>1. client.how \in {"exit", "lost"}
        BY <2>1, <3>2 DEF is_docker_infrastructure_exit
      <4>2. /\ ExecReport(b).exit = client.code /\ ExecReport(b).seen = b.wrote
            /\ ExecReport(b).how \in {"normal", "nonzero_exit"}
            /\ client.code # 0 => ExecReport(b).how = "nonzero_exit"
        BY <3>2 DEF ExecReport, Report
      <4>3. CASE client.how = "lost"
        <5>1. client.code = 125 /\ 125 # 0 BY <2>1, <4>3
        <5>2. ExecReport(b).how = "nonzero_exit" /\ ExecReport(b).exit = 125
          BY <4>2, <5>1
        <5> QED BY <2>7, <5>2 DEF WholeReport
      <4> QED BY <2>1, <2>4, <2>7, <4>1, <4>2, <4>3 DEF WholeReport
    <3> QED BY <3>1, <3>2
  <2>8. CASE lane = "oracle" /\ Return(OracleReport(box[lane]))
    BY <2>2, <2>3, <2>8 DEF b
  <2>9. ASSUME lane = "build", NEW files \in {"none", "one", "several"},
               Return(IF kind = "spring" THEN MavenReport(box[lane], files)
                                         ELSE JavacReport(box[lane], files))
        PROVE  WholeInvariant'
    <3>1. CASE ~BuildSucceeded
      BY <2>2, <2>5, <2>9, <3>1 DEF MavenReport, JavacReport
    <3>2. CASE BuildSucceeded /\ kind = "spring"
      <4> DEFINE how == IF files = "one" THEN "built" ELSE "failed"
      <4>1. Return(Report(how, 1, ref, b.wrote))
        BY <2>9, <3>2 DEF MavenReport, b
      <4> QED BY <2>2, <2>6, <2>9, <3>2, <4>1
    <3>3. CASE BuildSucceeded /\ kind # "spring"
      <4> DEFINE how == IF files # "none" THEN "built" ELSE "failed"
      <4>1. Return(Report(how, 1, ref, b.wrote))
        BY <2>9, <3>3 DEF JavacReport, b
      <4> QED BY <2>2, <2>6, <2>9, <3>3, <4>1
    <3> QED BY <3>1, <3>2, <3>3
  <2>10. CASE lane = "exec" /\ Return(ExecReport(box[lane]))
    BY <2>2, <2>7, <2>10 DEF b
  <2> QED BY <1>2, <1>3, <2>8, <2>9, <2>10 DEF Collect
<1> QED BY <1>2, <1>3 DEF Collect

\* What programs, compilers and watchdogs do keeps the invariant.
LEMMA ProgramsKeepWhole ==
  ASSUME WholeInvariant, ImagesInvariant',
         CompileEnds \/ CompileExpires \/ WatchdogMarks \/ WatchdogKills \/ ProgramRuns
  PROVE  WholeInvariant'
<1>1. UNCHANGED <<lane, step, client, result>>
  BY DEF BoxStep, CompileEnds, CompileExpires, WatchdogMarks, WatchdogKills, ProgramRuns
<1>2. /\ box \in [Lanes -> Boxes] /\ "oracle" \in Lanes
      /\ \A e \in ProgramExits : e \in Int
      /\ \A l \in Lanes : SoundBox(l, box[l])
  BY ContainersAssumption
     DEF WholeInvariant, ImagesInvariant, ContainersTypeOK, BoxesSound, Lanes
<1>3. KILLED \in Int /\ "watchdog" \in Endings \ {"none"} /\ "compiler" \in Endings \ {"none"}
      /\ "libcob" \in Endings \ {"none"} /\ "kernel" \in Endings \ {"none"}
  BY DEF KILLED, Endings
<1>4. ASSUME NEW k \in Lanes, Live(k), NEW after \in Boxes, SoundBox(k, after),
             after.state # "none", after.by # "docker", box' = [box EXCEPT ![k] = after]
      PROVE  BoxesMoved
  BY <1>2, <1>4 DEF BoxesMoved
<1> SUFFICES BoxesMoved
  BY <1>1, MovesKeepWhole
<1>5. CASE CompileEnds
  <2>1. /\ box["oracle"].state = "compile" /\ Live("oracle")
        /\ box["oracle"].by = "none" /\ box["oracle"].marks = {}
    BY <1>2, <1>5 DEF CompileEnds, Live, SoundBox
  <2>2. CASE box' = [box EXCEPT !["oracle"].state = "run", !["oracle"].marks = {"compiled"}]
    <3> DEFINE after == [[box["oracle"] EXCEPT !.state = "run"] EXCEPT !.marks = {"compiled"}]
    <3>1. /\ after \in Boxes /\ after.state = "run" /\ after.by = "none"
      BY <1>2, <2>1 DEF Boxes, BoxStates, Marks
    <3>2. box' = [box EXCEPT !["oracle"] = after] BY <1>2, <2>2
    <3> HIDE DEF after
    <3> QED BY <1>2, <1>4, <2>1, <3>1, <3>2 DEF SoundBox
  <2>3. ASSUME NEW e \in ProgramExits \ {0}, Ended("oracle", "compiler", e)
        PROVE  BoxesMoved
    BY <1>2, <1>3, <2>1, <2>3, EndedMoves DEF SoundEnd
  <2> QED BY <1>5, <2>2, <2>3 DEF CompileEnds
<1>6. CASE CompileExpires
  <2> DEFINE after == [box["oracle"] EXCEPT !.state = "ended", !.by = "watchdog", !.exit = KILLED,
                                           !.marks = {"compile_timeout"}]
  <2>1. /\ after \in Boxes /\ after.state = "ended" /\ after.by = "watchdog"
        /\ after.exit = KILLED /\ after.marks = {"compile_timeout"}
    BY <1>2, <1>3 DEF Boxes, BoxStates, Marks
  <2>2. box' = [box EXCEPT !["oracle"] = after] /\ Live("oracle")
    BY <1>2, <1>6 DEF CompileExpires, Live
  <2> HIDE DEF after
  <2>3. SoundBox("oracle", after) BY <2>1 DEF SoundBox, SoundEnd
  <2> QED BY <1>2, <1>4, <2>1, <2>2, <2>3
<1>7. CASE WatchdogMarks
  <2> DEFINE after == [box["oracle"] EXCEPT !.marks = @ \cup {"run_timeout"}]
  <2>1. Live("oracle") /\ box["oracle"].state = "run" /\ box["oracle"].by = "none"
    BY <1>2, <1>7 DEF WatchdogMarks, Live, SoundBox
  <2>2. after \in Boxes /\ after.state = "run" /\ after.by = "none"
    BY <1>2, <2>1 DEF Boxes, BoxStates, Marks
  <2>3. box' = [box EXCEPT !["oracle"] = after]
    BY <1>2, <1>7 DEF WatchdogMarks
  <2> HIDE DEF after
  <2> QED BY <1>2, <1>4, <2>1, <2>2, <2>3 DEF SoundBox
<1>8. CASE WatchdogKills
  <2>1. Live("oracle") /\ "run_timeout" \in box["oracle"].marks
        /\ Ended("oracle", "watchdog", KILLED)
    BY <1>8 DEF WatchdogKills, Live
  <2> QED BY <1>2, <1>3, <2>1, EndedMoves DEF SoundEnd
<1>9. CASE ProgramRuns
  <2>1. PICK l \in Lanes :
          /\ box[l].state = "run"
          /\ \/ \E e \in ProgramExits :
                  box' = [box EXCEPT ![l] = [@ EXCEPT !.state = "ended", !.by = "itself",
                                                      !.exit = e, !.wrote = "whole"]]
             \/ l = "oracle" /\ Ended(l, "libcob", 1)
             \/ Ended(l, "kernel", KILLED)
    BY <1>9 DEF ProgramRuns
  <2>2. Live(l) BY <2>1 DEF Live
  <2>3. ASSUME NEW e \in ProgramExits,
               box' = [box EXCEPT ![l] = [@ EXCEPT !.state = "ended", !.by = "itself",
                                                   !.exit = e, !.wrote = "whole"]]
        PROVE  BoxesMoved
    <3> DEFINE after == [box[l] EXCEPT !.state = "ended", !.by = "itself", !.exit = e,
                                       !.wrote = "whole"]
    <3>1. /\ after \in Boxes /\ after.state = "ended" /\ after.by = "itself"
          /\ after.wrote = "whole"
      BY <1>2 DEF Boxes, BoxStates, Endings
    <3>2. box' = [box EXCEPT ![l] = after] BY <1>2, <2>3
    <3> HIDE DEF after
    <3>3. SoundBox(l, after) BY <3>1 DEF SoundBox, SoundEnd
    <3> QED BY <1>4, <2>2, <3>1, <3>2, <3>3
  <2>4. PICK status \in Int : status = 1 OBVIOUS
  <2>5. CASE l = "oracle" /\ Ended(l, "libcob", 1)
    BY <1>3, <2>2, <2>4, <2>5, EndedMoves DEF SoundEnd
  <2>6. CASE Ended(l, "kernel", KILLED)
    BY <1>3, <2>2, <2>6, EndedMoves DEF SoundEnd
  <2> QED BY <2>1, <2>3, <2>5, <2>6
<1> QED BY <1>5, <1>6, <1>7, <1>8, <1>9

\* Every step keeps the invariant.
LEMMA WholeStep ==
  ASSUME WholeInvariant, [ContainersNext]_containerVars PROVE WholeInvariant'
<1>1. ImagesInvariant' BY ImagesStep DEF WholeInvariant
<1>2. CASE UNCHANGED containerVars
  BY <1>1, <1>2, MovesKeepWhole DEF containerVars, BoxesMoved
<1>3. CASE \/ Retag \/ Construct \/ ResolveOracle \/ CheckCompiler
           \/ ResolveSpring \/ ResolveJava
           \/ StageOracleFails \/ StageBuildFails \/ StageExecFails \/ ProcessDies
  BY <1>1, <1>3, BeforeKeepsWhole
<1>4. CASE DockerRun \/ ClientReturns \/ Cleanup \/ Collect
  BY <1>1, <1>4, DockerRunKeepsWhole, ClientReturnsKeepsWhole, CleanupKeepsWhole,
     CollectKeepsWhole
<1>5. CASE CompileEnds \/ CompileExpires \/ WatchdogMarks \/ WatchdogKills \/ ProgramRuns
  BY <1>1, <1>5, ProgramsKeepWhole
<1> QED BY <1>2, <1>3, <1>4, <1>5 DEF ContainersNext

\* What is compared is a whole execution: the container ended by itself, with
\* that exit code, and all it wrote was read, except for the two ends Docker
\* does not let the adapters tell apart (run_container, compile,
\* oracle_shell_command).
THEOREM ComparedAreWhole == ContainersSpec => []ComparedIsWhole
<1>1. ContainersInit => WholeInvariant BY WholeInit
<1>2. WholeInvariant /\ [ContainersNext]_containerVars => WholeInvariant'
  BY WholeStep
<1>3. WholeInvariant => ComparedIsWhole BY WholeIsCompared DEF WholeInvariant
<1> QED BY <1>1, <1>2, <1>3, PTL DEF ContainersSpec
===============================================================================
