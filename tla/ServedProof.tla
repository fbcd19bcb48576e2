----------------------------- MODULE ServedProof -----------------------------
\* What the API serves of one modernization run: its verdict, comparisons,
\* report and integrated proof (api/service.py, api/serialization.py,
\* engine/modernization/integrated_proof.py), while workers validate the run
\* again, processes restart, a newer upload deletes the source and stored
\* bytes decay.
\*
\* A value that may be absent is a set of at most one element.
EXTENDS EvidenceIntegrity

CONSTANTS
  Reports,       \* what the modernization pipeline may report of the application
  Sources,       \* the source trees it may be given
  Worlds,        \* what an execution of oracle and candidate may be like
  MaxGeneration  \* bound on the revalidations of the run

\* What differs between two executions is an artifact that was declared, and so
\* compared; the analysis grades a component by one of five levels.
ASSUME WorldsAssumption ==
  /\ Worlds \subseteq
       [contract : SUBSET DOMAIN CANONICAL_COMPARATOR_IDS,
        differ : SUBSET DOMAIN CANONICAL_COMPARATOR_IDS,
        oracle : {"normal", "return_code", "nonzero_exit", "error", "timeout"},
        candidate : {"normal", "nonzero_exit", "error", "timeout"},
        built : BOOLEAN, moved : BOOLEAN, rewritten : BOOLEAN]
  /\ \A w \in Worlds : w.differ \subseteq w.contract
ASSUME ReportsAssumption ==
  \A report \in Reports : \A c \in report :
    c.level \in {"SUPPORTED", "PARTIAL", "UNKNOWN", "UNAVAILABLE", "UNSUPPORTED"}
ASSUME GenerationsAssumption == MaxGeneration \in Nat

VARIABLES
  row,       \* the run's row in the store
  workers,   \* the background worker of each generation, with its own copy
  validated, \* the source tree the run was made from
  present,   \* is that tree still on disk?
  attempts,  \* the executions there really were, by generation
  blind      \* the generations whose validation looked for a source that was gone

servingVars == <<row, workers, validated, present, attempts, blind>>

The(S) == CHOOSE x \in S : TRUE
Generations == 0..MaxGeneration

-----------------------------------------------------------------------------
\* Persistence (api/serialization.py).  A stored payload is an envelope around
\* fields; the evidence also carries its seal.

SCHEMA_EVIDENCE == "evidence-manifest"
SCHEMA_VERDICT == "verdict"
CURRENT_SCHEMA_VERSION == 1

encode_envelope(schema, fields) ==
  [schema |-> schema, version |-> CURRENT_SCHEMA_VERSION, whole |-> TRUE, payload |-> fields]

\* The envelope is JSON of this schema and version.
decode_envelope(raw, schema) == raw.schema = schema /\ raw.version = CURRENT_SCHEMA_VERSION
\* Every field is there, with its type.
decode_fields(raw) == raw.whole

\* A manifest whose seal is stale is not written; the write then raises.
encode_evidence_manifest(e) ==
  {encode_envelope(SCHEMA_EVIDENCE, f) : f \in {x \in {e} : x.seal = x.graph}}
\* The manifest is constructed anew, which seals it anew: the stored seal has
\* to be the same.
decode_evidence_manifest(raw) ==
  /\ decode_envelope(raw, SCHEMA_EVIDENCE) /\ decode_fields(raw)
  /\ sealed(raw.payload.graph).seal = raw.payload.seal
encode_verdict(v) == encode_envelope(SCHEMA_VERDICT, v)
decode_verdict(raw) ==
  decode_envelope(raw, SCHEMA_VERDICT) /\ decode_fields(raw) /\ raw.payload.state \in VerdictStates

\* _run_params and _run_from_row: a record, and the row it is stored as.
Stored(r) ==
  [r EXCEPT !.evidence = UNION {encode_evidence_manifest(e) : e \in @},
            !.verdict = {encode_verdict(v) : v \in @}]
Readable(stored) ==
  (\A raw \in stored.evidence : decode_evidence_manifest(raw))
    /\ \A raw \in stored.verdict : decode_verdict(raw)
Loaded(stored) ==
  [stored EXCEPT !.evidence = {raw.payload : raw \in @}, !.verdict = {raw.payload : raw \in @}]

-----------------------------------------------------------------------------
\* The source tree, as the lanes without a runtime see it.  A member is a file
\* with an EXEC block of a lane, naming a resource or not; cobol: by suffix or
\* content the edge extractors take it for a program.

Lanes == {"MQI", "DLI", "SQL", "CICS"}

\* _jcl_status_for_source
jcl_status_for_source(there) == IF there THEN validated.jcl ELSE "NOT_PRESENT"

EdgeKind == [MQI |-> "MQ", DLI |-> "IMS", SQL |-> "DB2", CICS |-> "CICS"]
Edge(m) == {[id |-> <<m.lane, m.names>>, kind |-> EdgeKind[m.lane],
             level |-> "UNSUPPORTED", proof_state |-> "BLOCKED"]}
extract_external_dependency_entries(m) ==
  IF m.lane \in {"MQI", "DLI"} /\ m.names THEN Edge(m) ELSE {}
\* SQL that names no table is an entry too.
extract_db2_dependency_entries(m) == IF m.lane = "SQL" THEN Edge(m) ELSE {}
extract_cics_dependency_entries(m) == IF m.lane = "CICS" /\ m.names THEN Edge(m) ELSE {}
external_dependency_entries_for_source(there) ==
  UNION {extract_external_dependency_entries(m) \cup extract_db2_dependency_entries(m)
           \cup extract_cics_dependency_entries(m) :
         m \in {x \in validated.members : there /\ x.cobol}}

\* The effects no comparator observes: EXEC MQI is not one of the patterns.
unobserved_effects(there) ==
  there /\ \E m \in validated.members : m.lane # "MQI"

-----------------------------------------------------------------------------
\* The dependency ledger and the central gate (integrated_proof.py)

NON_RUNTIME_KINDS == {"JCL", "DB2", "CICS"}
KnownKinds == {"PROGRAM", "COPYBOOK", "CALL", "FILE", "PARAMETER", "MQ", "IMS"}
                \cup NON_RUNTIME_KINDS
FILE_ARTIFACT_TYPES == {"TEXT_FILE", "FIXED_RECORD"}

\* Completeness and integrity are looked at again, not taken from the verdict.
runtime_evidence(evidence, verdict) ==
  [state    |-> IF verdict = {} THEN "NOT_RUN" ELSE The(verdict).state,
   checks   |-> IF verdict = {} THEN 0 ELSE The(verdict).checks,
   complete |-> \E e \in evidence : is_complete(e.graph),
   valid    |-> \E e \in evidence : Admitted(e),
   results  |-> UNION {{<<c.type, c.result>> : c \in e.graph.comparisons} : e \in evidence}]

proof_state_for(kind, level, runtime) ==
  LET files == {r \in runtime.results : r[1] \in FILE_ARTIFACT_TYPES}
  IN IF kind \notin KnownKinds \/ level \in {"UNSUPPORTED", "UNAVAILABLE"} THEN "BLOCKED"
     ELSE IF level \in {"PARTIAL", "UNKNOWN"} \/ kind \in NON_RUNTIME_KINDS THEN "PARTIAL"
     ELSE IF runtime.state = "NOT_RUN" THEN "UNPROVEN"
     ELSE IF \/ runtime.state # "VERIFIED" \/ ~runtime.complete \/ ~runtime.valid
             \/ kind = "FILE" /\ (files = {} \/ \E r \in files : r[2] # "MATCH")
     THEN "PARTIAL"
     ELSE "PROVEN"

jcl_ledger_entry(status) ==
  [id |-> <<"JCL", status>>, kind |-> "JCL",
   level |-> IF status = "FULL" THEN "PARTIAL" ELSE "UNSUPPORTED",
   proof_state |-> IF status = "FULL" THEN "PARTIAL" ELSE "BLOCKED"]

build_dependency_ledger(components, runtime, extra, jcl_status) ==
  {[id |-> <<c.kind, c.id>>, kind |-> c.kind, level |-> c.level,
    proof_state |-> proof_state_for(c.kind, c.level, runtime)] : c \in components}
  \cup extra
  \cup (IF jcl_status = "NOT_PRESENT" THEN {} ELSE {jcl_ledger_entry(jcl_status)})

evaluate_central_status(ledger, runtime, generated) ==
  IF /\ generated
     /\ runtime.state = "VERIFIED" /\ runtime.complete /\ runtime.valid
     /\ runtime.checks > 0
     /\ ledger # {} /\ \A e \in ledger : e.proof_state = "PROVEN"
  THEN "VERIFIED" ELSE "NOT_VERIFIED"

\* _report_facade and _proof_payload.  stamp is the generation the payload was
\* computed for; one computed for an answer has none.
proof_payload(report, runtime, jcl_status, extra, stamp) ==
  LET ledger == build_dependency_ledger(report.components, runtime, extra, jcl_status)
  IN [central |-> evaluate_central_status(ledger, runtime, report.generated),
      ledger |-> ledger, stamp |-> stamp]
NoStamp == MaxGeneration + 1

-----------------------------------------------------------------------------
\* One validation: what VerticalSlicePipeline.run makes of its executions.

execution(g, role, status, phase, image, changed) ==
  [id |-> <<g, role>>, role |-> role, run |-> g, workload |-> "W", status |-> status,
   phase |-> phase, image |-> image, before |-> "tree",
   after |-> IF changed THEN "changed" ELSE "tree"]

\* The artifacts the contract declares, and the marker of unobserved effects.
artifact_types(w, effects) == w.contract \cup (IF effects THEN {"EFFECTS"} ELSE {})

manifest(g, w, effects) ==
  [run |-> g, workload |-> "W", source |-> "S", candidate_source |-> "S", image |-> "claimed",
   executions |->
     {execution(g, "oracle", w.oracle, "EXECUTE", IF w.moved THEN "other" ELSE "claimed", FALSE),
      execution(g, "candidate", w.candidate,
                IF w.built THEN "EXECUTE" ELSE "BUILD", "none", w.rewritten)},
   artifacts |->
     {[id |-> <<g, role, t>>, type |-> t, execution |-> <<g, role>>,
       role |-> IF role = "oracle" THEN "ORACLE" ELSE "CANDIDATE"] :
        role \in {"oracle", "candidate"}, t \in artifact_types(w, effects)},
   comparisons |->
     {[type |-> t, run |-> g, workload |-> "W",
       oracle |-> <<g, "oracle", t>>, candidate |-> <<g, "candidate", t>>,
       comparator |-> IF t = "EFFECTS" THEN "unobserved-effect"
                      ELSE CANONICAL_COMPARATOR_IDS[t],
       differs |-> t \in w.differ \cup {"EFFECTS"},
       result |-> IF t = "EFFECTS" THEN "INCONCLUSIVE"
                  ELSE IF t \in w.differ THEN "MISMATCH" ELSE "MATCH"] :
        t \in artifact_types(w, effects)}]

\* The two programs really behaved the same, in the way the run certifies.
Equivalent(w) ==
  /\ w.oracle \in {"normal", "return_code"} /\ w.built
  /\ w.candidate \in {"normal", "nonzero_exit"}
  /\ w.differ = {} /\ ~w.moved /\ ~w.rewritten
  /\ w.oracle = "return_code" \/ w.candidate = "nonzero_exit" => "EXIT_STATUS" \in w.contract

-----------------------------------------------------------------------------
\* The run and its workers (Service._modernize_background,
\* _revalidate_background, _run_validation; Store.update_run)

Terminal == {"COMPLETED", "FAILED"}
Record(gen, stage) ==
  [gen |-> gen, stage |-> stage, evidence |-> {}, verdict |-> {}, report |-> {}]
NoWorker == [phase |-> "none", copy |-> Record(0, "CREATED")]

ServingInit ==
  /\ row = Record(0, "CREATED")
  /\ workers = [g \in Generations |->
                  IF g = 0 THEN [phase |-> "generate", copy |-> Record(0, "CREATED")]
                  ELSE NoWorker]
  /\ validated \in Sources /\ present = TRUE
  /\ attempts = [g \in Generations |-> {}] /\ blind = {}

\* update_run: the generation is the row's and the stage may follow its stage.
Lands(copy) ==
  /\ copy.gen = row.gen
  /\ row.stage \notin Terminal \/ copy.stage = row.stage
update_run(copy) == row' = IF Lands(copy) THEN Stored(copy) ELSE row

Worker(g, phase, copy) == workers' = [workers EXCEPT ![g] = [phase |-> phase, copy |-> copy]]

\* The source is looked at as it is now.
Looks(g) == blind' = blind \cup (IF present THEN {} ELSE {g})

\* The pipeline's report goes into the copy and, with the next stage, the row.
\* A source that is gone has no program to generate from.
Generate(g) ==
  /\ workers[g].phase = "generate" /\ present
  /\ \E report \in Reports :
       LET c == [workers[g].copy EXCEPT !.stage = "RUNNING",
                   !.report = {[components |-> report, generated |-> TRUE,
                                proof |-> {}, jcl |-> {}]}]
       IN Worker(g, "execute", c) /\ update_run(c)
  /\ UNCHANGED <<validated, present, attempts, blind>>

\* The two executions.  The oracle copies the source first, and ends in an
\* error when it is gone; a deletion before it hashes the source again is a tree
\* rewritten under it.
Execute(g) ==
  /\ workers[g].phase = "execute"
  /\ \E w \in Worlds :
       /\ ~present => w.oracle = "error"
       /\ attempts' = [attempts EXCEPT ![g] = {w}]
  /\ LET c == [workers[g].copy EXCEPT !.stage = "RUNNING"]
     IN Worker(g, "observe", c) /\ update_run(c)
  /\ UNCHANGED <<validated, present, blind>>

\* After them: the unobserved effects in the source as it is by then, the
\* evidence and the verdict, all into the copy only.
Observe(g) ==
  /\ workers[g].phase = "observe"
  /\ LET e == sealed(manifest(g, The(attempts[g]), unobserved_effects(present)))
     IN Worker(g, "prove", [workers[g].copy EXCEPT !.evidence = {e}, !.verdict = {verdict_of(e)}])
  /\ Looks(g)
  /\ UNCHANGED <<row, validated, present, attempts>>

\* _persist_integrated_proof, from the source as it is now.
PersistProof(g) ==
  /\ workers[g].phase = "prove"
  /\ LET c == workers[g].copy
         status == jcl_status_for_source(present)
         proof == proof_payload(The(c.report), runtime_evidence(c.evidence, c.verdict), status,
                    external_dependency_entries_for_source(present), c.gen)
     IN Worker(g, "save", [c EXCEPT !.report = {[r EXCEPT !.proof = {proof}, !.jcl = {status}] :
                                                  r \in c.report}])
  /\ Looks(g)
  /\ UNCHANGED <<row, validated, present, attempts>>

\* The end of _run_validation, and then the terminal stage.  A refused write
\* of the former fails the run.
SaveValidation(g) ==
  /\ workers[g].phase = "save"
  /\ Lands(workers[g].copy)
  /\ update_run(workers[g].copy)
  /\ Worker(g, "finish", workers[g].copy)
  /\ UNCHANGED <<validated, present, attempts, blind>>

Finish(g) ==
  /\ workers[g].phase = "finish"
  /\ update_run([workers[g].copy EXCEPT !.stage = "COMPLETED"])
  /\ Worker(g, "none", NoWorker.copy)
  /\ UNCHANGED <<validated, present, attempts, blind>>

\* Any step may raise: the run is FAILED with what the copy holds by then.
Fail(g) ==
  /\ workers[g].phase # "none"
  /\ update_run([workers[g].copy EXCEPT !.stage = "FAILED"])
  /\ Worker(g, "none", NoWorker.copy)
  /\ UNCHANGED <<validated, present, attempts, blind>>

\* Service.revalidate and Store.begin_revalidation: the report stays, with the
\* proof of the attempt before.
Revalidate ==
  /\ row.stage \in Terminal /\ row.gen < MaxGeneration
  /\ present /\ row.report # {} /\ Readable(row)
  /\ row' = [row EXCEPT !.gen = @ + 1, !.stage = "CREATED", !.evidence = {}, !.verdict = {}]
  /\ Worker(row.gen + 1, "execute", Loaded(row'))
  /\ UNCHANGED <<validated, present, attempts, blind>>

\* Store.mark_interrupted_runs at a start of the service.  With a second
\* process the worker may go on.
Interrupt ==
  /\ row.stage \notin Terminal
  /\ row' = [row EXCEPT !.stage = "FAILED"]
  /\ workers' \in {workers, [g \in Generations |-> NoWorker]}
  /\ UNCHANGED <<validated, present, attempts, blind>>

\* A newer upload deletes the tree.  Its _refuse_while_run_active comes before
\* it has written the new one: a run may be created in between, and be at any
\* step by the time the old tree is deleted.
Reingest ==
  /\ present
  /\ present' = FALSE
  /\ UNCHANGED <<row, workers, validated, attempts, blind>>

\* Stored evidence decays: cut off, of another version, or changed under its seal.
Decay ==
  /\ \E raw \in row.evidence :
       row' \in {[row EXCEPT !.evidence = {[raw EXCEPT !.whole = FALSE]}],
                 [row EXCEPT !.evidence = {[raw EXCEPT !.version = 2]}],
                 [row EXCEPT !.evidence =
                    {[raw EXCEPT !.payload.graph.comparisons =
                        {[c EXCEPT !.result = "MATCH", !.differs = FALSE] : c \in @}]}]}
  /\ row' # row /\ Readable(row)
  /\ UNCHANGED <<workers, validated, present, attempts, blind>>

-----------------------------------------------------------------------------
\* Requests (api/app.py, the queries of api/service.py)

\* A verdict goes with the evidence it was derived from, and VERIFIED with some.
check_evidence_verdict_consistency(r) ==
  \A v \in r.verdict :
    IF r.evidence = {} THEN v.state # "VERIFIED" ELSE \E e \in r.evidence : v.hash = e.graph
require_valid_evidence(r) == \A e \in r.evidence : Admitted(e)
gate_served_verdict(r) ==
  /\ check_evidence_verdict_consistency(r)
  /\ (\E v \in r.verdict : v.state = "VERIFIED") => require_valid_evidence(r)

\* Mutant of current_integrated_proof: a stored proof is served as it is.
current_integrated_proof_cached(r, there) ==
  UNION {IF p.proof # {} THEN p.proof
         ELSE {proof_payload(p, runtime_evidence(r.evidence, r.verdict), "NOT_PRESENT", {}, NoStamp)} :
         p \in r.report}

\* _current_integrated_proof: the stored proof if it is of this generation,
\* otherwise one computed now, with the JCL status found by then.
current_integrated_proof(r, there) ==
  UNION {IF \E q \in p.proof : q.stamp = r.gen THEN p.proof
         ELSE {proof_payload(p, runtime_evidence(r.evidence, r.verdict),
                 IF p.jcl # {} THEN The(p.jcl) ELSE jcl_status_for_source(there),
                 external_dependency_entries_for_source(there), NoStamp)} :
         p \in r.report}

Answer(r, there, proof) ==
  [state |-> {v.state : v \in r.verdict}, there |-> there, proof |-> proof]
run_verdict_state(r, there) == {Answer(r, there, {})}
get_verdict(r, there) == IF r.verdict = {} THEN {} ELSE {Answer(r, there, {})}
\* get_run_report and get_integrated_proof: of a run that has a report.
served_proof(r, there) ==
  IF r.report = {} THEN {} ELSE {Answer(r, there, current_integrated_proof(r, there))}

\* A request reads and decodes the row, and a row that does not decode is an
\* error.  By the time it looks for the source, the source may be gone.
Answers ==
  IF Readable(row) /\ gate_served_verdict(Loaded(row))
  THEN UNION {run_verdict_state(Loaded(row), there) \cup get_verdict(Loaded(row), there)
                \cup served_proof(Loaded(row), there) : there \in {present, FALSE}}
  ELSE {}

ServingNext ==
  \/ \E g \in Generations :
       \/ Generate(g) \/ Execute(g) \/ Observe(g) \/ PersistProof(g)
       \/ SaveValidation(g) \/ Finish(g) \/ Fail(g)
  \/ Revalidate \/ Interrupt \/ Reingest \/ Decay

ServingSpec == ServingInit /\ [][ServingNext]_servingVars

-----------------------------------------------------------------------------
\* Properties

\* No JCL, no statement of DB2 or CICS and no queue or segment named by a program.
InRuntimeLane ==
  /\ validated.jcl = "NOT_PRESENT"
  /\ \A m \in validated.members : m.lane = "MQI" /\ ~(m.cobol /\ m.names)

\* The source was there when the validation of the row's attempt looked for it,
\* or is there still.
SourceSeen == present \/ row.gen \notin blind

\* A verdict that any view shows as VERIFIED is of the attempt the row is in,
\* whose two executions really were equivalent, and had no unobserved effect in
\* a source that was seen: no late worker, failed build, moved image, rewritten
\* source or decayed evidence gets there (_gate_served_verdict).
ServedVerdictIsBacked ==
  \A a \in Answers : "VERIFIED" \in a.state =>
    /\ \E w \in attempts[row.gen] :
         Equivalent(w) /\ \E e \in row.evidence : e.payload.graph.run = row.gen
    /\ SourceSeen => \A m \in validated.members : m.lane = "MQI"

\* An answer in which the application is VERIFIED as a whole has been earned by
\* the attempt the row is in: its verdict is VERIFIED, every declared component
\* is of a known kind and supported, a declared file was compared, and nothing
\* in the validated source is outside the runtime lane
\* (_current_integrated_proof, "the gate can only downgrade").  The last is
\* said of the source that was seen by the answer or, unless the run FAILED, by
\* the validation: a proof made of a source that an upload had deleted finds no
\* JCL and no edges, and can be VERIFIED whatever the source declared.
ServedProofIsEarned ==
  \A a \in Answers : \A p \in a.proof : p.central = "VERIFIED" =>
    /\ "VERIFIED" \in a.state
    /\ \E w \in attempts[row.gen] :
         /\ Equivalent(w)
         /\ (\E r \in row.report : \E c \in r.components : c.kind = "FILE")
              => w.contract \cap FILE_ARTIFACT_TYPES # {}
    /\ \A r \in row.report :
         r.components # {} /\ \A c \in r.components : c.level = "SUPPORTED" /\ c.kind \in KnownKinds
    /\ a.there \/ (row.stage # "FAILED" /\ SourceSeen) => InRuntimeLane
=============================================================================
