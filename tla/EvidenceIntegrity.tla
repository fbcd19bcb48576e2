------------------------- MODULE EvidenceIntegrity -------------------------
\* The evidence manifest of one validation, the admission layer between raw
\* evidence and the verdict (engine/evidence/integrity.py), and what the verdict
\* derivation makes of evidence that passed or failed it.
\*
\* A manifest is a record of the evidence graph: the attempt and workload it is
\* for, the hash of the source and the one the candidate was generated from, the
\* oracle image, and the sets of executions, artifacts and comparisons. A hash
\* is the thing hashed; a stored manifest is [graph, seal].
EXTENDS Naturals, FiniteSets

\* One comparator per artifact type: an identifier is its type, aliases resolved.
CANONICAL_COMPARATOR_IDS ==
  [t \in {"STDOUT", "STDERR", "EXIT_STATUS", "TEXT_FILE", "FIXED_RECORD",
          "BUSINESS_INVARIANT"} |-> t]

KNOWN_COMPARISON_RESULTS == {"MATCH", "MISMATCH", "INCONCLUSIVE"}

Of(m, role) == {e \in m.executions : e.role = role}
ExecutionIds(m) == {e.id : e \in m.executions}
ArtifactIds(m) == {a.id : a \in m.artifacts}

\* ------------------------------------------------------------------ admission

validate_run_bindings(m) ==
  /\ \A e \in m.executions : e.run = m.run
  /\ \A a \in m.artifacts : \E e \in m.executions : e.id = a.execution /\ e.run = m.run
  /\ \A c \in m.comparisons : c.run = m.run

validate_workload_bindings(m) ==
  /\ \A e \in m.executions : e.workload = m.workload
  /\ \A c \in m.comparisons : c.workload = m.workload

validate_source_candidate_binding(m) == m.candidate_source = m.source

\* An execution that recorded no image proves nothing here.
validate_oracle_binding(m) ==
  \A e \in Of(m, "oracle") : e.image # "none" => e.image = m.image

validate_artifact_execution_binding(m) ==
  \A a \in m.artifacts : a.execution \in ExecutionIds(m)

comparison_pairing(c, m) ==
  /\ c.oracle # c.candidate
  /\ \A a \in m.artifacts :
       /\ a.id = c.oracle => a.role = "ORACLE" /\ a.type = c.type
       /\ a.id = c.candidate => a.role = "CANDIDATE" /\ a.type = c.type
  /\ c.result = "MATCH" => ~c.differs

validate_comparison_artifact_binding(m) ==
  \A c \in m.comparisons :
    /\ {c.oracle, c.candidate} \subseteq ArtifactIds(m)
    /\ comparison_pairing(c, m)

validate_comparator_binding(m) ==
  \A c \in m.comparisons :
    c.type \in DOMAIN CANONICAL_COMPARATOR_IDS
      => c.comparator = CANONICAL_COMPARATOR_IDS[c.type]

validate_comparison_results(m) ==
  \A c \in m.comparisons : c.result \in KNOWN_COMPARISON_RESULTS

validate_source_mutation(m) == \A e \in m.executions : e.before = e.after

\* When a nonzero exit is the behaviour certified it has to be compared.
validate_exit_status_completeness(m) ==
  (\E e \in m.executions : \/ e.role = "candidate" /\ e.status = "nonzero_exit"
                           \/ e.role = "oracle" /\ e.status = "return_code")
    => /\ \E a \in m.artifacts : a.type = "EXIT_STATUS"
       /\ \E c \in m.comparisons : c.type = "EXIT_STATUS"

\* Mutant of validate_required_evidence: a build failure counts as a run.
validate_required_evidence_built(m) ==
  /\ Of(m, "oracle") # {} /\ Of(m, "candidate") # {}
  /\ m.comparisons # {}

validate_required_evidence(m) ==
  /\ Of(m, "oracle") # {}
  /\ \E e \in Of(m, "candidate") : e.phase = "EXECUTE"
  /\ \A role \in {"oracle", "candidate"} :
       \E a \in m.artifacts, e \in Of(m, role) : a.execution = e.id
  /\ \A a \in m.artifacts : \E c \in m.comparisons : a.id \in {c.oracle, c.candidate}
  /\ m.comparisons # {}

\* EvidenceIntegrityValidator.validate finds no violation in a stored manifest.
Admitted(e) ==
  /\ validate_run_bindings(e.graph)
  /\ validate_workload_bindings(e.graph)
  /\ validate_source_candidate_binding(e.graph)
  /\ validate_oracle_binding(e.graph)
  /\ validate_artifact_execution_binding(e.graph)
  /\ validate_comparison_artifact_binding(e.graph)
  /\ validate_comparator_binding(e.graph)
  /\ validate_comparison_results(e.graph)
  /\ validate_source_mutation(e.graph)
  /\ validate_exit_status_completeness(e.graph)
  /\ e.seal = e.graph
  /\ validate_required_evidence(e.graph)

\* EvidenceManifest.__post_init__: the seal of the graph as constructed.
sealed(m) == [graph |-> m, seal |-> m]

\* ------------------------------------------------------------------- verdict

VerdictStates == {"VERIFIED", "FAILED", "PARTIAL", "UNPROVEN", "UNAVAILABLE",
                  "UNSUPPORTED", "ERROR"}

is_complete(m) ==
  /\ \A role \in {"oracle", "candidate"} :
       \E e \in Of(m, role) : e.status \notin {"error", "timeout"}
  /\ m.artifacts # {}
  /\ m.comparisons # {}

SUPPORTED_TYPES == {"STDOUT", "STDERR", "EXIT_STATUS", "TEXT_FILE", "FIXED_RECORD",
                    "BUSINESS_INVARIANT"}

Results(m) == {c.result : c \in m.comparisons}

check_for_errors(m) == \E e \in m.executions : e.status \in {"error", "timeout"}

check_for_unavailable(m) ==
  \/ Of(m, "oracle") = {} \/ Of(m, "candidate") = {}
  \/ \E e \in Of(m, "oracle") : e.status \in {"error", "timeout", "nonzero_exit"}
  \/ \E e \in Of(m, "candidate") : e.status \in {"error", "timeout"}

check_for_unsupported(m) == \E a \in m.artifacts : a.type \notin SUPPORTED_TYPES

derive(m) ==
  IF check_for_errors(m) THEN "ERROR"
  ELSE IF check_for_unavailable(m) THEN "UNAVAILABLE"
  ELSE IF check_for_unsupported(m) THEN "UNSUPPORTED"
  ELSE IF ~is_complete(m) THEN "UNPROVEN"
  ELSE IF Results(m) \ KNOWN_COMPARISON_RESULTS # {} THEN "ERROR"
  ELSE IF "MISMATCH" \in Results(m) THEN "FAILED"
  ELSE IF "INCONCLUSIVE" \in Results(m) THEN "PARTIAL"
  ELSE "VERIFIED"

\* Verdict.state with the hash of the evidence it was derived from and the
\* number of checks that were executed. Evidence that was not admitted can claim
\* anything but VERIFIED.
verdict_of(e) ==
  [state |-> IF derive(e.graph) = "VERIFIED" /\ ~Admitted(e)
             THEN "ERROR" ELSE derive(e.graph),
   hash |-> e.graph,
   checks |-> IF derive(e.graph) = "VERIFIED" /\ ~Admitted(e)
              THEN 0 ELSE Cardinality(e.graph.comparisons)]
=============================================================================
