------------------------- MODULE ServedProof_proofs -------------------------
(***************************************************************************)
(* What the API serves of a run as VERIFIED has been earned by the attempt *)
(* the run is in, for every number of revalidations, every source tree,    *)
(* every report and every world the executions may be in.                  *)
(*                                                                         *)
(* The argument follows one attempt from its worker to the row.  What a    *)
(* worker holds was derived from the execution of its own generation and   *)
(* from the source as it was then; only it can put that into the row while *)
(* the row is in its generation.  The source may go away at any step, but  *)
(* never comes back: while it is there, and if it was there when it was    *)
(* looked for, what was derived from it was derived from the tree the run  *)
(* was made from.  What decays in the store no longer decodes, and is not  *)
(* served.                                                                 *)
(***************************************************************************)
EXTENDS ServedProof, TLAPS

Phases == {"none", "generate", "execute", "observe", "prove", "save", "finish"}
Stages == {"CREATED", "RUNNING", "COMPLETED", "FAILED"}

\* The evidence of generation g: its executions, and whether the source that
\* was looked at for unobserved effects was there.
EvidenceOf(g, w, there) == sealed(manifest(g, w, unobserved_effects(there)))
ProofOf(r, p, there) ==
  proof_payload(p, runtime_evidence(r.evidence, r.verdict), jcl_status_for_source(there),
                external_dependency_entries_for_source(there), r.gen)

\* A record holds the evidence and the verdict of an execution of its
\* generation, or neither.
Executed(r, there) ==
  \/ r.evidence = {} /\ r.verdict = {}
  \/ \E w \in attempts[r.gen] : /\ r.evidence = {EvidenceOf(r.gen, w, there)}
                                /\ r.verdict = {verdict_of(EvidenceOf(r.gen, w, there))}

HasReport(r) ==
  r.report = {} \/ \E p \in r.report :
    /\ r.report = {p} /\ p.components \in Reports
    /\ p = [components |-> p.components, generated |-> p.generated, proof |-> p.proof,
            jcl |-> p.jcl]

\* A proof that is stamped with the generation of the record is the one that
\* follows from the rest of the record.
Proved(r, there) ==
  \A p \in r.report :
    (\E q \in p.proof : q.stamp = r.gen) => p.proof = {ProofOf(r, p, there)}
Stamped(r) == \A p \in r.report : \E q \in p.proof : q.stamp = r.gen
NotAhead(r) == \A p \in r.report : \A q \in p.proof : q.stamp \in Nat /\ q.stamp <= r.gen

\* While the source is there, whatever was read from it was read from it.
SourceKept(r) == present => \A p \in r.report : p.jcl \subseteq {validated.jcl}

\* before and after: the source was there for the evidence and for the proof.
Backed(r, before, after) ==
  /\ Executed(r, before) /\ Proved(r, after)
  /\ present \/ r.gen \notin blind => before /\ after

CopyIsBacked(r) ==
  /\ HasReport(r) /\ NotAhead(r) /\ SourceKept(r)
  /\ \E before, after \in BOOLEAN : Backed(r, before, after)

\* A row that is not FAILED shows a verdict only with its proof.
RowIsBacked(r) ==
  /\ \E before, after \in BOOLEAN : Backed(r, before, after)
  /\ r.stage # "FAILED" /\ r.verdict # {} => Stamped(r)

IsRecord(r) ==
  r = [gen |-> r.gen, stage |-> r.stage, evidence |-> r.evidence, verdict |-> r.verdict,
       report |-> r.report]

RowInv ==
  /\ IsRecord(row)
  /\ row.gen \in Generations /\ row.stage \in Stages
  /\ HasReport(row) /\ NotAhead(row) /\ SourceKept(row)
  /\ Readable(row) => /\ row = Stored(Loaded(row))
                      /\ RowIsBacked(Loaded(row))

\* The worker of generation g.
WorkerInv(g) ==
  LET c == workers[g].copy IN
  workers[g].phase # "none" =>
    /\ IsRecord(c) /\ c.gen = g /\ g <= row.gen /\ c.stage \in {"CREATED", "RUNNING"}
    /\ row.gen = g => row.stage # "COMPLETED"
    /\ CopyIsBacked(c)
    /\ workers[g].phase \in {"generate", "execute", "observe"} =>
         /\ c.evidence = {} /\ c.verdict = {}
         /\ row.gen = g => row.evidence = {} /\ row.verdict = {}
    /\ workers[g].phase \in {"generate", "execute"} => attempts[g] = {}
    /\ workers[g].phase = "observe" => attempts[g] # {}
    /\ workers[g].phase = "generate" => c.report = {}
    /\ workers[g].phase # "generate" => c.report # {}
    /\ workers[g].phase \in {"execute", "observe", "prove"} =>
         \A p \in c.report : \A q \in p.proof : q.stamp # g
    /\ workers[g].phase \in {"prove", "save", "finish"} => c.verdict # {}
    /\ workers[g].phase \in {"save", "finish"} => Stamped(c)

WorkersInv ==
  /\ workers \in [Generations -> [phase : Phases, copy : {workers[g].copy : g \in Generations}]]
  /\ attempts \in [Generations -> SUBSET Worlds]
  /\ \A g \in Generations : WorkerInv(g)
  /\ \A g \in Generations : g > row.gen => workers[g].phase = "none" /\ attempts[g] = {}

ServingInv == RowInv /\ WorkersInv /\ present \in BOOLEAN /\ validated \in Sources

-----------------------------------------------------------------------------
(* What evidence that is admitted and derives VERIFIED says of the world.  *)

\* A derivation ends in VERIFIED only past every check of the verdict.
LEMMA VerifiedPassesAll ==
  ASSUME NEW m, derive(m) = "VERIFIED"
  PROVE  /\ ~check_for_errors(m) /\ ~check_for_unavailable(m)
         /\ ~check_for_unsupported(m)
         /\ "MISMATCH" \notin Results(m)
<1>1. ~check_for_errors(m)
  BY DEF derive
<1>2. ~check_for_unavailable(m)
  BY <1>1 DEF derive
<1>3. ~check_for_unsupported(m)
  BY <1>1, <1>2 DEF derive
<1>4. "MISMATCH" \notin Results(m)
  BY <1>1, <1>2, <1>3 DEF derive
<1> QED  BY <1>1, <1>2, <1>3, <1>4

\* The states a derivation can end in.
LEMMA VerdictsAreStates ==
  ASSUME NEW e
  PROVE  verdict_of(e).state \in VerdictStates
<1>1. derive(e.graph) \in VerdictStates
  BY DEF derive, VerdictStates
<1> QED  BY <1>1 DEF verdict_of, VerdictStates

\* The two executions of a manifest, by their roles.
OracleRun(g, w) ==
  execution(g, "oracle", w.oracle, "EXECUTE", IF w.moved THEN "other" ELSE "claimed", FALSE)
CandidateRun(g, w) ==
  execution(g, "candidate", w.candidate, IF w.built THEN "EXECUTE" ELSE "BUILD", "none",
            w.rewritten)

LEMMA ExecutionsOfManifest ==
  ASSUME NEW g, NEW w, NEW effects
  PROVE  /\ manifest(g, w, effects).executions = {OracleRun(g, w), CandidateRun(g, w)}
         /\ Of(manifest(g, w, effects), "oracle") = {OracleRun(g, w)}
         /\ Of(manifest(g, w, effects), "candidate") = {CandidateRun(g, w)}
<1>1. OracleRun(g, w).role = "oracle" /\ CandidateRun(g, w).role = "candidate"
  BY DEF OracleRun, CandidateRun, execution
<1>2. manifest(g, w, effects).executions = {OracleRun(g, w), CandidateRun(g, w)}
  BY DEF manifest, OracleRun, CandidateRun
<1> QED  BY <1>1, <1>2 DEF Of

\* What is compared, and what compares as different.
ComparisonOf(g, w, t) ==
  [type |-> t, run |-> g, workload |-> "W",
   oracle |-> <<g, "oracle", t>>, candidate |-> <<g, "candidate", t>>,
   comparator |-> IF t = "EFFECTS" THEN "unobserved-effect" ELSE CANONICAL_COMPARATOR_IDS[t],
   differs |-> t \in w.differ \cup {"EFFECTS"},
   result |-> IF t = "EFFECTS" THEN "INCONCLUSIVE"
              ELSE IF t \in w.differ THEN "MISMATCH" ELSE "MATCH"]

LEMMA ComparisonsOfManifest ==
  ASSUME NEW g, NEW w, NEW effects
  PROVE  manifest(g, w, effects).comparisons =
           {ComparisonOf(g, w, t) : t \in artifact_types(w, effects)}
BY DEF manifest, ComparisonOf

LEMMA WorldIsEquivalent ==
  ASSUME NEW g, NEW w \in Worlds, NEW effects \in BOOLEAN,
         derive(manifest(g, w, effects)) = "VERIFIED",
         Admitted(sealed(manifest(g, w, effects)))
  PROVE  Equivalent(w) /\ ~effects
<1> DEFINE m == manifest(g, w, effects)
<1> DEFINE o == OracleRun(g, w)
<1> DEFINE c == CandidateRun(g, w)
<1>3. m.executions = {o, c} /\ Of(m, "oracle") = {o} /\ Of(m, "candidate") = {c}
  BY ExecutionsOfManifest
<1>4. /\ ~check_for_errors(m) /\ ~check_for_unavailable(m)
      /\ ~check_for_unsupported(m) /\ "MISMATCH" \notin Results(m)
  BY VerifiedPassesAll
<1>5. ~effects
  <2>1. SUFFICES ASSUME effects  PROVE FALSE
    OBVIOUS
  <2>2. "EFFECTS" \in artifact_types(w, effects)
    BY <2>1 DEF artifact_types
  <2>3. \E a \in m.artifacts : a.type = "EFFECTS"
    <3>1. [id |-> <<g, "oracle", "EFFECTS">>, type |-> "EFFECTS", execution |-> <<g, "oracle">>,
           role |-> "ORACLE"] \in m.artifacts
      BY <2>2 DEF manifest
    <3> QED  BY <3>1
  <2>4. "EFFECTS" \notin SUPPORTED_TYPES
    BY DEF SUPPORTED_TYPES
  <2> QED  BY <1>4, <2>3, <2>4 DEF check_for_unsupported
<1>6. artifact_types(w, effects) = w.contract
  BY <1>5 DEF artifact_types
<1>7. w.differ = {}
  <2>1. SUFFICES ASSUME NEW t \in w.differ  PROVE FALSE
    OBVIOUS
  <2>2. t \in w.contract /\ t # "EFFECTS"
    BY WorldsAssumption DEF CANONICAL_COMPARATOR_IDS
  <2>3. \E x \in m.comparisons : x.result = "MISMATCH"
    <3>1. ComparisonOf(g, w, t) \in m.comparisons
      BY <1>6, <2>2, ComparisonsOfManifest
    <3>2. ComparisonOf(g, w, t).result = "MISMATCH"
      BY <2>2 DEF ComparisonOf
    <3> QED  BY <3>1, <3>2
  <2> QED  BY <1>4, <2>3 DEF Results
<1>8. /\ o.status = w.oracle /\ c.status = w.candidate
      /\ o.role = "oracle" /\ c.role = "candidate"
      /\ o.image = IF w.moved THEN "other" ELSE "claimed"
      /\ c.phase = IF w.built THEN "EXECUTE" ELSE "BUILD"
      /\ c.before = "tree" /\ c.after = IF w.rewritten THEN "changed" ELSE "tree"
  BY DEF execution, OracleRun, CandidateRun
<1>9. w.oracle \in {"normal", "return_code"} /\ w.candidate \in {"normal", "nonzero_exit"}
  BY <1>3, <1>4, <1>8, WorldsAssumption DEF check_for_unavailable
<1>10. sealed(m).graph = m
  BY DEF sealed
<1>11. w.built
  BY <1>3, <1>8, <1>10 DEF Admitted, validate_required_evidence
<1>12. ~w.moved
  <2>1. m.image = "claimed"
    BY DEF manifest
  <2> QED  BY <1>3, <1>8, <1>10, <2>1 DEF Admitted, validate_oracle_binding
<1>13. ~w.rewritten
  BY <1>3, <1>8, <1>10 DEF Admitted, validate_source_mutation
<1>14. w.oracle = "return_code" \/ w.candidate = "nonzero_exit" => "EXIT_STATUS" \in w.contract
  <2>1. SUFFICES ASSUME w.oracle = "return_code" \/ w.candidate = "nonzero_exit"
                 PROVE  "EXIT_STATUS" \in w.contract
    OBVIOUS
  <2>2. \E a \in m.artifacts : a.type = "EXIT_STATUS"
    BY <1>3, <1>8, <1>10, <2>1 DEF Admitted, validate_exit_status_completeness
  <2> QED  BY <1>6, <2>2 DEF manifest
<1> QED  BY <1>5, <1>7, <1>9, <1>11, <1>12, <1>13, <1>14 DEF Equivalent

-----------------------------------------------------------------------------
(* What is stored is read back.                                            *)

\* What is written can be read: the seal is of the graph, the verdict is one.
Decodable(r) ==
  /\ \A e \in r.evidence : e.seal = e.graph
  /\ \A v \in r.verdict : v.state \in VerdictStates

LEMMA SealIsGraph ==
  ASSUME NEW g, NEW w, NEW there
  PROVE  EvidenceOf(g, w, there).seal = EvidenceOf(g, w, there).graph
BY DEF EvidenceOf, sealed

LEMMA ExecutedIsDecodable ==
  ASSUME NEW r, NEW there, Executed(r, there)
  PROVE  Decodable(r)
BY SealIsGraph, VerdictsAreStates DEF Executed, Decodable

\* The stored form of a record: its parts, each in its envelope.
LEMMA StoredParts ==
  ASSUME NEW r, IsRecord(r), Decodable(r)
  PROVE  /\ Stored(r).gen = r.gen /\ Stored(r).stage = r.stage /\ Stored(r).report = r.report
         /\ Stored(r).evidence = {encode_envelope(SCHEMA_EVIDENCE, e) : e \in r.evidence}
         /\ Stored(r).verdict = {encode_verdict(v) : v \in r.verdict}
         /\ IsRecord(Stored(r))
<1> DEFINE s == UNION {encode_evidence_manifest(e) : e \in r.evidence}
<1> DEFINE v == {encode_verdict(x) : x \in r.verdict}
<1>1. \A e \in r.evidence : e.seal = e.graph
  BY DEF Decodable
<1>2. \A e \in r.evidence :
         encode_evidence_manifest(e) = {encode_envelope(SCHEMA_EVIDENCE, e)}
  BY <1>1 DEF encode_evidence_manifest
<1>3. s = {encode_envelope(SCHEMA_EVIDENCE, e) : e \in r.evidence}
  BY <1>2
<1>4. Stored(r) = [[r EXCEPT !.evidence = s] EXCEPT !.verdict = v]
  BY DEF Stored
<1> HIDE DEF s, v
<1>5. Stored(r) = [gen |-> r.gen, stage |-> r.stage, evidence |-> s, verdict |-> v,
                   report |-> r.report]
  BY <1>4 DEF IsRecord
<1>6. v = {encode_verdict(x) : x \in r.verdict}
  BY DEF v
<1> QED  BY <1>3, <1>5, <1>6 DEF IsRecord

LEMMA StoredIsReadBack ==
  ASSUME NEW r, IsRecord(r), Decodable(r)
  PROVE  Readable(Stored(r)) /\ Loaded(Stored(r)) = r
<1> DEFINE s == Stored(r)
<1>1. /\ s.gen = r.gen /\ s.stage = r.stage /\ s.report = r.report
      /\ s.evidence = {encode_envelope(SCHEMA_EVIDENCE, e) : e \in r.evidence}
      /\ s.verdict = {encode_verdict(v) : v \in r.verdict}
      /\ IsRecord(s)
  BY StoredParts
<1> HIDE DEF s
<1>2. \A raw \in s.evidence : decode_evidence_manifest(raw)
  <2>1. SUFFICES ASSUME NEW e \in r.evidence
                 PROVE  decode_evidence_manifest(encode_envelope(SCHEMA_EVIDENCE, e))
    BY <1>1
  <2>2. e.seal = e.graph
    BY DEF Decodable
  <2> QED  BY <2>2 DEF decode_evidence_manifest, decode_envelope, decode_fields,
                       encode_envelope, sealed
<1>3. \A raw \in s.verdict : decode_verdict(raw)
  <2>1. SUFFICES ASSUME NEW v \in r.verdict
                 PROVE  decode_verdict(encode_verdict(v))
    BY <1>1
  <2>2. v.state \in VerdictStates
    BY DEF Decodable
  <2> QED  BY <2>2 DEF decode_verdict, encode_verdict, decode_envelope, decode_fields,
                       encode_envelope
<1>4. {raw.payload : raw \in s.evidence} = r.evidence
  <2>1. \A e : encode_envelope(SCHEMA_EVIDENCE, e).payload = e
    BY DEF encode_envelope
  <2> QED  BY <1>1, <2>1
<1>5. {raw.payload : raw \in s.verdict} = r.verdict
  <2>1. \A v : encode_verdict(v).payload = v
    BY DEF encode_envelope, encode_verdict
  <2> QED  BY <1>1, <2>1
<1>6. Loaded(s) = r
  <2>1. Loaded(s) = [[s EXCEPT !.evidence = r.evidence] EXCEPT !.verdict = r.verdict]
    BY <1>4, <1>5, <1>1 DEF Loaded, IsRecord
  <2>2. Loaded(s) = [gen |-> r.gen, stage |-> r.stage, evidence |-> r.evidence,
                     verdict |-> r.verdict, report |-> r.report]
    BY <1>1, <2>1 DEF IsRecord
  <2> QED  BY <2>2 DEF IsRecord
<1> QED  BY <1>2, <1>3, <1>6 DEF Readable, s

-----------------------------------------------------------------------------
(* What is known of a record stays known while its attempt does not execute *)
(* again and the source does not come back.                                *)

LEMMA ReadsTheSameSource ==
  ASSUME validated' = validated, NEW r, NEW p, NEW g, NEW w, NEW there
  PROVE  /\ EvidenceOf(g, w, there)' = EvidenceOf(g, w, there)
         /\ ProofOf(r, p, there)' = ProofOf(r, p, there)
<1>1. unobserved_effects(there)' = unobserved_effects(there)
  BY DEF unobserved_effects
<1>2. external_dependency_entries_for_source(there)' =
        external_dependency_entries_for_source(there)
  BY DEF external_dependency_entries_for_source
<1>3. jcl_status_for_source(there)' = jcl_status_for_source(there)
  BY DEF jcl_status_for_source
<1> QED  BY <1>1, <1>2, <1>3 DEF EvidenceOf, ProofOf

LEMMA BackedFrame ==
  ASSUME validated' = validated, present' => present, blind \subseteq blind',
         NEW r, attempts'[r.gen] = attempts[r.gen],
         NEW before \in BOOLEAN, NEW after \in BOOLEAN, Backed(r, before, after)
  PROVE  Backed(r, before, after)'
<1>1. Executed(r, before)'
  BY ReadsTheSameSource DEF Backed, Executed
<1>2. Proved(r, after)'
  BY ReadsTheSameSource DEF Backed, Proved
<1> QED  BY <1>1, <1>2 DEF Backed

LEMMA CopyFrame ==
  ASSUME validated' = validated, present' => present, blind \subseteq blind',
         NEW r, attempts'[r.gen] = attempts[r.gen], CopyIsBacked(r)
  PROVE  CopyIsBacked(r)'
<1>1. SourceKept(r)'
  BY DEF CopyIsBacked, SourceKept
<1>2. HasReport(r)' /\ NotAhead(r)'
  BY DEF CopyIsBacked, HasReport, NotAhead
<1>3. PICK before, after \in BOOLEAN : Backed(r, before, after)
  BY DEF CopyIsBacked
<1>4. Backed(r, before, after)'
  BY <1>3, BackedFrame
<1> QED  BY <1>1, <1>2, <1>4 DEF CopyIsBacked

\* The worker of another generation, whatever this step writes.
LEMMA WorkerFrame ==
  ASSUME NEW g \in Generations, WorkerInv(g),
         workers'[g] = workers[g], attempts'[g] = attempts[g],
         validated' = validated, present' => present, blind \subseteq blind',
         row.gen \in Generations, row'.gen \in Generations, row.gen <= row'.gen,
         row'.gen = g =>
           /\ row.gen = g
           /\ row'.stage = "COMPLETED" => row.stage = "COMPLETED"
           /\ row.evidence = {} /\ row.verdict = {} => row'.evidence = {} /\ row'.verdict = {}
  PROVE  WorkerInv(g)'
<1> DEFINE c == workers[g].copy
<1>1. SUFFICES ASSUME workers[g].phase # "none"  PROVE WorkerInv(g)'
  BY DEF WorkerInv
<1>2. CopyIsBacked(c)'
  <2>1. c.gen = g /\ CopyIsBacked(c)
    BY <1>1 DEF WorkerInv
  <2> HIDE DEF c
  <2>2. PICK k : k = c
    OBVIOUS
  <2>3. CopyIsBacked(k)'
    BY <2>1, <2>2, CopyFrame
  <2> QED  BY <2>2, <2>3, workers'[g] = workers[g] DEF c
<1>3. g <= row'.gen
  BY <1>1 DEF WorkerInv, Generations
<1> QED  BY <1>1, <1>2, <1>3 DEF WorkerInv, IsRecord, Stamped

\* The parts of a row as it is read.
LEMMA LoadedParts ==
  ASSUME NEW s, IsRecord(s)
  PROVE  /\ IsRecord(Loaded(s))
         /\ Loaded(s).gen = s.gen /\ Loaded(s).stage = s.stage /\ Loaded(s).report = s.report
         /\ Loaded(s).evidence = {raw.payload : raw \in s.evidence}
         /\ Loaded(s).verdict = {raw.payload : raw \in s.verdict}
<1> DEFINE e == {raw.payload : raw \in s.evidence}
<1> DEFINE v == {raw.payload : raw \in s.verdict}
<1>1. Loaded(s) = [[s EXCEPT !.evidence = e] EXCEPT !.verdict = v]
  BY DEF Loaded
<1> HIDE DEF e, v
<1>2. Loaded(s) = [gen |-> s.gen, stage |-> s.stage, evidence |-> e, verdict |-> v,
                   report |-> s.report]
  BY <1>1 DEF IsRecord
<1>3. IsRecord(Loaded(s)) /\ Loaded(s).gen = s.gen /\ Loaded(s).stage = s.stage
      /\ Loaded(s).report = s.report /\ Loaded(s).evidence = e /\ Loaded(s).verdict = v
  BY <1>2 DEF IsRecord
<1> QED  BY <1>3 DEF e, v

\* The row of a step that writes at most FAILED to it.
LEMMA RowFrame ==
  ASSUME RowInv, IsRecord(row'), validated' = validated, present' => present,
         blind \subseteq blind',
         row'.gen = row.gen, row'.evidence = row.evidence, row'.verdict = row.verdict,
         row'.report = row.report, row'.stage = row.stage \/ row'.stage = "FAILED",
         attempts'[row.gen] = attempts[row.gen] \/ (row.evidence = {} /\ row.verdict = {})
  PROVE  RowInv'
<1>1. HasReport(row)' /\ NotAhead(row)' /\ SourceKept(row)' /\ row'.stage \in Stages
  BY DEF RowInv, HasReport, NotAhead, SourceKept, Stages
<1>2. ASSUME Readable(row')  PROVE row' = Stored(Loaded(row')) /\ RowIsBacked(Loaded(row))'
  <2>1. Readable(row)
    BY <1>2 DEF Readable
  <2>2. PICK l : l = Loaded(row)
    OBVIOUS
  <2>3. PICK m : m = Loaded(row')
    OBVIOUS
  <2>4. /\ IsRecord(l) /\ IsRecord(m) /\ l.gen = row.gen
        /\ m.gen = l.gen /\ m.evidence = l.evidence /\ m.verdict = l.verdict
        /\ m.report = l.report /\ l.stage = row.stage /\ m.stage = row'.stage
        /\ l.evidence = {raw.payload : raw \in row.evidence}
        /\ l.verdict = {raw.payload : raw \in row.verdict}
        /\ m.report = row'.report
    BY <2>2, <2>3, LoadedParts DEF RowInv
  <2>5. row = Stored(l) /\ RowIsBacked(l)
    BY <2>1, <2>2 DEF RowInv
  <2>6. PICK before, after \in BOOLEAN :
          /\ Backed(l, before, after)
          /\ l.stage # "FAILED" /\ l.verdict # {} => Stamped(l)
    BY <2>5 DEF RowIsBacked
  <2>7. Decodable(l) /\ Decodable(m)
    BY <2>4, <2>6, ExecutedIsDecodable DEF Backed, Decodable
  <2>8. row' = Stored(m)
    <3>1. IsRecord(Stored(m)) /\ Stored(m).gen = row'.gen /\ Stored(m).stage = row'.stage
          /\ Stored(m).evidence = row'.evidence /\ Stored(m).verdict = row'.verdict
          /\ Stored(m).report = row'.report
      <4>1. Stored(l).evidence = Stored(m).evidence /\ Stored(l).verdict = Stored(m).verdict
        BY <2>4, <2>7, StoredParts
      <4> QED  BY <2>4, <2>5, <2>7, <4>1, StoredParts
    <3> QED  BY <3>1 DEF IsRecord
  <2>9. \A p, there : ProofOf(m, p, there) = ProofOf(l, p, there)
    BY <2>4 DEF ProofOf
  <2>10. Backed(m, before, after)
    <3>1. m.gen = l.gen /\ m.evidence = l.evidence /\ m.verdict = l.verdict
          /\ m.report = l.report
      BY <2>4
    <3>2. Executed(m, before)
      BY <3>1, <2>6 DEF Backed, Executed
    <3>3. Proved(m, after)
      BY <3>1, <2>6, <2>9 DEF Backed, Proved
    <3> QED  BY <2>6, <3>1, <3>2, <3>3 DEF Backed
  <2>11. Backed(m, before, after)'
    <3>1. CASE attempts'[row.gen] = attempts[row.gen]
      BY <2>4, <2>10, <3>1, BackedFrame
    <3>2. CASE row.evidence = {} /\ row.verdict = {}
      <4>1. Executed(m, before)'
        BY <2>4, <3>2 DEF Executed
      <4> QED  BY <2>10, <4>1, ReadsTheSameSource DEF Backed, Proved
    <3> QED  BY <3>1, <3>2
  <2>12. RowIsBacked(m)'
    BY <2>4, <2>6, <2>11 DEF RowIsBacked, Stamped
  <2> QED  BY <2>3, <2>8, <2>12
<1> QED  BY <1>1, <1>2 DEF RowInv

\* The row after a write that lands.
LEMMA RowLands ==
  ASSUME RowInv, NEW r, IsRecord(r), r.gen \in Generations, r.stage \in Stages,
         CopyIsBacked(r)', Lands(r), row.stage # "COMPLETED", row' = Stored(r),
         r.stage # "FAILED" /\ r.verdict # {} => Stamped(r)
  PROVE  RowInv'
<1>1. PICK before, after \in BOOLEAN : Backed(r, before, after)'
  BY DEF CopyIsBacked
<1>2. Executed(r, before)'
  BY <1>1 DEF Backed
<1>3. /\ row'.gen = r.gen /\ row'.stage = r.stage /\ row'.report = r.report
      /\ IsRecord(row')
      /\ Readable(row') /\ Loaded(row') = r
  <2>1. Decodable(r)
    <3>1. \A g, w : EvidenceOf(g, w, before)'.seal = EvidenceOf(g, w, before)'.graph
      BY DEF EvidenceOf, sealed
    <3> QED  BY <1>2, <3>1, VerdictsAreStates DEF Executed, Decodable
  <2> QED  BY <2>1, StoredParts, StoredIsReadBack
<1>4. RowIsBacked(r)'
  BY <1>1 DEF RowIsBacked, Stamped
<1>5. HasReport(row)' /\ NotAhead(row)' /\ SourceKept(row)'
  BY <1>3 DEF CopyIsBacked, HasReport, NotAhead, SourceKept
<1> QED  BY <1>3, <1>4, <1>5 DEF RowInv

\* A step of one worker leaves what is known of the others.
LEMMA OneWorkerMoves ==
  ASSUME ServingInv, NEW g \in Generations, workers[g].phase # "none",
         NEW phase \in Phases, NEW c,
         workers' = [workers EXCEPT ![g] = [phase |-> phase, copy |-> c]],
         validated' = validated, present' = present, blind \subseteq blind',
         attempts' \in [Generations -> SUBSET Worlds],
         \A h \in Generations \ {g} : attempts'[h] = attempts[h],
         row' = row \/ (row.gen = g /\ row'.gen = g),
         WorkerInv(g)'
  PROVE  WorkersInv'
<1>1. /\ workers'[g] = [phase |-> phase, copy |-> c]
      /\ \A h \in Generations \ {g} : workers'[h] = workers[h]
      /\ DOMAIN workers' = Generations
  BY DEF ServingInv, WorkersInv
<1>2. workers' \in [Generations -> [phase : Phases, copy : {workers'[h].copy : h \in Generations}]]
  <2>1. \A h \in Generations :
          workers'[h] \in [phase : Phases, copy : {workers'[k].copy : k \in Generations}]
    <3>1. \A h \in Generations \ {g} :
            workers'[h] = [phase |-> workers'[h].phase, copy |-> workers'[h].copy]
            /\ workers'[h].phase \in Phases
      BY <1>1 DEF ServingInv, WorkersInv
    <3> QED  BY <1>1, <3>1
  <2> QED  BY <1>1, <2>1 DEF ServingInv, WorkersInv
<1>3. row.gen \in Generations /\ row'.gen \in Generations /\ row.gen <= row'.gen
      /\ row'.gen = row.gen
  BY DEF ServingInv, RowInv, Generations
<1>4. \A h \in Generations : WorkerInv(h)'
  <2>1. SUFFICES ASSUME NEW h \in Generations, h # g  PROVE WorkerInv(h)'
    OBVIOUS
  <2>2. WorkerInv(h) /\ workers'[h] = workers[h] /\ attempts'[h] = attempts[h]
    BY <1>1, <2>1 DEF ServingInv, WorkersInv
  <2>3. row'.gen = h => row' = row
    BY <1>3, <2>1
  <2> QED  BY <1>3, <2>2, <2>3, WorkerFrame
<1>5. \A h \in Generations : h > row'.gen => workers'[h].phase = "none" /\ attempts'[h] = {}
  <2>1. g <= row.gen
    BY DEF ServingInv, WorkersInv, WorkerInv
  <2> QED  BY <1>1, <1>3, <2>1, GenerationsAssumption DEF ServingInv, WorkersInv, Generations
<1> QED  BY <1>2, <1>4, <1>5 DEF WorkersInv

-----------------------------------------------------------------------------
(* The steps of a worker.                                                  *)

\* A copy with another stage holds the same facts.
LEMMA StageChanges ==
  ASSUME NEW r, IsRecord(r), NEW stage, NEW d, d = [r EXCEPT !.stage = stage]
  PROVE  /\ IsRecord(d)
         /\ d.gen = r.gen /\ d.stage = stage /\ d.evidence = r.evidence
         /\ d.verdict = r.verdict /\ d.report = r.report
         /\ CopyIsBacked(r) => CopyIsBacked(d)
         /\ Stamped(r) => Stamped(d)
<1>1. d = [gen |-> r.gen, stage |-> stage, evidence |-> r.evidence, verdict |-> r.verdict,
           report |-> r.report]
  BY DEF IsRecord
<1>2. /\ IsRecord(d)
      /\ d.gen = r.gen /\ d.stage = stage /\ d.evidence = r.evidence
      /\ d.verdict = r.verdict /\ d.report = r.report
  BY <1>1 DEF IsRecord
<1>3. \A p, there : ProofOf(d, p, there) = ProofOf(r, p, there)
  BY <1>2 DEF ProofOf
<1>4. CopyIsBacked(r) => CopyIsBacked(d)
  BY <1>2, <1>3 DEF CopyIsBacked, HasReport, NotAhead, SourceKept, Backed, Executed, Proved
<1>5. Stamped(r) => Stamped(d)
  BY <1>2 DEF Stamped
<1> QED  BY <1>2, <1>4, <1>5

\* Writing a copy of the worker's facts, under any stage a write may carry.
LEMMA WorkerWrites ==
  ASSUME ServingInv, NEW g \in Generations, workers[g].phase # "none",
         NEW r, IsRecord(r), r.gen = g, r.stage \in Stages, CopyIsBacked(r)',
         r.stage # "FAILED" /\ r.verdict # {} => Stamped(r),
         validated' = validated, present' = present, blind \subseteq blind', update_run(r),
         row.gen = g => attempts'[g] = attempts[g] \/ (row.evidence = {} /\ row.verdict = {}),
         \A h \in Generations \ {g} : attempts'[h] = attempts[h]
  PROVE  /\ RowInv'
         /\ row' = row \/ (row.gen = g /\ row'.gen = g /\ row'.stage = r.stage
                            /\ row'.evidence = {encode_envelope(SCHEMA_EVIDENCE, e) : e \in r.evidence}
                            /\ row'.verdict = {encode_verdict(v) : v \in r.verdict})
<1>1. CASE ~Lands(r)
  <2>1. row' = row
    BY <1>1 DEF update_run
  <2>2. attempts'[row.gen] = attempts[row.gen] \/ (row.evidence = {} /\ row.verdict = {})
    BY DEF ServingInv, RowInv
  <2>3. RowInv'
    BY <2>1, <2>2, RowFrame DEF ServingInv, RowInv
  <2> QED  BY <2>1, <2>3
<1>2. CASE Lands(r)
  <2>1. row' = Stored(r) /\ row.gen = g
    BY <1>2 DEF update_run, Lands
  <2>2. row.stage # "COMPLETED"
    BY <2>1 DEF ServingInv, WorkersInv, WorkerInv
  <2>3. RowInv'
    BY <1>2, <2>1, <2>2, RowLands DEF ServingInv
  <2>4. Decodable(r)
    <3>1. PICK before \in BOOLEAN : Executed(r, before)'
      BY DEF CopyIsBacked, Backed
    <3>2. \A h, w : EvidenceOf(h, w, before)'.seal = EvidenceOf(h, w, before)'.graph
      BY DEF EvidenceOf, sealed
    <3> QED  BY <3>1, <3>2, VerdictsAreStates DEF Executed, Decodable
  <2> QED  BY <2>1, <2>3, <2>4, StoredParts
<1> QED  BY <1>1, <1>2

LEMMA GenerateStep ==
  ASSUME ServingInv, NEW g \in Generations, Generate(g)
  PROVE  ServingInv'
<1>1. PICK report \in Reports :
        LET c == [workers[g].copy EXCEPT !.stage = "RUNNING",
                    !.report = {[components |-> report, generated |-> TRUE,
                                 proof |-> {}, jcl |-> {}]}]
        IN Worker(g, "execute", c) /\ update_run(c)
  BY DEF Generate
<1>2. PICK k : k = workers[g].copy
  OBVIOUS
<1>3. PICK p : p = [components |-> report, generated |-> TRUE, proof |-> {}, jcl |-> {}]
  OBVIOUS
<1>4. PICK r : r = [gen |-> g, stage |-> "RUNNING", evidence |-> {}, verdict |-> {},
                    report |-> {p}]
  OBVIOUS
<1>5. /\ workers[g].phase = "generate" /\ IsRecord(k) /\ k.gen = g /\ attempts[g] = {}
      /\ k.evidence = {} /\ k.verdict = {} /\ g <= row.gen
      /\ row.gen = g => row.stage # "COMPLETED" /\ row.evidence = {} /\ row.verdict = {}
  BY <1>2 DEF Generate, ServingInv, WorkersInv, WorkerInv
<1>6. [workers[g].copy EXCEPT !.stage = "RUNNING", !.report = {p}] = r
  <2>1. PICK i : i = [k EXCEPT !.stage = "RUNNING"]
    OBVIOUS
  <2>2. i.gen = g /\ i.evidence = {} /\ i.verdict = {} /\ i.stage = "RUNNING" /\ IsRecord(i)
    BY <1>5, <2>1, StageChanges
  <2>3. [i EXCEPT !.report = {p}] = r
    BY <1>4, <2>2 DEF IsRecord
  <2> QED  BY <1>2, <2>1, <2>3
<1>7. workers' = [workers EXCEPT ![g] = [phase |-> "execute", copy |-> r]] /\ update_run(r)
  BY <1>1, <1>3, <1>6 DEF Worker
<1>8. validated' = validated /\ present' = present /\ attempts' = attempts /\ blind' = blind
  BY DEF Generate
<1>9. /\ IsRecord(r) /\ r.gen = g /\ r.stage = "RUNNING" /\ r.evidence = {} /\ r.verdict = {}
      /\ r.report = {p} /\ p.components = report /\ p.proof = {} /\ p.jcl = {}
  BY <1>3, <1>4 DEF IsRecord
<1>10. CopyIsBacked(r)'
  <2> PICK t \in BOOLEAN : t
    OBVIOUS
  <2>1. Backed(r, t, t)'
    BY <1>9 DEF Backed, Executed, Proved
  <2>2. (HasReport(r) /\ NotAhead(r) /\ SourceKept(r))'
    BY <1>3, <1>9 DEF HasReport, NotAhead, SourceKept
  <2> QED  BY <2>1, <2>2 DEF CopyIsBacked
<1>11. RowInv' /\ (row' = row \/ (row.gen = g /\ row'.gen = g /\ row'.stage = r.stage
                                 /\ row'.evidence = {encode_envelope(SCHEMA_EVIDENCE, e) : e \in r.evidence}
                                 /\ row'.verdict = {encode_verdict(v) : v \in r.verdict}))
  BY <1>5, <1>7, <1>8, <1>9, <1>10, WorkerWrites DEF Stages
<1>12. row'.gen = row.gen /\ (row'.gen = g => row'.stage # "COMPLETED"
                                             /\ row'.evidence = {} /\ row'.verdict = {})
  BY <1>5, <1>9, <1>11
<1>13. workers'[g] = [phase |-> "execute", copy |-> r]
  BY <1>7 DEF ServingInv, WorkersInv
<1>14. WorkerInv(g)'
  BY <1>5, <1>8, <1>9, <1>10, <1>12, <1>13 DEF WorkerInv
<1>15. WorkersInv'
  BY <1>5, <1>7, <1>8, <1>11, <1>14, OneWorkerMoves DEF Phases, ServingInv, WorkersInv
<1> QED  BY <1>8, <1>11, <1>15 DEF ServingInv

LEMMA ExecuteStep ==
  ASSUME ServingInv, NEW g \in Generations, Execute(g)
  PROVE  ServingInv'
<1>1. PICK k : k = workers[g].copy
  OBVIOUS
<1>2. PICK w \in Worlds : attempts' = [attempts EXCEPT ![g] = {w}]
  BY DEF Execute
<1>3. PICK i : i = [k EXCEPT !.stage = "RUNNING"]
  OBVIOUS
<1>4. /\ workers[g].phase = "execute" /\ IsRecord(k) /\ k.gen = g /\ k.report # {}
      /\ k.evidence = {} /\ k.verdict = {} /\ g <= row.gen
      /\ CopyIsBacked(k) /\ k.stage \in {"CREATED", "RUNNING"}
      /\ row.gen = g => row.stage # "COMPLETED" /\ row.evidence = {} /\ row.verdict = {}
      /\ \A p \in k.report : \A q \in p.proof : q.stamp # g
  BY <1>1 DEF Execute, ServingInv, WorkersInv, WorkerInv
<1>5. workers' = [workers EXCEPT ![g] = [phase |-> "observe", copy |-> i]] /\ update_run(i)
  BY <1>1, <1>3 DEF Execute, Worker
<1>6. validated' = validated /\ present' = present /\ blind' = blind
  BY DEF Execute
<1>7. /\ IsRecord(i) /\ i.gen = g /\ i.stage = "RUNNING" /\ i.evidence = {}
      /\ i.verdict = {} /\ i.report = k.report
  BY <1>3, <1>4, StageChanges
<1>8. attempts'[g] = {w} /\ \A h \in Generations \ {g} : attempts'[h] = attempts[h]
  BY <1>2 DEF ServingInv, WorkersInv
<1>9. HasReport(k)' /\ NotAhead(k)' /\ SourceKept(k)'
  BY <1>4, <1>6 DEF CopyIsBacked, HasReport, NotAhead, SourceKept
<1>10. CopyIsBacked(i)'
  <2> PICK t \in BOOLEAN : t
    OBVIOUS
  <2>1. Backed(i, t, t)'
    BY <1>4, <1>7 DEF Backed, Executed, Proved
  <2>2. (HasReport(i) /\ NotAhead(i) /\ SourceKept(i))'
    BY <1>4, <1>7, <1>9 DEF HasReport, NotAhead, SourceKept
  <2> QED  BY <2>1, <2>2 DEF CopyIsBacked
<1>11. RowInv' /\ (row' = row \/ (row.gen = g /\ row'.gen = g /\ row'.stage = i.stage
                                 /\ row'.evidence = {encode_envelope(SCHEMA_EVIDENCE, x) : x \in i.evidence}
                                 /\ row'.verdict = {encode_verdict(v) : v \in i.verdict}))
  BY <1>4, <1>5, <1>6, <1>7, <1>8, <1>10, WorkerWrites DEF Stages
<1>12. row'.gen = row.gen /\ (row'.gen = g => row'.stage # "COMPLETED"
                                             /\ row'.evidence = {} /\ row'.verdict = {})
  BY <1>4, <1>7, <1>11
<1>13. workers'[g] = [phase |-> "observe", copy |-> i]
  BY <1>5 DEF ServingInv, WorkersInv
<1>14. WorkerInv(g)'
  BY <1>4, <1>7, <1>8, <1>10, <1>12, <1>13 DEF WorkerInv
<1>15. attempts' \in [Generations -> SUBSET Worlds]
  BY <1>2 DEF ServingInv, WorkersInv
<1>16. WorkersInv'
  BY <1>4, <1>5, <1>6, <1>8, <1>11, <1>14, <1>15, OneWorkerMoves DEF Phases
<1> QED  BY <1>6, <1>11, <1>16 DEF ServingInv

LEMMA ObserveStep ==
  ASSUME ServingInv, NEW g \in Generations, Observe(g)
  PROVE  ServingInv'
<1>1. PICK k : k = workers[g].copy
  OBVIOUS
<1>2. PICK b \in BOOLEAN : b = present
  BY DEF ServingInv
<1>3. PICK w : w = The(attempts[g])
  OBVIOUS
<1>4. PICK e : e = EvidenceOf(g, w, b)
  OBVIOUS
<1>5. PICK j : j = [k EXCEPT !.evidence = {e}]
  OBVIOUS
<1>6. PICK r : r = [j EXCEPT !.verdict = {verdict_of(e)}]
  OBVIOUS
<1>7. /\ workers[g].phase = "observe" /\ IsRecord(k) /\ k.gen = g /\ k.report # {}
      /\ g <= row.gen /\ attempts[g] # {}
      /\ CopyIsBacked(k) /\ k.stage \in {"CREATED", "RUNNING"}
      /\ row.gen = g => row.stage # "COMPLETED"
      /\ \A p \in k.report : \A q \in p.proof : q.stamp # g
  BY <1>1 DEF Observe, ServingInv, WorkersInv, WorkerInv
<1>8. w \in attempts[g]
  BY <1>3, <1>7 DEF The
<1>9. workers' = [workers EXCEPT ![g] = [phase |-> "prove", copy |-> r]]
  BY <1>1, <1>2, <1>3, <1>4, <1>5, <1>6 DEF Observe, Worker, EvidenceOf
<1>10. /\ validated' = validated /\ present' = present /\ attempts' = attempts /\ row' = row
       /\ blind \subseteq blind' /\ (b \/ g \in blind')
  BY <1>2 DEF Observe, Looks
<1>11. /\ IsRecord(r) /\ r.gen = g /\ r.stage = k.stage /\ r.evidence = {e}
       /\ r.verdict = {verdict_of(e)} /\ r.report = k.report
  <2>1. IsRecord(j) /\ j.gen = g /\ j.stage = k.stage /\ j.evidence = {e}
        /\ j.report = k.report
    BY <1>5, <1>7 DEF IsRecord
  <2> QED  BY <1>6, <2>1 DEF IsRecord
<1>12. HasReport(k)' /\ NotAhead(k)' /\ SourceKept(k)'
  BY <1>7, <1>10 DEF CopyIsBacked, HasReport, NotAhead, SourceKept
<1>13. CopyIsBacked(r)'
  <2>1. EvidenceOf(g, w, b)' = e
    BY <1>4, <1>10, ReadsTheSameSource
  <2>2. Executed(r, b)'
    BY <1>8, <1>10, <1>11, <2>1 DEF Executed
  <2>3. Proved(r, TRUE)'
    BY <1>7, <1>11 DEF Proved
  <2>4. Backed(r, b, TRUE)'
    BY <1>2, <1>10, <1>11, <2>2, <2>3 DEF Backed
  <2>5. (HasReport(r) /\ NotAhead(r) /\ SourceKept(r))'
    BY <1>7, <1>11, <1>12 DEF HasReport, NotAhead, SourceKept
  <2> QED  BY <2>4, <2>5 DEF CopyIsBacked
<1>14. RowInv'
  BY <1>10, RowFrame DEF ServingInv, RowInv
<1>15. workers'[g] = [phase |-> "prove", copy |-> r]
  BY <1>9 DEF ServingInv, WorkersInv
<1>16. WorkerInv(g)'
  BY <1>7, <1>10, <1>11, <1>13, <1>15 DEF WorkerInv
<1>17. WorkersInv'
  BY <1>7, <1>9, <1>10, <1>16, OneWorkerMoves DEF Phases, ServingInv, WorkersInv
<1> QED  BY <1>10, <1>14, <1>17 DEF ServingInv

LEMMA PersistProofStep ==
  ASSUME ServingInv, NEW g \in Generations, PersistProof(g)
  PROVE  ServingInv'
<1>1. PICK k : k = workers[g].copy
  OBVIOUS
<1>2. PICK b \in BOOLEAN : b = present
  BY DEF ServingInv
<1>3. /\ workers[g].phase = "prove" /\ IsRecord(k) /\ k.gen = g /\ k.report # {}
      /\ g <= row.gen /\ CopyIsBacked(k) /\ k.stage \in {"CREATED", "RUNNING"}
      /\ row.gen = g => row.stage # "COMPLETED"
  BY <1>1 DEF PersistProof, ServingInv, WorkersInv, WorkerInv
<1>4. PICK p : /\ k.report = {p} /\ p.components \in Reports
               /\ p = [components |-> p.components, generated |-> p.generated,
                       proof |-> p.proof, jcl |-> p.jcl]
  BY <1>3 DEF CopyIsBacked, HasReport
<1>5. The(k.report) = p
  BY <1>4 DEF The
<1>6. PICK proof : proof = ProofOf(k, p, b)
  OBVIOUS
<1>7. PICK status : status = jcl_status_for_source(b)
  OBVIOUS
<1>8. PICK i : i = [p EXCEPT !.proof = {proof}]
  OBVIOUS
<1>9. PICK n : n = [i EXCEPT !.jcl = {status}]
  OBVIOUS
<1>10. PICK r : r = [k EXCEPT !.report = {n}]
  OBVIOUS
<1>11. workers' = [workers EXCEPT ![g] = [phase |-> "save", copy |-> r]]
  <2>1. {[x EXCEPT !.proof = {proof}, !.jcl = {status}] : x \in k.report} = {n}
    BY <1>4, <1>8, <1>9
  <2>2. Worker(g, "save", [k EXCEPT !.report = {[x EXCEPT !.proof = {proof}, !.jcl = {status}] :
                                                  x \in k.report}])
    BY <1>1, <1>2, <1>5, <1>6, <1>7 DEF PersistProof, ProofOf
  <2> QED  BY <1>10, <2>1, <2>2 DEF Worker
<1>12. /\ n = [components |-> n.components, generated |-> n.generated, proof |-> n.proof,
               jcl |-> n.jcl]
       /\ n.components = p.components /\ n.generated = p.generated
       /\ n.proof = {proof} /\ n.jcl = {status}
  <2>1. i = [components |-> p.components, generated |-> p.generated, proof |-> {proof},
             jcl |-> p.jcl]
    BY <1>4, <1>8
  <2>2. n = [components |-> p.components, generated |-> p.generated, proof |-> {proof},
             jcl |-> {status}]
    BY <1>9, <2>1
  <2> QED  BY <2>2
<1>13. /\ IsRecord(r) /\ r.gen = g /\ r.stage = k.stage /\ r.evidence = k.evidence
       /\ r.verdict = k.verdict /\ r.report = {n}
  BY <1>3, <1>10 DEF IsRecord
<1>14. /\ validated' = validated /\ present' = present /\ attempts' = attempts /\ row' = row
       /\ blind \subseteq blind' /\ (b \/ g \in blind')
  BY <1>2 DEF PersistProof, Looks
<1>15. CopyIsBacked(r)'
  <2>1. ProofOf(r, n, b) = proof
    BY <1>3, <1>6, <1>12, <1>13 DEF ProofOf, proof_payload
  <2>2. PICK before, after \in BOOLEAN : Backed(k, before, after)
    BY <1>3 DEF CopyIsBacked
  <2>3. Executed(r, before)'
    <3>1. Executed(r, before)
      BY <1>3, <1>13, <2>2 DEF Backed, Executed
    <3> QED  BY <1>14, <3>1, ReadsTheSameSource DEF Executed
  <2>4. Backed(r, before, b)'
    <3>1. Proved(r, b)'
      BY <1>12, <1>13, <1>14, <2>1, ReadsTheSameSource DEF Proved
    <3>2. b => before
      BY <1>2, <2>2 DEF Backed
    <3> QED  BY <1>2, <1>13, <1>14, <2>3, <3>1, <3>2 DEF Backed
  <2>5. proof.stamp = g
    BY <1>3, <1>6 DEF ProofOf, proof_payload
  <2>6. (HasReport(r) /\ NotAhead(r))'
    BY <1>4, <1>12, <1>13, <2>5 DEF HasReport, NotAhead, Generations
  <2>7. SourceKept(r)'
    BY <1>2, <1>7, <1>12, <1>13, <1>14 DEF SourceKept, jcl_status_for_source
  <2> QED  BY <2>4, <2>6, <2>7 DEF CopyIsBacked
<1>16. Stamped(r)
  BY <1>3, <1>6, <1>12, <1>13 DEF Stamped, ProofOf, proof_payload
<1>17. r.verdict # {}
  BY <1>1, <1>3, <1>13 DEF ServingInv, WorkersInv, WorkerInv
<1>18. RowInv'
  BY <1>14, RowFrame DEF ServingInv, RowInv
<1>19. workers'[g] = [phase |-> "save", copy |-> r]
  BY <1>11 DEF ServingInv, WorkersInv
<1>20. WorkerInv(g)'
  BY <1>3, <1>13, <1>14, <1>15, <1>16, <1>17, <1>19 DEF WorkerInv, Stamped
<1>21. WorkersInv'
  BY <1>3, <1>11, <1>14, <1>20, OneWorkerMoves DEF Phases, ServingInv, WorkersInv
<1> QED  BY <1>14, <1>18, <1>21 DEF ServingInv

\* A worker that ends writes its copy under the stage it ends in.
LEMMA WorkerEnds ==
  ASSUME ServingInv, NEW g \in Generations, workers[g].phase # "none",
         NEW stage \in Stages,
         stage # "FAILED" => workers[g].phase = "finish",
         update_run([workers[g].copy EXCEPT !.stage = stage]),
         Worker(g, "none", NoWorker.copy), UNCHANGED <<validated, present, attempts, blind>>
  PROVE  ServingInv'
<1>1. PICK k : k = workers[g].copy
  OBVIOUS
<1>2. PICK r : r = [k EXCEPT !.stage = stage]
  OBVIOUS
<1>3. IsRecord(k) /\ k.gen = g /\ CopyIsBacked(k)
      /\ (workers[g].phase = "finish" => Stamped(k))
  BY <1>1 DEF ServingInv, WorkersInv, WorkerInv
<1>4. IsRecord(r) /\ r.gen = g /\ r.stage = stage /\ CopyIsBacked(r)
      /\ (stage # "FAILED" => Stamped(r))
  BY <1>2, <1>3, StageChanges
<1>5. validated' = validated /\ present' = present /\ attempts' = attempts /\ blind' = blind
  OBVIOUS
<1>6. CopyIsBacked(r)'
  BY <1>4, <1>5, CopyFrame
<1>7. update_run(r)
  BY <1>1, <1>2
<1>8. RowInv' /\ (row' = row \/ (row.gen = g /\ row'.gen = g))
  BY <1>4, <1>5, <1>6, <1>7, WorkerWrites
<1>9. workers' = [workers EXCEPT ![g] = [phase |-> "none", copy |-> NoWorker.copy]]
  BY DEF Worker
<1>10. WorkerInv(g)'
  <2>1. workers'[g].phase = "none"
    BY <1>9 DEF ServingInv, WorkersInv
  <2> QED  BY <2>1 DEF WorkerInv
<1>11. WorkersInv'
  <2>1. PICK c : c = NoWorker.copy
    OBVIOUS
  <2> QED  BY <1>5, <1>8, <1>9, <1>10, <2>1, OneWorkerMoves DEF Phases, ServingInv, WorkersInv
<1> QED  BY <1>5, <1>8, <1>11 DEF ServingInv

LEMMA SaveValidationStep ==
  ASSUME ServingInv, NEW g \in Generations, SaveValidation(g)
  PROVE  ServingInv'
<1>1. PICK k : k = workers[g].copy
  OBVIOUS
<1>2. /\ workers[g].phase = "save" /\ IsRecord(k) /\ k.gen = g /\ k.report # {}
      /\ g <= row.gen /\ CopyIsBacked(k) /\ k.stage \in {"CREATED", "RUNNING"}
      /\ row.gen = g => row.stage # "COMPLETED"
      /\ k.verdict # {} /\ Stamped(k)
  BY <1>1 DEF SaveValidation, ServingInv, WorkersInv, WorkerInv
<1>3. /\ update_run(k) /\ validated' = validated /\ present' = present
      /\ attempts' = attempts /\ blind' = blind
      /\ workers' = [workers EXCEPT ![g] = [phase |-> "finish", copy |-> k]]
  BY <1>1 DEF SaveValidation, Worker
<1>4. CopyIsBacked(k)'
  BY <1>2, <1>3, CopyFrame
<1>5. RowInv' /\ (row' = row \/ (row.gen = g /\ row'.gen = g /\ row'.stage = k.stage))
  BY <1>2, <1>3, <1>4, WorkerWrites DEF Stages
<1>6. workers'[g] = [phase |-> "finish", copy |-> k]
  BY <1>3 DEF ServingInv, WorkersInv
<1>7. row'.gen = row.gen /\ (row'.gen = g => row'.stage # "COMPLETED")
  BY <1>2, <1>5
<1>8. WorkerInv(g)'
  BY <1>2, <1>4, <1>6, <1>7 DEF WorkerInv, Stamped
<1>9. WorkersInv'
  BY <1>2, <1>3, <1>5, <1>8, OneWorkerMoves DEF Phases, ServingInv, WorkersInv
<1> QED  BY <1>3, <1>5, <1>9 DEF ServingInv

LEMMA FinishStep ==
  ASSUME ServingInv, NEW g \in Generations, Finish(g)
  PROVE  ServingInv'
BY WorkerEnds DEF Finish, Stages

LEMMA FailStep ==
  ASSUME ServingInv, NEW g \in Generations, Fail(g)
  PROVE  ServingInv'
BY WorkerEnds DEF Fail, Stages

-----------------------------------------------------------------------------
(* The steps around the workers.                                           *)

LEMMA RevalidateStep ==
  ASSUME ServingInv, Revalidate
  PROVE  ServingInv'
<1> PICK g : g = row.gen + 1
  OBVIOUS
<1>1. PICK k : k = row
  OBVIOUS
<1>2. /\ IsRecord(k) /\ k.gen \in Generations /\ g \in Generations /\ k.report # {}
      /\ HasReport(k) /\ NotAhead(k) /\ SourceKept(k) /\ present
      /\ k.gen < g
  BY <1>1, GenerationsAssumption DEF Revalidate, ServingInv, RowInv, Generations
<1>3. /\ row' = [row EXCEPT !.gen = @ + 1, !.stage = "CREATED", !.evidence = {},
                            !.verdict = {}]
      /\ workers' = [workers EXCEPT ![g] = [phase |-> "execute", copy |-> Loaded(row')]]
      /\ validated' = validated /\ present' = present /\ attempts' = attempts /\ blind' = blind
  BY DEF Revalidate, Worker
<1>4. PICK n : n = row'
  OBVIOUS
<1>5. /\ IsRecord(n) /\ n.gen = g /\ n.stage = "CREATED" /\ n.evidence = {} /\ n.verdict = {}
      /\ n.report = k.report
  <2>1. PICK a : a = [k EXCEPT !.gen = g]
    OBVIOUS
  <2>2. PICK b : b = [a EXCEPT !.stage = "CREATED"]
    OBVIOUS
  <2>3. PICK c : c = [b EXCEPT !.evidence = {}]
    OBVIOUS
  <2>4. PICK d : d = [c EXCEPT !.verdict = {}]
    OBVIOUS
  <2>5. n = d
    BY <1>1, <1>3, <1>4, <2>1, <2>2, <2>3, <2>4
  <2>6. IsRecord(a) /\ a.gen = g /\ a.report = k.report
    BY <1>2, <2>1 DEF IsRecord
  <2>7. IsRecord(b) /\ b.gen = g /\ b.report = k.report /\ b.stage = "CREATED"
    BY <2>2, <2>6 DEF IsRecord
  <2>8. IsRecord(c) /\ c.gen = g /\ c.report = k.report /\ c.stage = "CREATED"
        /\ c.evidence = {}
    BY <2>3, <2>7 DEF IsRecord
  <2>9. IsRecord(d) /\ d.gen = g /\ d.report = k.report /\ d.stage = "CREATED"
        /\ d.evidence = {} /\ d.verdict = {}
    BY <2>4, <2>8 DEF IsRecord
  <2> QED  BY <2>5, <2>9
<1>6. Loaded(n) = n
  <2>1. /\ IsRecord(Loaded(n)) /\ Loaded(n).gen = n.gen /\ Loaded(n).stage = n.stage
        /\ Loaded(n).report = n.report /\ Loaded(n).evidence = {} /\ Loaded(n).verdict = {}
    BY <1>5, LoadedParts
  <2> QED  BY <1>5, <2>1 DEF IsRecord
<1>7. Stored(n) = n
  <2>1. Decodable(n)
    BY <1>5 DEF Decodable
  <2>2. /\ IsRecord(Stored(n)) /\ Stored(n).gen = n.gen /\ Stored(n).stage = n.stage
        /\ Stored(n).report = n.report /\ Stored(n).evidence = {} /\ Stored(n).verdict = {}
    BY <1>5, <2>1, StoredParts
  <2> QED  BY <1>5, <2>2 DEF IsRecord
<1>8. HasReport(n) /\ NotAhead(n) /\ SourceKept(n)
      /\ \A p \in n.report : \A q \in p.proof : q.stamp # g
  BY <1>2, <1>5 DEF HasReport, NotAhead, SourceKept, Generations
<1>9. (HasReport(n) /\ NotAhead(n) /\ SourceKept(n))'
  BY <1>3, <1>8 DEF HasReport, NotAhead, SourceKept
<1>10. PICK t \in BOOLEAN : t
  OBVIOUS
<1>11. Backed(n, t, t)'
  BY <1>5, <1>8, <1>10 DEF Backed, Executed, Proved
<1>12. RowInv'
  <2>1. RowIsBacked(n)'
    BY <1>5, <1>11 DEF RowIsBacked
  <2>2. n.gen \in Generations /\ n.stage \in Stages /\ present'
    BY <1>2, <1>3, <1>5 DEF Stages
  <2> QED  BY <1>4, <1>5, <1>6, <1>7, <1>9, <2>1, <2>2 DEF RowInv
<1>13. CopyIsBacked(n)'
  BY <1>9, <1>11 DEF CopyIsBacked
<1>14. /\ workers'[g] = [phase |-> "execute", copy |-> n]
       /\ \A h \in Generations \ {g} : workers'[h] = workers[h]
       /\ DOMAIN workers' = Generations
  BY <1>2, <1>3, <1>4, <1>6 DEF ServingInv, WorkersInv
<1>15. attempts[g] = {}
  BY <1>1, <1>2, GenerationsAssumption DEF ServingInv, WorkersInv, Generations
<1>16. n.gen <= row'.gen /\ row'.evidence = {} /\ row'.verdict = {}
       /\ row'.stage # "COMPLETED"
  BY <1>2, <1>4, <1>5 DEF Generations
<1>17. WorkerInv(g)'
  BY <1>2, <1>3, <1>5, <1>8, <1>13, <1>14, <1>15, <1>16 DEF WorkerInv
<1>18. \A h \in Generations : WorkerInv(h)'
  <2>1. SUFFICES ASSUME NEW h \in Generations, h # g  PROVE WorkerInv(h)'
    BY <1>17
  <2>2. WorkerInv(h) /\ workers'[h] = workers[h] /\ attempts'[h] = attempts[h]
    BY <1>3, <1>14, <2>1 DEF ServingInv, WorkersInv
  <2>3. row.gen \in Generations /\ row'.gen = g /\ row.gen <= row'.gen
    BY <1>1, <1>2, <1>4, <1>5 DEF Generations
  <2> QED  BY <1>2, <1>3, <2>1, <2>2, <2>3, WorkerFrame
<1>19. workers' \in [Generations -> [phase : Phases, copy : {workers'[h].copy : h \in Generations}]]
  <2>1. \A h \in Generations \ {g} :
          workers'[h] = [phase |-> workers'[h].phase, copy |-> workers'[h].copy]
          /\ workers'[h].phase \in Phases
    BY <1>14 DEF ServingInv, WorkersInv
  <2>2. \A h \in Generations :
          workers'[h] \in [phase : Phases, copy : {workers'[i].copy : i \in Generations}]
    BY <1>2, <1>14, <2>1 DEF Phases
  <2>3. workers' = [h \in Generations |-> workers'[h]]
    BY <1>2, <1>3 DEF ServingInv, WorkersInv
  <2> QED  BY <2>2, <2>3
<1>20. \A h \in Generations : h > row'.gen => workers'[h].phase = "none" /\ attempts'[h] = {}
  <2>1. SUFFICES ASSUME NEW h \in Generations, h > row'.gen
                 PROVE  workers'[h].phase = "none" /\ attempts'[h] = {}
    OBVIOUS
  <2>2. row'.gen = g
    BY <1>4, <1>5
  <2>3. h # g /\ h > row.gen
    BY <1>1, <1>2, <2>1, <2>2, GenerationsAssumption DEF Generations
  <2>4. workers'[h] = workers[h] /\ attempts'[h] = attempts[h]
    BY <1>3, <1>14, <2>3
  <2> QED  BY <2>3, <2>4 DEF ServingInv, WorkersInv
<1>21. WorkersInv'
  BY <1>3, <1>18, <1>19, <1>20 DEF ServingInv, WorkersInv
<1> QED  BY <1>3, <1>12, <1>21 DEF ServingInv

\* Nothing of this is a write of a worker; some workers may be gone.
LEMMA WorkersStay ==
  ASSUME ServingInv, row'.gen = row.gen, validated' = validated, present' => present,
         attempts' = attempts, blind \subseteq blind',
         workers' \in {workers, [g \in Generations |-> NoWorker]},
         row'.stage = "COMPLETED" => row.stage = "COMPLETED",
         row.evidence = {} /\ row.verdict = {} => row'.evidence = {} /\ row'.verdict = {}
  PROVE  WorkersInv'
<1>1. CASE workers' = workers
  <2>1. \A g \in Generations : WorkerInv(g)'
    <3>1. SUFFICES ASSUME NEW g \in Generations  PROVE WorkerInv(g)'
      OBVIOUS
    <3>2. WorkerInv(g) /\ workers'[g] = workers[g] /\ attempts'[g] = attempts[g]
      BY <1>1 DEF ServingInv, WorkersInv
    <3>3. row.gen \in Generations /\ row'.gen \in Generations /\ row.gen <= row'.gen
      BY DEF ServingInv, RowInv, Generations
    <3> QED  BY <3>2, <3>3, WorkerFrame
  <2> QED  BY <1>1, <2>1 DEF ServingInv, WorkersInv
<1>2. CASE workers' = [g \in Generations |-> NoWorker]
  <2>1. \A g \in Generations : workers'[g] = NoWorker /\ workers'[g].phase = "none"
    BY <1>2 DEF NoWorker
  <2>2. workers' \in [Generations -> [phase : Phases,
                                    copy : {workers'[h].copy : h \in Generations}]]
    <3>1. PICK c : c = NoWorker.copy
      OBVIOUS
    <3>2. NoWorker = [phase |-> "none", copy |-> c]
      BY <3>1 DEF NoWorker
    <3>3. \A g \in Generations : workers'[g].copy = c
      BY <2>1, <3>2
    <3>4. \A g \in Generations :
            workers'[g] \in [phase : Phases, copy : {workers'[h].copy : h \in Generations}]
      BY <2>1, <3>2, <3>3 DEF Phases
    <3> QED  BY <1>2, <3>4
  <2> QED  BY <2>1, <2>2 DEF ServingInv, WorkersInv, WorkerInv
<1> QED  BY <1>1, <1>2

LEMMA InterruptStep ==
  ASSUME ServingInv, Interrupt
  PROVE  ServingInv'
<1>1. PICK k : k = row
  OBVIOUS
<1>2. PICK n : n = [k EXCEPT !.stage = "FAILED"]
  OBVIOUS
<1>3. row' = n /\ validated' = validated /\ present' = present /\ attempts' = attempts
      /\ blind' = blind
  BY <1>1, <1>2 DEF Interrupt
<1>4. /\ IsRecord(n) /\ n.gen = k.gen /\ n.stage = "FAILED" /\ n.evidence = k.evidence
      /\ n.verdict = k.verdict /\ n.report = k.report
  BY <1>1, <1>2, StageChanges DEF ServingInv, RowInv
<1>5. RowInv'
  BY <1>1, <1>3, <1>4, RowFrame DEF ServingInv, Terminal
<1>6. WorkersInv'
  BY <1>1, <1>3, <1>4, WorkersStay DEF Interrupt
<1> QED  BY <1>3, <1>5, <1>6 DEF ServingInv

LEMMA ReingestStep ==
  ASSUME ServingInv, Reingest
  PROVE  ServingInv'
<1>1. RowInv'
  BY RowFrame DEF Reingest, ServingInv, RowInv
<1>2. WorkersInv'
  BY WorkersStay DEF Reingest
<1> QED  BY <1>1, <1>2 DEF ServingInv, Reingest

\* What decayed does not decode.
LEMMA DecayStep ==
  ASSUME ServingInv, Decay
  PROVE  ServingInv'
<1>1. PICK raw \in row.evidence :
        row' \in {[row EXCEPT !.evidence = {[raw EXCEPT !.whole = FALSE]}],
                 [row EXCEPT !.evidence = {[raw EXCEPT !.version = 2]}],
                 [row EXCEPT !.evidence =
                    {[raw EXCEPT !.payload.graph.comparisons =
                        {[c EXCEPT !.result = "MATCH", !.differs = FALSE] : c \in @}]}]}
  BY DEF Decay
<1>2. PICK new : /\ new \in {[raw EXCEPT !.whole = FALSE], [raw EXCEPT !.version = 2],
                             [raw EXCEPT !.payload.graph.comparisons =
                                {[c EXCEPT !.result = "MATCH", !.differs = FALSE] : c \in @}]}
                 /\ row' = [row EXCEPT !.evidence = {new}]
  BY <1>1
<1>3. row' # row /\ Readable(row)
      /\ validated' = validated /\ present' = present /\ attempts' = attempts
      /\ workers' = workers /\ blind' = blind
  BY DEF Decay
<1>4. PICK k : k = row
  OBVIOUS
<1>5. /\ IsRecord(row') /\ row'.gen = row.gen /\ row'.stage = row.stage
      /\ row'.evidence = {new} /\ row'.verdict = row.verdict /\ row'.report = row.report
  <2>1. IsRecord(k)
    BY <1>4 DEF ServingInv, RowInv
  <2>2. PICK n : n = [k EXCEPT !.evidence = {new}]
    OBVIOUS
  <2>3. /\ IsRecord(n) /\ n.gen = k.gen /\ n.stage = k.stage
        /\ n.evidence = {new} /\ n.verdict = k.verdict /\ n.report = k.report
    BY <2>1, <2>2 DEF IsRecord
  <2> QED  BY <1>2, <1>4, <2>2, <2>3
<1>6. PICK l : l = Loaded(row)
  OBVIOUS
<1>7. row = Stored(l) /\ RowIsBacked(l) /\ IsRecord(l)
  BY <1>3, <1>6, LoadedParts DEF ServingInv, RowInv
<1>8. Decodable(l)
  BY <1>7, ExecutedIsDecodable DEF RowIsBacked, Backed
<1>9. row.evidence = {encode_envelope(SCHEMA_EVIDENCE, e) : e \in l.evidence}
  BY <1>7, <1>8, StoredParts
<1>10. PICK e : /\ row.evidence = {raw} /\ raw = encode_envelope(SCHEMA_EVIDENCE, e)
                /\ \E m : e = sealed(m)
  <2>1. PICK e \in l.evidence : raw = encode_envelope(SCHEMA_EVIDENCE, e)
    BY <1>9
  <2>2. l.evidence = {e} /\ \E m : e = sealed(m)
    BY <1>7, <2>1 DEF RowIsBacked, Backed, Executed, EvidenceOf
  <2> QED  BY <1>9, <2>1, <2>2
<1>11. PICK m : e = sealed(m)
  BY <1>10
<1>12. raw = [schema |-> SCHEMA_EVIDENCE, version |-> 1, whole |-> TRUE,
              payload |-> [graph |-> m, seal |-> m]]
  BY <1>10, <1>11 DEF encode_envelope, sealed, CURRENT_SCHEMA_VERSION
<1>13. new # raw
  <2>1. SUFFICES ASSUME new = raw  PROVE row' = row
    BY <1>3
  <2>2. IsRecord(row)
    BY DEF ServingInv, RowInv
  <2> QED  BY <1>5, <1>10, <2>1, <2>2 DEF IsRecord
<1>14. ~decode_evidence_manifest(new)
  <2>1. CASE new = [raw EXCEPT !.whole = FALSE]
    BY <1>12, <2>1 DEF decode_evidence_manifest, decode_fields
  <2>2. CASE new = [raw EXCEPT !.version = 2]
    BY <1>12, <2>2 DEF decode_evidence_manifest, decode_envelope, CURRENT_SCHEMA_VERSION
  <2>3. CASE new = [raw EXCEPT !.payload.graph.comparisons =
                      {[c EXCEPT !.result = "MATCH", !.differs = FALSE] : c \in @}]
    <3>1. PICK z : z = [m EXCEPT !.comparisons =
                          {[c EXCEPT !.result = "MATCH", !.differs = FALSE] : c \in @}]
      OBVIOUS
    <3>2. new = [schema |-> SCHEMA_EVIDENCE, version |-> 1, whole |-> TRUE,
                 payload |-> [graph |-> z, seal |-> m]]
      BY <1>12, <2>3, <3>1
    <3>3. z # m
      BY <1>12, <1>13, <3>2
    <3> QED  BY <3>2, <3>3 DEF decode_evidence_manifest, sealed
  <2> QED  BY <1>2, <2>1, <2>2, <2>3
<1>15. ~Readable(row')
  BY <1>5, <1>14 DEF Readable
<1>16. (HasReport(row) /\ NotAhead(row) /\ SourceKept(row))'
  BY <1>3, <1>5 DEF ServingInv, RowInv, HasReport, NotAhead, SourceKept
<1>17. RowInv'
  BY <1>3, <1>5, <1>15, <1>16 DEF ServingInv, RowInv
<1>18. WorkersInv'
  BY <1>1, <1>3, <1>5, WorkersStay
<1> QED  BY <1>3, <1>17, <1>18 DEF ServingInv

-----------------------------------------------------------------------------
(* The invariant.                                                          *)

LEMMA ServingInitially == ServingInit => ServingInv
<1> SUFFICES ASSUME ServingInit  PROVE ServingInv
  OBVIOUS
<1>1. PICK n : n = Record(0, "CREATED")
  OBVIOUS
<1>2. /\ IsRecord(n) /\ n.gen = 0 /\ n.stage = "CREATED" /\ n.evidence = {} /\ n.verdict = {}
      /\ n.report = {}
  BY <1>1 DEF Record, IsRecord
<1>3. row = n /\ present /\ validated \in Sources /\ 0 \in Generations
  BY <1>1, GenerationsAssumption DEF ServingInit, Generations
<1>4. Loaded(n) = n
  <2>1. /\ IsRecord(Loaded(n)) /\ Loaded(n).gen = n.gen /\ Loaded(n).stage = n.stage
        /\ Loaded(n).report = n.report /\ Loaded(n).evidence = {} /\ Loaded(n).verdict = {}
    BY <1>2, LoadedParts
  <2> QED  BY <1>2, <2>1 DEF IsRecord
<1>5. Stored(n) = n
  <2>1. Decodable(n)
    BY <1>2 DEF Decodable
  <2>2. /\ IsRecord(Stored(n)) /\ Stored(n).gen = n.gen /\ Stored(n).stage = n.stage
        /\ Stored(n).report = n.report /\ Stored(n).evidence = {} /\ Stored(n).verdict = {}
    BY <1>2, <2>1, StoredParts
  <2> QED  BY <1>2, <2>2 DEF IsRecord
<1>6. PICK t \in BOOLEAN : t
  OBVIOUS
<1>7. Backed(n, t, t)
  BY <1>2, <1>6 DEF Backed, Executed, Proved
<1>8. HasReport(n) /\ NotAhead(n) /\ SourceKept(n)
  BY <1>2 DEF HasReport, NotAhead, SourceKept
<1>9. RowInv
  <2>1. RowIsBacked(n)
    BY <1>2, <1>7 DEF RowIsBacked
  <2> QED  BY <1>2, <1>3, <1>4, <1>5, <1>8, <2>1 DEF RowInv, Stages
<1>10. CopyIsBacked(n)
  BY <1>7, <1>8 DEF CopyIsBacked
<1>11. \A g \in Generations : /\ attempts[g] = {}
                              /\ g = 0 => workers[g] = [phase |-> "generate", copy |-> n]
                              /\ g # 0 => workers[g] = [phase |-> "none", copy |-> n]
  BY <1>1 DEF ServingInit, NoWorker
<1>12. \A g \in Generations : WorkerInv(g)
  <2>1. SUFFICES ASSUME NEW g \in Generations  PROVE WorkerInv(g)
    OBVIOUS
  <2>2. CASE g = 0
    BY <1>2, <1>3, <1>10, <1>11, <2>2 DEF WorkerInv
  <2>3. CASE g # 0
    BY <1>11, <2>3 DEF WorkerInv
  <2> QED  BY <2>2, <2>3
<1>13. workers \in [Generations -> [phase : Phases, copy : {workers[g].copy : g \in Generations}]]
  <2>1. workers = [g \in Generations |-> workers[g]]
    BY DEF ServingInit
  <2>2. \A g \in Generations :
          workers[g] \in [phase : Phases, copy : {workers[h].copy : h \in Generations}]
    <3>1. \A g \in Generations : workers[g].copy = n
      BY <1>11
    <3> QED  BY <1>11, <3>1 DEF Phases
  <2> QED  BY <2>1, <2>2
<1>14. attempts \in [Generations -> SUBSET Worlds]
  BY DEF ServingInit
<1>15. \A g \in Generations : g > row.gen => workers[g].phase = "none" /\ attempts[g] = {}
  BY <1>2, <1>3, <1>11 DEF Generations
<1> QED  BY <1>3, <1>9, <1>12, <1>13, <1>14, <1>15 DEF ServingInv, WorkersInv

LEMMA ServingInduction == ServingInv /\ [ServingNext]_servingVars => ServingInv'
<1> SUFFICES ASSUME ServingInv, [ServingNext]_servingVars  PROVE ServingInv'
  OBVIOUS
<1>1. ASSUME NEW g \in Generations,
             \/ Generate(g) \/ Execute(g) \/ Observe(g) \/ PersistProof(g)
             \/ SaveValidation(g) \/ Finish(g) \/ Fail(g)
      PROVE  ServingInv'
  BY <1>1, GenerateStep, ExecuteStep, ObserveStep, PersistProofStep, SaveValidationStep,
     FinishStep, FailStep
<1>2. CASE UNCHANGED servingVars
  <2>1. row' = row /\ workers' = workers /\ validated' = validated /\ present' = present
        /\ attempts' = attempts /\ blind' = blind
    BY <1>2 DEF servingVars
  <2>2. RowInv'
    BY <2>1, RowFrame DEF ServingInv, RowInv
  <2>3. WorkersInv'
    BY <2>1, WorkersStay
  <2> QED  BY <2>1, <2>2, <2>3 DEF ServingInv
<1> QED
  BY <1>1, <1>2, RevalidateStep, InterruptStep, ReingestStep, DecayStep DEF ServingNext

LEMMA ServingIsInductive == ServingSpec => []ServingInv
BY ServingInitially, ServingInduction, PTL DEF ServingSpec

-----------------------------------------------------------------------------
(* What is served.                                                         *)

\* An answer is of a row that decodes, and shows what the attempt left in it.
LEMMA AnswersAreOfTheRow ==
  ASSUME ServingInv, NEW a \in Answers
  PROVE  LET r == Loaded(row) IN
         /\ Readable(row) /\ RowIsBacked(r)
         /\ r.gen = row.gen /\ r.stage = row.stage /\ r.report = row.report
         /\ r.evidence = {raw.payload : raw \in row.evidence}
         /\ a.state = {v.state : v \in r.verdict}
         /\ a.there \in {present, FALSE}
         /\ a.proof = {} \/ a.proof = current_integrated_proof(r, a.there)
<1>1. Readable(row) /\ \E there \in {present, FALSE} :
        a \in run_verdict_state(Loaded(row), there) \cup get_verdict(Loaded(row), there)
                \cup served_proof(Loaded(row), there)
  BY DEF Answers
<1>2. PICK there \in {present, FALSE} :
        \/ a = Answer(Loaded(row), there, {})
        \/ a = Answer(Loaded(row), there, current_integrated_proof(Loaded(row), there))
  BY <1>1 DEF run_verdict_state, get_verdict, served_proof
<1>3. RowIsBacked(Loaded(row)) /\ IsRecord(row)
  BY <1>1 DEF ServingInv, RowInv
<1>4. PICK r : r = Loaded(row)
  OBVIOUS
<1>5. /\ r.gen = row.gen /\ r.stage = row.stage /\ r.report = row.report
      /\ r.evidence = {raw.payload : raw \in row.evidence}
  BY <1>3, <1>4, LoadedParts
<1>6. /\ a.state = {v.state : v \in r.verdict} /\ a.there = there
      /\ a.proof = {} \/ a.proof = current_integrated_proof(r, there)
  BY <1>2, <1>4 DEF Answer
<1>7. Readable(row) /\ RowIsBacked(r)
  BY <1>1, <1>3, <1>4
<1>8. a.there \in {present, FALSE} /\ (a.proof = {} \/ a.proof = current_integrated_proof(r, a.there))
  BY <1>6
<1> QED  BY <1>4, <1>5, <1>6, <1>7, <1>8

\* A VERIFIED verdict of the row is of a world in which the two executions of
\* its attempt were equivalent and nothing went unobserved.
LEMMA VerifiedIsOfAnEquivalentWorld ==
  ASSUME ServingInv, NEW r, NEW before \in BOOLEAN, Executed(r, before),
         r.gen \in Generations, "VERIFIED" \in {v.state : v \in r.verdict}
  PROVE  \E w \in attempts[r.gen] :
           /\ w \in Worlds /\ Equivalent(w) /\ unobserved_effects(before) = FALSE
           /\ r.evidence = {EvidenceOf(r.gen, w, before)}
           /\ r.verdict = {verdict_of(EvidenceOf(r.gen, w, before))}
<1>1. PICK w \in attempts[r.gen] : /\ r.evidence = {EvidenceOf(r.gen, w, before)}
                                   /\ r.verdict = {verdict_of(EvidenceOf(r.gen, w, before))}
  BY DEF Executed
<1>2. w \in Worlds
  BY DEF ServingInv, WorkersInv
<1>3. PICK effects \in BOOLEAN : effects = unobserved_effects(before)
  BY DEF unobserved_effects
<1>4. PICK m : m = manifest(r.gen, w, effects)
  OBVIOUS
<1>5. EvidenceOf(r.gen, w, before) = sealed(m)
  BY <1>3, <1>4 DEF EvidenceOf
<1>6. verdict_of(sealed(m)).state = "VERIFIED"
  BY <1>1, <1>5
<1>7. sealed(m).graph = m
  BY DEF sealed
<1>8. derive(m) = "VERIFIED" /\ Admitted(sealed(m))
  BY <1>6, <1>7 DEF verdict_of
<1>9. Equivalent(w) /\ ~effects
  BY <1>2, <1>4, <1>8, WorldIsEquivalent
<1> QED  BY <1>1, <1>2, <1>3, <1>9

\* Every view that shows VERIFIED shows the verdict of an attempt whose two
\* executions were equivalent, the one the row is in (_gate_served_verdict).
THEOREM ServedVerdictBacked == ServingSpec => []ServedVerdictIsBacked
<1>1. ASSUME ServingInv  PROVE ServedVerdictIsBacked
  <2>1. SUFFICES ASSUME NEW a \in Answers, "VERIFIED" \in a.state
                 PROVE  /\ \E w \in attempts[row.gen] :
                             Equivalent(w) /\ \E e \in row.evidence : e.payload.graph.run = row.gen
                        /\ SourceSeen => \A m \in validated.members : m.lane = "MQI"
    BY DEF ServedVerdictIsBacked
  <2>2. PICK r : r = Loaded(row)
    OBVIOUS
  <2>3. /\ RowIsBacked(r) /\ r.gen = row.gen
        /\ r.evidence = {raw.payload : raw \in row.evidence}
        /\ a.state = {v.state : v \in r.verdict}
    BY <1>1, <2>2, AnswersAreOfTheRow
  <2>4. PICK before \in BOOLEAN : Executed(r, before) /\ (SourceSeen => before)
    BY <2>3 DEF RowIsBacked, Backed, SourceSeen
  <2>5. PICK w \in attempts[r.gen] :
          /\ Equivalent(w) /\ r.evidence = {EvidenceOf(r.gen, w, before)}
          /\ unobserved_effects(before) = FALSE
    BY <1>1, <2>1, <2>3, <2>4, VerifiedIsOfAnEquivalentWorld DEF ServingInv, RowInv
  <2>6. EvidenceOf(r.gen, w, before).graph.run = r.gen
    BY DEF EvidenceOf, sealed, manifest
  <2>7. SourceSeen => \A m \in validated.members : m.lane = "MQI"
    BY <2>4, <2>5 DEF unobserved_effects
  <2> QED  BY <2>3, <2>5, <2>6, <2>7
<1> QED  BY <1>1, ServingIsInductive, PTL

\* What has to be so for the central gate to say VERIFIED.
LEMMA CentralGate ==
  ASSUME NEW report, report.components \in Reports, NEW runtime, NEW status, NEW extra,
         \A x \in extra : x.proof_state = "BLOCKED", NEW stamp,
         proof_payload(report, runtime, status, extra, stamp).central = "VERIFIED"
  PROVE  /\ runtime.state = "VERIFIED"
         /\ status = "NOT_PRESENT" /\ extra = {} /\ report.components # {}
         /\ \A c \in report.components :
              /\ c.level = "SUPPORTED" /\ c.kind \in KnownKinds
              /\ c.kind = "FILE" => \E x \in runtime.results : x[1] \in FILE_ARTIFACT_TYPES
<1> DEFINE ledger == build_dependency_ledger(report.components, runtime, extra, status)
<1>1. /\ runtime.state = "VERIFIED" /\ ledger # {}
      /\ \A e \in ledger : e.proof_state = "PROVEN"
  BY DEF proof_payload, evaluate_central_status
<1>2. extra = {}
  BY <1>1 DEF build_dependency_ledger
<1>3. status = "NOT_PRESENT"
  <2>1. jcl_ledger_entry(status).proof_state # "PROVEN"
    BY DEF jcl_ledger_entry
  <2> QED  BY <1>1, <2>1 DEF build_dependency_ledger
<1>4. report.components # {}
  BY <1>1, <1>2, <1>3 DEF build_dependency_ledger
<1>5. ASSUME NEW c \in report.components
      PROVE  /\ c.level = "SUPPORTED" /\ c.kind \in KnownKinds
             /\ c.kind = "FILE" => \E x \in runtime.results : x[1] \in FILE_ARTIFACT_TYPES
  <2>1. [id |-> <<c.kind, c.id>>, kind |-> c.kind, level |-> c.level,
         proof_state |-> proof_state_for(c.kind, c.level, runtime)] \in ledger
    BY <1>5 DEF build_dependency_ledger
  <2>2. proof_state_for(c.kind, c.level, runtime) = "PROVEN"
    BY <1>1, <2>1
  <2>3. c.kind \in KnownKinds /\ c.level \notin {"UNSUPPORTED", "UNAVAILABLE", "PARTIAL", "UNKNOWN"}
    BY <2>2 DEF proof_state_for
  <2>4. c.level \in {"SUPPORTED", "PARTIAL", "UNKNOWN", "UNAVAILABLE", "UNSUPPORTED"}
    BY <1>5, ReportsAssumption
  <2>5. c.kind = "FILE" => \E x \in runtime.results : x[1] \in FILE_ARTIFACT_TYPES
    BY <2>2 DEF proof_state_for
  <2> QED  BY <2>3, <2>4, <2>5
<1> QED  BY <1>1, <1>2, <1>3, <1>4, <1>5

\* What the source still has to offer is outside the runtime lane.
LEMMA ExtraIsBlocked ==
  ASSUME NEW there, NEW x \in external_dependency_entries_for_source(there)
  PROVE  x.proof_state = "BLOCKED"
<1>1. PICK m : x \in Edge(m)
  BY DEF external_dependency_entries_for_source, extract_external_dependency_entries,
         extract_db2_dependency_entries, extract_cics_dependency_entries
<1> QED  BY <1>1 DEF Edge

LEMMA NothingOutsideTheLane ==
  ASSUME NEW there, there, external_dependency_entries_for_source(there) = {},
         unobserved_effects(there) = FALSE
  PROVE  \A m \in validated.members : m.lane = "MQI" /\ ~(m.cobol /\ m.names)
<1>1. SUFFICES ASSUME NEW m \in validated.members
               PROVE  m.lane = "MQI" /\ ~(m.cobol /\ m.names)
  OBVIOUS
<1>2. m.lane = "MQI"
  BY DEF unobserved_effects
<1>3. ASSUME m.cobol, m.names  PROVE FALSE
  <2>1. Edge(m) \subseteq external_dependency_entries_for_source(there)
    BY <1>2, <1>3 DEF external_dependency_entries_for_source,
                      extract_external_dependency_entries
  <2> QED  BY <2>1 DEF Edge
<1> QED  BY <1>2, <1>3

\* The application is VERIFIED as a whole only if the attempt the row is in has
\* earned it (_current_integrated_proof, "the gate can only downgrade").
THEOREM ServedProofEarned == ServingSpec => []ServedProofIsEarned
<1>1. ASSUME ServingInv, NEW a \in Answers, NEW p \in a.proof, p.central = "VERIFIED"
      PROVE  /\ "VERIFIED" \in a.state
             /\ \E w \in attempts[row.gen] :
                  /\ Equivalent(w)
                  /\ (\E r \in row.report : \E c \in r.components : c.kind = "FILE")
                       => w.contract \cap FILE_ARTIFACT_TYPES # {}
             /\ \A r \in row.report :
                  r.components # {}
                  /\ \A c \in r.components : c.level = "SUPPORTED" /\ c.kind \in KnownKinds
             /\ a.there \/ (row.stage # "FAILED" /\ SourceSeen) => InRuntimeLane
  <2>1. PICK r : r = Loaded(row)
    OBVIOUS
  <2>2. /\ RowIsBacked(r) /\ r.gen = row.gen /\ r.stage = row.stage /\ r.report = row.report
        /\ a.state = {v.state : v \in r.verdict} /\ a.there \in {present, FALSE}
        /\ a.proof = current_integrated_proof(r, a.there)
    BY <1>1, <2>1, AnswersAreOfTheRow
  <2>3. PICK before, after \in BOOLEAN :
          /\ Backed(r, before, after)
          /\ r.stage # "FAILED" /\ r.verdict # {} => Stamped(r)
    BY <2>2 DEF RowIsBacked
  <2>4. PICK q \in r.report :
          p \in IF \E x \in q.proof : x.stamp = r.gen THEN q.proof
                ELSE {proof_payload(q, runtime_evidence(r.evidence, r.verdict),
                        IF q.jcl # {} THEN The(q.jcl) ELSE jcl_status_for_source(a.there),
                        external_dependency_entries_for_source(a.there), NoStamp)}
    BY <1>1, <2>2 DEF current_integrated_proof
  <2>5. r.report = {q} /\ q.components \in Reports /\ SourceKept(row)
    BY <1>1, <2>2, <2>4 DEF ServingInv, RowInv, HasReport
  <2>6. PICK there, status, stamp :
          /\ p = proof_payload(q, runtime_evidence(r.evidence, r.verdict), status,
                               external_dependency_entries_for_source(there), stamp)
          /\ (r.stage # "FAILED" /\ r.verdict # {} /\ SourceSeen) \/ a.there =>
               there /\ status = validated.jcl
    <3>1. CASE \E x \in q.proof : x.stamp = r.gen
      <4>1. p = ProofOf(r, q, after)
        BY <2>3, <2>4, <3>1 DEF Backed, Proved
      <4>2. SourceSeen \/ a.there => after
        BY <2>2, <2>3 DEF Backed, SourceSeen
      <4>3. SourceSeen \/ a.there =>
              jcl_status_for_source(after) = validated.jcl
        BY <4>2 DEF jcl_status_for_source
      <4> QED  BY <4>1, <4>2, <4>3 DEF ProofOf
    <3>2. CASE ~\E x \in q.proof : x.stamp = r.gen
      <4>1. ~(r.stage # "FAILED" /\ r.verdict # {})
        BY <2>3, <2>4, <3>2 DEF Stamped
      <4>2. PICK status : status = IF q.jcl # {} THEN The(q.jcl)
                                   ELSE jcl_status_for_source(a.there)
        OBVIOUS
      <4>3. a.there => status = validated.jcl
        <5>1. SUFFICES ASSUME a.there  PROVE status = validated.jcl
          OBVIOUS
        <5>2. q.jcl \subseteq {validated.jcl}
          BY <2>2, <2>5, <5>1 DEF SourceKept
        <5>3. q.jcl # {} => The(q.jcl) = validated.jcl
          BY <5>2 DEF The
        <5> QED  BY <4>2, <5>1, <5>3 DEF jcl_status_for_source
      <4>4. p = proof_payload(q, runtime_evidence(r.evidence, r.verdict), status,
                              external_dependency_entries_for_source(a.there), NoStamp)
        BY <2>4, <3>2, <4>2
      <4> QED  BY <4>1, <4>3, <4>4
    <3> QED  BY <3>1, <3>2
  <2>7. PICK extra : extra = external_dependency_entries_for_source(there)
    OBVIOUS
  <2>8. PICK runtime : runtime = runtime_evidence(r.evidence, r.verdict)
    OBVIOUS
  <2>9. \A x \in extra : x.proof_state = "BLOCKED"
    BY <2>7, ExtraIsBlocked
  <2>10. proof_payload(q, runtime, status, extra, stamp).central = "VERIFIED"
    BY <1>1, <2>6, <2>7, <2>8
  <2>11. /\ runtime.state = "VERIFIED"
         /\ status = "NOT_PRESENT" /\ extra = {} /\ q.components # {}
         /\ \A c \in q.components :
              /\ c.level = "SUPPORTED" /\ c.kind \in KnownKinds
              /\ c.kind = "FILE" => \E x \in runtime.results : x[1] \in FILE_ARTIFACT_TYPES
    BY <2>5, <2>9, <2>10, CentralGate
  <2>12. r.verdict # {} /\ The(r.verdict).state = "VERIFIED"
    BY <2>8, <2>11 DEF runtime_evidence
  <2>13. "VERIFIED" \in {v.state : v \in r.verdict}
    BY <2>12 DEF The
  <2>14. PICK w \in attempts[r.gen] :
           /\ Equivalent(w) /\ unobserved_effects(before) = FALSE
           /\ r.evidence = {EvidenceOf(r.gen, w, before)}
    BY <1>1, <2>2, <2>3, <2>13, VerifiedIsOfAnEquivalentWorld DEF ServingInv, RowInv, Backed
  <2>15. ASSUME NEW c \in q.components, c.kind = "FILE"
         PROVE  w.contract \cap FILE_ARTIFACT_TYPES # {}
    <3>1. PICK x \in runtime.results : x[1] \in FILE_ARTIFACT_TYPES
      BY <2>11, <2>15
    <3>2. PICK effects : effects = unobserved_effects(before)
      OBVIOUS
    <3>3. EvidenceOf(r.gen, w, before).graph = manifest(r.gen, w, effects)
      BY <3>2 DEF EvidenceOf, sealed
    <3>4. PICK y \in manifest(r.gen, w, effects).comparisons : x = <<y.type, y.result>>
      BY <2>8, <2>14, <3>3 DEF runtime_evidence
    <3>5. PICK t \in artifact_types(w, effects) : y = ComparisonOf(r.gen, w, t)
      BY <3>4, ComparisonsOfManifest
    <3>6. t \in FILE_ARTIFACT_TYPES
      BY <3>1, <3>4, <3>5 DEF ComparisonOf
    <3>7. t \in w.contract
      BY <3>5, <3>6 DEF artifact_types, FILE_ARTIFACT_TYPES
    <3> QED  BY <3>6, <3>7
  <2>16. ASSUME a.there \/ (row.stage # "FAILED" /\ SourceSeen)
         PROVE  InRuntimeLane
    <3>1. there /\ status = validated.jcl
      BY <2>2, <2>6, <2>12, <2>16
    <3>2. before
      BY <2>2, <2>3, <2>16 DEF Backed, SourceSeen
    <3>3. unobserved_effects(there) = FALSE
      BY <2>14, <3>1, <3>2 DEF unobserved_effects
    <3> QED  BY <2>7, <2>11, <3>1, <3>3, NothingOutsideTheLane DEF InRuntimeLane
  <2> QED  BY <2>2, <2>5, <2>11, <2>13, <2>14, <2>15, <2>16
<1>2. ServingInv => ServedProofIsEarned
  BY <1>1 DEF ServedProofIsEarned
<1> QED  BY <1>2, ServingIsInductive, PTL
=============================================================================
