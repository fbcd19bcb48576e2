# A verification development of the COBOL-to-Java modernization system

The system takes a COBOL source tree, generates a Java application from it, runs
both programs in containers, compares everything observable, and derives a
verdict. A customer can approve, and then download, a generated application only
when its verdict is VERIFIED and the bytes are those that were executed.

Two promises follow from that. The *control plane* promises that a verdict is
what it says: of this attempt, of these bytes, earned by two executions that
agreed. The *translation lane* promises that what it accepts it translates
faithfully, and refuses the rest. These TLA+ modules model both, TLC checks them
on small instances, and the TLA+ proof system proves the central properties for
every value of the constants.

Paths below are relative to `src/`.

## 1. Inventory

### Components

| component | source | state | operations | modules |
|---|---|---|---|---|
| run store | `api/store.py` | SQLite tables `runs`, `approval_events`; one connection behind one lock | `add_run`, `update_run`, `set_run_approval`, `set_generated_seal`, `set_run_generated`, `begin_revalidation`, `mark_interrupted_runs` | `RunLifecycle`, `ControlPlane`, `ServedProof` |
| service and background workers | `api/service.py` | job counter, one daemon thread per attempt with its own copy of the run record | `modernize`, `revalidate`, the two background workers, `_run_validation`, `_persist_final`, approval, the served views | `ControlPlane`, `ServedProof` |
| bundle seal and export | `api/artifact_seal.py`, `api/app.py` | generated project directory, seal column | seal, verify, read-and-verify for download, startup reconciliation | `ControlPlane`, `CertifiedExport` |
| applications and source workspaces | `api/service.py`, `api/store.py`, `api/ingestion.py`, `api/paths.py` | table `applications`, source directories | create, upload, ingest, clean up; reads by runs | `SourceWorkspace` |
| validation pipeline | `engine/pipeline.py`, `engine/workload.py`, `api/workload_contract.py` | evidence collected so far | stage, oracle, build, execute, compare, scan for unobserved effects, validate, derive | `ValidationPipeline` |
| oracle and candidate adapters | `engine/oracle`, `engine/candidate`, `engine/execution`, `engine/docker_cli.py` | staging directories, observed image identities, containers | verify images, run, time out, clean up, classify | `ValidationPipeline`, `Containers`, `EntryProgram` |
| comparators | `engine/comparators` | none | typed comparison of streams, exit codes, files, business rules | `ValidationPipeline` |
| evidence and verdict | `engine/evidence`, `engine/verdict` | sealed manifest | admission of evidence, ordered verdict rules | `ValidationPipeline`, `EvidenceIntegrity` |
| serialization | `api/serialization.py` | envelopes and seals of stored payloads | encode, decode, refuse | `ServedProof` |
| modernization orchestration | `engine/modernization` | per-application report, integrated proof | discovery, capability analysis, plan, transformation, assembly, proof | `Modernization`, `ServedProof`, `EntryProgram` |
| transformation engine | `engine/transformation` | syntax trees, intermediate form; at run time the fields, maps and files of the generated program | parsing, lowering, the generated support classes | `FileIo`, `KeyedFile`, `ControlFlow`, `StatementScopes`, `Arithmetic`, `Conditions`, `TextStorage` |
| JCL, CICS, SQL | `engine/jcl`, `engine/transformation/jcl_*.py`, `engine/cics`, `engine/sql` | jobs, steps, data sets | JCL member to Spring Batch profile; external edges | `BatchJobs`, `ServedProof` |
| HTTP shell | `api/app.py` and helpers | rate-limit counters | authentication, mapping of errors | not modelled |
| verification, domain, contracts | `engine/verification`, `engine/domain`, `engine/contracts` | none | pure evaluation and value types | not modelled |
| frontend, deployment, tools | `frontend`, `deployment`, `docker`, `scripts`, `tools` | none of its own | polling and rendering, images | not modelled |

### How they interact

Request threads call the service; the service calls the store, one transaction
per call, and starts daemon threads. Nothing is held across two store calls, so
between any two of them another request, another worker, a crash or another
process may act. A worker keeps a private copy of the run record and writes
*every* column of it back with each progress step. Each run has a
`validation_generation`; each reset increments it, and writes of an older
generation are refused. The generated bundle and the COBOL source are plain
directories, shared by path: uploads delete what runs may still read, and a
bundle may be changed by anyone with access to the volume, also while a worker
is building, executing or sealing it.

Generation goes through `UniversalModernizationPipeline.execute`: discovery
reads the tree, the capability analysis classifies every program and copybook,
the plan transforms what is supported, and the parser and the mapper turn each
program into Java which calls a few generated support classes. Validation then
runs the original under GnuCOBOL and the Java in a container of its own; an
execution is a docker client this process waits for and a container that does
not wait for anybody. What is served of a run is recomputed on each read from
the stored row and the source tree, if it is still there.

### What is hard

* Writes of a worker against a reset, a second process's reconciliation, or the
  end of its own run (`update_run`, `is_valid_transition`).
* Checks that precede what they protect: approval gates, the revalidation
  target, the active-run check of uploads, the free-name check.
* Three writes that must agree: proof, seal, verdict; a seal that is hashed from
  disk when the execution is over.
* Crashes and store failures at every step, with a bounded number of retries
  for the terminal write only; slots that must be given back exactly once.
* A source tree that is read several times during a validation and may be gone
  for one of the reads; a stored proof recomputed without it.
* A client, a container and a watchdog that end in any order; tags that move
  between the verification of an image and its use.
* A verdict derived by the first of several rules from evidence that may be
  missing, inconclusive or corrupt.
* An analysis that decides, from names and from a scan of text, about programs
  that something else parses, merges and lowers.
* Java that keeps apart what COBOL keeps together (storage of groups and
  REDEFINES, the stack of PERFORMs, one run unit of several programs) and
  computes in `int`, `long` and `BigDecimal` what COBOL computes in digits.

`PROJECT.json` lists each hazard at its line with the properties aimed at it.

### What makes each component correct

* Run store and workers: a stored verdict belongs to the attempt the run is in;
  a run ends; a terminal result changes only by a new attempt; a COMPLETED run
  has verdict, evidence, proof and seal of one attempt; slots match threads.
* Approval and export: APPROVED implies VERIFIED in the current attempt; what was
  signed is a tree of the signed attempt, the one its seal found; what is
  exported was signed.
* Validation: VERIFIED implies equality with a usable reference on every stream,
  exit code and file, and no unobserved effects; FAILED has a cause; what is
  compared is a whole execution of a verified image by the same program.
* Serving: no view shows VERIFIED unless this attempt earned it.
* Workspaces: a recorded source exists, a source about to be recorded exists, a
  run in progress has its source, names are unique.
* Modernization: only what is supported, to the last nested copybook, is
  generated; its CALLs dispatch and do not recurse; the report is true.
* Translation: the Java displays, decides, stores and writes what COBOL does, or
  the program is refused.

## 2. Modules

A module's comments name the code each definition translates; `PROJECT.json`
("map") gives the lines.

### Control plane

**RunLifecycle** has the stages, their order and `is_valid_transition`.

**ControlPlane.** `db` is the runs table with the last row of each run's approval
trail; `bundle` the contents of each run's project directory; `pc` and `mem` the
program counter and record copy of the worker of each attempt (run, generation);
`jobs` is `_active_jobs`; `req` is what each request thread is doing. `signed`
and `exported` are history variables for the properties.

| actions | code |
|---|---|
| `ModernizeSlot`, `AddRun`, `AddRunFails`, `Launch` | `modernize`, `_launch` |
| `RevalidateCheck`, `RevalidateSlot`, `Reset` | `_revalidation_target`, `revalidate`, `begin_revalidation` |
| `Load`, `GenerationPhase`, `GenerationDone`, `InterimSeal`, `RecordBundle` | `_modernize_background`, `_generate_application` |
| `ExecuteOracle`, `StartBuild`, `Build`, `Compare`, `DeriveVerdict` | `VerticalSlicePipeline.run` as seen through its progress callback |
| `ProveAndSeal`, `StoreSeal`, `SaveVerdict` | the end of `_run_validation` |
| `PipelineRaises`, `PersistFinal`, `Release` | exception paths, `_persist_final`, the `finally` of `_launch` |
| `ApproveLoad`, `ApproveVerify`, `ApproveWrite`, `RejectRun` | `set_run_approval` in service and store |
| `DownloadLoad`, `DownloadRead` | `download_generated`, `read_verified_bundle` |
| `DiskChange`, `Restart`, `OtherProcessStarts` | the volume, a crash with startup reconciliation, another process opening the store |

Hashes are identified with the trees they are computed from. Every build stamps
new bytes (the jar's timestamps), so trees of two attempts differ. `DiskChange`
may come at any time; the tree it leaves is named for what it is to the seals: a
tree not built yet (`Edited`), one that attempt g built and has not sealed
(`Altered(g)`), or another (`Changed`). A change is assumed to leave bytes that no
seal holds yet: putting back a sealed tree is what the seal is meant to accept. A store write
that fails has no effect, which is what SQLite gives when the write lock is
refused at the first statement.

**CertifiedExport** is the abstract specification of it, what a customer is
promised: a run goes through attempts, an attempt gets at most one verdict
(`Work`), one tree of a VERIFIED attempt may be signed off, and no tree of another
(`Approve`), and only what is signed off is handed out (`Export`). It knows no
threads, stages, seals, disks or failures. `CE` in `ControlPlane` is the
refinement mapping: an attempt is that of the row, it is working while the row is
not terminal, and the trees of attempt g (`TreesOf`) are the one it built and what
a disk change made of it before the seal.

**SourceWorkspace.** `app` and `run` are the rows, `disk` and `used` the
directories (a path made by `mkdtemp` is not handed out again), `req` the request
threads: what each has read (`previous`, `name`) and made (`dir`). An upload goes
`CheckNoActiveRun`, `LoadApplication`, `WriteSource` or `WriteFails`,
`UpdateApplication` or `UpdateFails`, `CleanupPrevious`; an ingest has `Discover`
in between and, on failure, `DiscardWorkspace`. `FailedCommitApplies` selects
what a write does whose commit raises: nothing, or its effect stays in the open
transaction of the shared connection, where later reads see it.

**EvidenceIntegrity** is the admission layer of `engine/evidence/integrity.py`,
one operator per rule, and the derivation of a verdict from evidence that passed
or failed it. **ServedProof** extends it: `row` is the run's row with its stored
payloads, `workers` the validating thread of each generation with its copy,
`attempts` what was really executed, `blind` the generations whose validation
looked for a source that was gone. `Execute`, `Observe` (the scan for unobserved
effects), `PersistProof`, `SaveValidation`, `Finish` and `Fail` are the steps of
`_run_validation`; `Revalidate`, `Interrupt`, `Reingest` and `Decay` happen
between them. `Reingest`, the deletion of the source by an upload, may come at any
step: `_refuse_while_run_active` looks before the upload has written the new tree,
and a run may begin in between. `Answers` is what every
view (`get_verdict`, `get_report`, the integrated proof) would serve in that
state, decoding included.

### Validation

**ValidationPipeline** is one `VerticalSlicePipeline.run` under a
declaration-driven contract. The model holds both what the two programs did
(`oracle`, `candidate`, `program`) and what the pipeline noted of it
(`evidence`, `verdict`), so a verdict can be judged against facts. Contents are a
text in a form: normalisation forgets the form. A keyed file is two files, the
COBOL one and the image the Java runtime keeps. Each read of the shared source
directory is a step; `SourceReplaced` may delete it in between.

| actions | code |
|---|---|
| `StageOracle`, `RunOracle` | `DockerOracleAdapter.execute`, before and after the container |
| `BuildCandidate`, `ExecuteCandidate` | the build and execute phases of the candidate adapter |
| `Compare` | `_run_declaration_driven`: required artifacts, undeclared files, keyed files, business rules |
| `ScanEffects` | `_unobserved_effect_evidence` |
| `DeriveVerdict` | `EvidenceIntegrityValidator.validate`, `VerdictDeriver.derive`, `derive_untrusted` |

**Containers** opens those executions: three lanes (oracle, build, execution)
that the validating thread goes through (`Resolve*`, `CheckCompiler`,
`Stage*Fails`, `DockerRun`, `ClientReturns`, `Cleanup`, `Collect`), each with a
container (`box`) that lives its own life (`CompileEnds`, `CompileExpires`,
`WatchdogMarks`, `WatchdogKills`, `ProgramRuns`), while tags move (`Retag`) and
the process may die. `box` is what happened, `result` what the adapter reported.

**EntryProgram** is which program runs first, resolved twice: by generation, from
what discovery finds in the whole tree, and by the oracle, from the files of one
directory.

### Modernization

**Modernization** is `UniversalModernizationPipeline.execute` on an application
given by what its tree says: programs with statements, phrases, items, files,
CALLs and COPYs, and copybooks that COPY each other. The actions are its phases,
`Discover` to `CheckFailClosedSymbols`; the operators are the analyzer's rules. A
name is a key and a spelling, for COBOL compares the one and Python the other.
**BatchJobs** is the JCL lane: a member grows statement by statement
(`AddCard`), `parser` is the state of `_parse_lines` after these lines, and
`profile` is what `modernize_jcl_workload` would return for them, through parser,
builder, diagnostics and mapper. `JobsWritten` says what the member means by the
positions of its statements alone. The statement of a line is what it means to
JES: lines of a `DD DATA` that begin with `//` are data, and `Seen` is what they
look like to a parser that does not follow the stream.

### Translation

Each of these modules puts two machines side by side: COBOL, as GnuCOBOL runs
it (external: it is not in the repository, but its Dockerfile and tests fix its
version and behaviour), and the generated Java as the mapper's lowering defines
it.

| module | what runs on both sides |
|---|---|
| **ControlFlow** | programs of paragraphs with IF, PERFORM in its forms, CALL, GO TO, STOP RUN, GOBACK, EXIT PROGRAM; `CobolStep` and `JavaStep` |
| **StatementScopes** | a source grows line by line; `parse_procedure_division` against COBOL's reading token by token |
| **Arithmetic** | one MOVE or arithmetic statement (GIVING, ROUNDED, SIZE ERROR, REMAINDER), native or `BigDecimal` |
| **Conditions** | a condition grows word by word; the test `map_cobol_condition_to_java` makes of it against COBOL's precedence and comparison rules |
| **TextStorage** | MOVE, STRING, UNSTRING, INITIALIZE, SET, ACCEPT over items, groups and overlays: one storage against separate fields and `$BYTES` |
| **FileIo** | the generated `CobolFileIo` and the calls the mapper emits, with the side files on disk, over several run units |
| **KeyedFile** | the abstract specification of an indexed file, which `FileIo` implements (`KeyedFileSpec`) |

What a lowering is known to get wrong is left out of a property *by name*
(`VariesTestAfter`, `Misdecided`, `Differs`, ...): dropping such a name from the
property makes TLC find the case, and section 4 lists each.

### How the modules fit together

`ControlPlane` treats the pipeline as phases with an outcome;
`ValidationPipeline` opens one validation; `Containers` opens its executions and
`EvidenceIntegrity` its evidence; `EntryProgram` says that both execute the same
program, and the translation modules what the candidate may do. `SourceWorkspace`
says that a source can disappear under a run that began after an upload's check
(`ActiveRunHasSource` needs requests that take turns), which `ValidationPipeline`
(`SourceReplaced`) and `ServedProof` (`Reingest`) therefore allow at any step. `Modernization` decides what
reaches the translation modules at all.

Parts that share no state are checked in one run: an MC module extends several
modules and a variable `about` says, from the first state on, which of them a
behaviour is about; the others stay in one state. `MCValidationPipeline` is about
`ValidationPipeline` or `Containers`, `MCStatements` about `FileIo`, `Conditions`
or `TextStorage`, `MCTranslation` about `ControlFlow`, `StatementScopes` or
`Arithmetic`, and `MCModernization` about `Modernization`, `BatchJobs`,
`ServedProof` or `EntryProgram`. The proof modules (`*_proofs`) extend the module
they are about; `ValidationPipeline_proofs` is also about `Containers`.

## 3. Runs

| run | question | bounds and why they suffice |
|---|---|---|
| `races` | certification, slots and terminal results of a single process under store failures, disk changes and crashes; does it implement `CertifiedExport`? | one run, two generations, two requests: every race is between a request or worker and one reset, of one run; runs share nothing but slots. |
| `finish` | does every run end, and does a full service get its slot back? | all generation phases, one revalidation, one slot, crashes; three write attempts; no store failure, since a store that always fails strands runs |
| `two_processes` | what survives a second process? | one run, two generations, failing writes: a stale worker, a reconciled row and a new attempt coexist |
| `validation` | is VERIFIED earned and FAILED deserved? is what is compared whole, of the verified image, and does the oracle's container end? | two texts in two forms distinguish equal, equal up to form, different; seven contracts; one plain and one keyed file, one undecodable text, the source deleted at any point. Two images, one change of tags: the tag is right or wrong at each read. Exit codes 0 and 125, the one that is also Docker's |
| `workspaces` | failures after each step, overlapping uploads and ingests; what holds as long as requests take turns: a run keeps its source, names differ | two requests that overlap share one application, one run and three directories: the recorded one and one each. Requests that took turns range over two applications and two runs, with two directories each |
| `file_statements` | are files kept, conditions decided and characters stored as in COBOL? | two-character record areas with a one-character key over three characters, files of three records, one relative record number; conditions of up to seven words; two statements on each of five DATA DIVISIONs |
| `translation` | flow of control, scopes and arithmetic | 2-3 paragraphs with every statement form once, a callee, 30 steps; five lines of source; every statement form over items of one and two digits, signed, unsigned, with a decimal, a table element |
| `modernization` | what is generated, what is reported, what is served, who enters first | call graphs of three programs; copybooks nested twice; JCL members of five statements; one run and one revalidation over eight kinds of execution, the source deleted at any step; trees of three files |
| `late_worker`, `failed_commit`, `stop_run_in_callee`, `name_collision` | see findings | smallest instances that show them |

**Scaled integers.** `Arithmetic` keeps the ratios of the real widths in small
numbers: items of one digit are `int`, larger ones `long`, and `IntMax = 21` and
`LongMax = 922` stand in the same place between the powers of ten as 2^31 - 1
after 9 digits and 2^63 - 1 after 18.

`CHECK_DEADLOCK FALSE` is set where the system stops: a validation, a
modernization and a translated program end, and the directories of the bound run
out. Symmetry is used for request threads in runs that check safety only.

Every property of a passing run has a mutant in `PROJECT.json`: a plausible bug
(a dropped guard, a swapped order, a missing reset) under which TLC finds the
property violated.

### Fairness

`Spec` of `ControlPlane` assumes weak fairness of each worker thread and of each
request that has begun: both are operating-system threads that block only on
calls that return, container executions having timeouts. Nothing is assumed of
clients, disks, crashes or other processes. `ContainersSpec` assumes weak
fairness of the watchdogs only: they are processes inside the oracle's container
(`timeout -s KILL`, and `sleep` followed by `kill` in `oracle_shell_command`), so
they run whatever happens to the client, to Docker's command line and to this
process. Nothing is assumed of the programs, which may loop. The other modules
state safety only.

## 4. Findings

These runs end in a counterexample to what the repository says of itself.

* `late_worker`: `docs/FILE_LEVEL_AUDIT.md:245` says terminal writes of workers
  that outlive another process's reconciliation are rejected; FAILED to FAILED
  is accepted and replaces verdict, evidence and proof of a terminal run.
* `failed_commit`: an ingest whose commit raises deletes the directory its row
  then points at, against the comment "never data loss" in
  `_ingest_application`.
* `stop_run_in_callee`: STOP RUN in a program CALLed with matching LINKAGE only
  returns to the caller; the mapper's guard against it comes after the lowering
  it should guard.
* `name_collision`: the capability of a program is looked up by name alone, so
  an UNSUPPORTED program that bears a copybook's or another program's name is
  transformed, its unsupported statements dropped.

The following divergences were met while modelling. They have no run of their
own; where a module covers the code they are left out of its properties by name,
or the property is stated for the case in which it must hold.

**Control plane**

* `api/artifact_seal.py:7-15` says that the seal closes the gap "between execution
  and export", but it is hashed from disk after the execution (`service.py:1520`):
  a tree changed between the two is sealed, VERIFIED and signed off without having
  run. `SignedIsOfItsAttempt` and `CertifiedExportSpec` say what is left: what is
  signed is the sealed tree of that attempt (`TreesOf`), and no later change passes.
* A workload that declares JCL, DB2 or CICS "resolves to NOT VERIFIED at the
  application level even when the COBOL to Java runtime lane itself is VERIFIED"
  (`integrated_proof.py:33-37`). An upload whose check found no active run deletes
  the source of one that began since, after its executions:
  `_persist_integrated_proof` reads a directory that is gone as one without JCL
  and edges, and the COMPLETED run is stamped and served VERIFIED. The scan for
  unobserved effects reads it the same way. `ServedProofIsEarned` and
  `ServedVerdictIsBacked` therefore speak of a source that was seen (`SourceSeen`).
* The reset of a run whose bundle is gone clears a result that nobody can produce
  again, against `_revalidation_target`'s docstring. The 409 for uploads during
  a run is check-then-act (`ActiveRunHasSource` holds only as long as no requests overlap). The lock of
  `unique_name` is released before `add_application`, so two request threads can
  give one name twice (`NamesAreUnique`, likewise).
* `GET /runs/{id}/verdict` (`api/app.py:1087`) reads the row twice; a reset in
  between serves a verdict beside no comparisons, which `get_comparisons`
  promises never to do.
* When storing the integrated proof raises, the FAILED run keeps its VERIFIED
  verdict without a stamped proof; once an upload has deleted the source, the
  recomputed proof, too, sees neither JCL nor external edges. The verdict column carries no seal, unlike evidence and proof.

**Validation**

* A source directory deleted at the right moment makes the scan for unobserved
  effects read nothing; the program can be VERIFIED (`EffectsAreNeverCertified`
  is stated while the source is there). A business rule both executions break
  alike is FAILED (third cause in `FailedIsJustified`), where
  `contracts/VERDICT_CONTRACT.md:26` defines FAILED as divergence.
* Docker unavailable and no pinned image: `OracleAdapter.get_identity` raises and
  the run ends FAILED, not with the "UNAVAILABLE semantics" of
  `_run_validation`'s docstring.
* An oracle whose docker client loses the daemon after the program started is
  recorded as RETURN-CODE 125: only the candidate lanes ask
  `is_docker_infrastructure_exit`, against
  `docs/reports/PHASE5_FINAL_CERTIFICATION.md:21-23`. A candidate's client that
  loses it in mid-run ends with 125 and a message of its own ("error waiting for
  container: unexpected EOF"); `is_docker_infrastructure_exit` only knows messages
  that begin with "docker:" or name the daemon, so the partial output is compared,
  against "a docker refusal (daemon error, missing image) is an error, never a
  program result to compare" (`container_runner.py:7-8`). A kernel out-of-memory
  kill (137) counts as behaviour in every lane. These are the ends `Indistinct`
  names. Build and candidate containers have no
  watchdog and outlive a lost client whose removal fails. A docker client that is
  itself killed by a signal (a negative status to every adapter) is not modelled.
* The evidence validator checks that an artifact's producer role is a known one,
  not that it is the role of its execution.
* The two sides resolve the first program separately and part when
  `java_entrypoint` is empty (`Undeclared`); when it is no PROGRAM-ID but a file
  name, as the default `Main` beside a `main.cob` (`ByFileName`): the Spring
  application then invokes every root service; and when two PROGRAM-IDs differ in dashes
  or case only (`Ambiguous`). `select_modules` promises the same program.

**Modernization**

* Cycles of CALLs are compared as spelled: `CALL 'b'` of a program B is an edge
  to nobody, and the recursion is generated.
* Capability evidence is per program: a dropped phrase is covered by the same
  phrase attached to another statement of the program.
* Two programs of one name write one Java class; only the Spring Boot adapter
  refuses (`DuplicateClass`).
* `ALTERNATE RECORD KEY X` without IS is no alternate key to
  `_parse_file_control` (`cobol_parser.py:1467`): where the same clause with IS is
  refused it is dropped (parsing of clauses is not in a module).
* COPY: `REPLACING ==:TAG:==` never matches `:TAG:-NAME` and the entry is dropped
  silently, against the comment at `copybook_model.py:483`; COPY inside a group
  makes its items separate; a name collision takes the copybook's member out of
  its group with a warning; of two COPYs of one book only the first REPLACING
  counts. (None of these is in a module.)
* JCL (`Misread`): a JOB without operands is skipped and its steps join the job
  before it, though `parse_jobs` promises "no merging" (`jcl_parser.py:66-68`); a
  JOB without a name, by the profile's specification the ERROR `JOB_UNNAMED`
  (`JCL_MODERNIZATION_PROFILE.md:94`), is a job of a FULL profile, since nothing
  raises that diagnostic; a concatenated DD loses its data set, and lines of a `DD DATA` that begin with `//` are parsed: an
  EXEC among them is a step of a FULL profile and takes the DDs that follow, an IF
  makes it PARTIAL. Remarks that spell a keyword, a `DLM=` of its own, and data
  set edges that run backwards, are not modelled.

**Translation**

* Flow: an item passed twice BY REFERENCE (`PassesTwice`); VARYING WITH TEST AFTER
  tests first (`VariesTestAfter`); EXIT PROGRAM in a performed driver paragraph
  (`ExitsPerformedDriver`); PERFORM n TIMES evaluates n again on each iteration
  (counts are literals in the model).
* Scopes: WHENs stacked on lines of their own give the first an empty arm
  (`StackedWhens`); a period that ends a READ inside a scope of its clause is
  missed (`PeriodInsideClause`); a statement ended by a phrase or terminator of one
  that contains it (ELSE, WHEN, NOT AT END, END-EVALUATE ... instead of its own
  END-IF) is not ended by it in the parser (`EndedFromOutside`). So an inner IF takes
  every ELSE line up to its END-IF: in IF A / IF B S1 ELSE S2 / ELSE S3, standard
  COBOL, S3 lands in the inner ELSE, without a diagnostic, although a nested IF is
  to be "one child so the outer ELSE and END-IF remain scoped to this IF only"
  (`cobol_parser.py:3298-3300`).
* Arithmetic: table elements wrap, or keep digits there is no room for
  (`UnboundedElement`); the literal of `ADD A TO 3 GIVING C` and of
  `MULTIPLY A BY 3 GIVING C` is lowered by `_reference_expression` to a
  variable named `3`, whose bound nobody knows: the `int` product of a nine-digit
  item wraps before a ten-digit one receives it, and `BY 010` multiplies by
  eight (`LiteralAsName`; a sign, a digit 8 or 9 after a leading zero, or a
  decimal literal that stays native ends in `javac`); a divisor that itself divides is tested in `int`
  (`DividesByQuotient`), one that wraps tests as zero (`WrappingDivisor`);
  quotients below the root are rounded by DECIMAL128 (`RepeatingQuotient`).
* Conditions (`Misdecided`): ordering against a figurative constant compares with
  the internal sentinel that `_strip_figurative_sentinels` promises never to
  emit; `N = 010` becomes a Java octal literal. The condition is rewritten and
  split at spaces as text, its literals included: between double quotes runs of
  spaces become one, dashes of later words underscores, AND and OR between words
  `&&` and `||`, NOT a prefix `!`, ZERO the digit 0 (`IF X = "A  B"` tests for
  "A B"); between single quotes the respelling matters only where no space
  is left, other literals do not compile. WHEN "A B" becomes
  `X = "A OR X = B"`, one literal `A || X = B`.
* Text (`Differs`): sending items of STRING do not share a delimiter
  (`SharesDelimiter`); POINTER without WITH is dropped, against
  `_parse_string_text`'s docstring (`PointerWithoutWith`); UNSTRING clears
  receivers it has no data for (`RunsOut`); a MOVE to two members of one overlay
  keeps the first value (`MovesTwice`); INITIALIZE of a group that holds an
  overlay leaves its bytes, and `_validate_redefines` does not refuse it
  (`InitializesOverlay`).
* Files: a WRITE before the first OPEN OUTPUT of a relative file makes an index
  of it, against the header of `file_io_support_template.py`.

## 5. Proofs

**ControlPlane.** `TypeCorrect` is type correctness. `CertificationHolds` proves
`CertificationInvariant` inductive (with the types) in a single process
(`SecondProcess = FALSE`), the deployment the repository fixes:
`Dockerfile.production`, `docker-compose.production.yml` and
`docs/operations/RUNBOOK.md:10` run one worker. `ApprovalIsSound` and
`ExportIsSound` follow from it. `ApprovedIsCertified` alone is far from
inductive: that the write of an approval is sound rests on what the request read
before (`Relies`), which rests on what a run with that verdict and seal looks
like (`Published`), which rests on what a worker knows of the tree when it stores
them (`Knows`), which holds because no second worker touches the tree
(`SingleFlight`) and because an attempt in progress has published nothing yet
(`FreshAttempts`). Disk changes are the other half of `Knows` and of
`VerifiedSeal`: between build and seal the tree is one of the attempt's own or
gone, and an interim seal, taken before the build, never matches what is on disk
once a verdict is out, so a FAILED run that kept VERIFIED cannot be approved with
it. The proof has one lemma per kind of step; `WorkerFrame` and
`RequestFrame` say once what a step of one actor leaves alone.
`SignOffIsSound` (what a customer signs off is the tree the seal of that attempt
found) is another consequence.

`ResultIsFinal` is an action property, and needs the same invariant: a worker
that could overwrite a terminal row would have to be in flight, and then the row
is not terminal. `CompletedRunsAreWhole` adds `WholeInvariant`, which follows a
worker's copy from the sealing of the proof to the last write (`Finished`):
COMPLETED is written from a copy whose verdict, proof and seal are whole and
whose seal is in the table already. Both are for a single process.

`RefinesCertifiedExport` shows that a single process implements
`CertifiedExport`. Every step of a worker is `Work` of its run or a stutter: the
verdict it stores is of its own attempt and the row has none yet
(`WorkerStepPost`). A request's decisions and exports are steps of the abstract
specification because of what `Relies` says of the state it read before.
`ExportIsSound` is the invariant behind the last of them. That an attempt has one
tree signed off at most (`SignedOnce`) needs that only a new attempt changes a
verdict or the seal beside it (`SealStep`).

Three theorems hold with any number of processes. `VerdictIsOfThisAttempt`: the
generation check of `update_run` is enough. `TrailIsComplete`: a decision and its
event are one transaction, and no other write touches either. `SlotsAreCounted`:
`SlotsInvariant` says that no two requests launch the same attempt, so each slot
taken is held by one request or one worker and given back once; it assumes
finite sets of runs and clients, as counting them does.

**ValidationPipeline.** `VerifiedIsSound` and `EffectsAreSound` (the latter while
nothing deletes the source) rest on an invariant that says, phase by phase,
what the evidence collected so far tells of the two executions: in the end,
evidence that is all MATCH, with both streams, the exit code and every
undeclared file in it, is agreement. `FailedIsSound` reads it the other way
(`CauseInvariant`): while the source is there the evidence is no more than what a
pass that could read all of it finds, so that FAILED has one of the causes
`FailedIsJustified` names. `TypeCorrect` is type correctness.

**Containers.** `ImagesAreVerified`: every container runs the image that was
verified, for any images, versions and pin and however often tags move.
`ImagesInvariant` adds to the goal that lanes run in order and leave the ones
ahead untouched (`LanesInOrder`), that an available adapter was constructed on
verified images (`AdapterVerified`), and that the reference in the thread's hand
has passed the checks of its lane so far (`RefVerified`); tags do not occur in
it, which is the point. Three lemmas carry the steps: what a return (`ReturnKeeps`),
a step of a container (`BoxKeeps`) and the staging of an image (`StageKeeps`)
preserve. `ComparedAreWhole` adds `WholeInvariant`: what the marks in a container
say of how it ended (`BoxesSound`), what the client's return says of its
container (`ClientSound`), and that a report made from the two is whole, but for
the three cases `Indistinct` names (`ReportsWhole`).

**ServedProof.** `ServedVerdictBacked` and `ServedProofEarned` follow an attempt
from its worker to the row (`ServingInv`). What a worker holds was derived from
the execution of its own generation, and from the source as it was then; only it
can put that into the row while the row is in its generation; and what decays in
the store no longer decodes. The source may go at any step and never comes back,
so that a validation outside `blind` read it whenever it looked (`Backed`). Assumed is the shape of worlds, reports and
generations (`WorldsAssumption`, `ReportsAssumption`, `GenerationsAssumption`),
not their number.

**SourceWorkspace.** `TypeCorrect` is type correctness. `SourceIsKept` and
`PendingIsKept` assume `~FailedCommitApplies` (`failed_commit` shows why).
`WorkspaceInvariant` adds to the goal that a directory not recorded yet belongs
to one request (`PendingIsPrivate`), and that what a request will clean up was a
source of its application and is no longer one when the cleanup comes
(`PreviousWasRecorded`); then neither cleanup can hit a directory of anyone else.

Two theorems are about requests that take turns. `ObservedSpec` is the same
system with a history variable, `overlapped`, that remembers whether two
requests were ever at work at once; the properties speak of behaviours in which
none were, and are false without that. `NamesAreDistinct`: `unique_name` finds a
suffix that is free, because there are fewer applications than suffixes to try
(`UniqueNameIsFree`, a pigeonhole argument), and it stays free until the row is
written (`NameInvariant`). `RunsKeepTheirSource` (with `~FailedCommitApplies`):
what the active-run check found still holds when the previous source is cleaned
up (`SourceInvariant`).

**FileIo.** `FilesAreDurable` and `RelativeFileIsDurable`: after every statement
the side files hold the index and the relative store. `IndexedFileIsKeyedFile`:
an indexed file implements `KeyedFile`, for every set of keys and records and
over any number of run units; the mapping takes the map of the run unit, or else
the side file, for the content, and durability is the invariant the step of a new
run unit needs. `SequentialFilesReadBack`: `SequentialInv` relates the lines on
disk, those a writer or reader buffers and the records read so far (`ReadSoFar`)
to the records written; trailing spaces that LINE SEQUENTIAL drops are no
information (`Area`). `ScansAreComplete`: `ScanInv` keeps the cursor before every
record that a scan still owes (`PositionInv`), which needs that keys are totally
ordered by `Less`, proved from its definition. All assume that `None` is no
sequence and no map.

**Modernization.** `ReportTruthful` and `GateHolds` rest on an invariant that says
what report, plan and classes look like in each phase (`PhaseInv`). The others
each carry one fact through the phases: what the analysis reports, the plan
skips, and a skip ends the run.

* `CallsDispatch` (`DispatchInv`): a CALL with the wrong number of arguments is
  among the components of the analysis, one of an unknown program is unresolved.
  It rests on what the recursive concatenation `Edges` contains
  (`EdgesAreOfPrograms`).
* `CopybooksAreSound` and `PreparationIsForeseen` (`CleanInv`): the two walks of
  the COPY tree, `collect_copybook_texts` and `expand_copybook_text`, satisfy
  their recursive equations because each step leaves fewer keys to visit
  (`WalksExist`, `WalkEquations`); a walk without errors has followed every COPY
  below a copybook and met no cycle (`Followed`), so the second walk cannot fail
  where the first did not.
* `CallCyclesAreRefused` (`CycleInv`): the depth-first search of `detect_cycles`
  satisfies its equation because each visit leaves fewer names, or fewer edges of
  the same name (`ToDo`). For a set of programs each of which calls another of
  the set, a visit entered with none of them behind it leaves, unless it reports
  a cycle, with its own name outside the set (`Entered`, `LeftBehind`); when every
  program has been visited and no cycle reported the set is empty.

* `GeneratedIsSupported`: nothing a scan of the analyzer would object to is in a
  generated application. What a component of the analysis reports reaches its
  program's level (`AllSupported`), every construct a program contains is the
  word, phrase, clause or file of some component (`WordsAreCovered`), and an
  application that was generated has a program at all (`ProgramsInv`). The proof corrected
  the property: a SELECT with an alternate key that becomes no definition, and
  that no statement operates on, is no file of the program.

These assume that programs, CALLs and copybook files are finitely many
(`ApplicationsAssumption`), that every level is one of the five of
`CapabilityLevel` (`RegistryAssumption`), and for `GeneratedIsSupported` two things.
`ConstructsAssumption` is what the registry says of some entries: what is only
seen in the source is never SUPPORTED, phrases are scanned for, EVALUATE and
PERFORM TIMES are as supported as the statement they become, and REDEFINES,
OCCURS, LOCAL-STORAGE, REPLACE and the encoded USAGEs are not. `ProgramsAssumption`
is what a program can say: a statement the parser makes nothing of is one that the
scan knows by its words or leaves a diagnostic (`cobol_parser.py:2101`), and
phrases, clauses and usages are of the kinds the parser knows. They use no
induction theorem: a least counterexample (`LeastNumber`) takes its place.

**EntryProgram.** `SameProgram`: outside the trees left out by name, the oracle's
module is the one program the candidate enters. `EntryInv` keeps what
generation entered as a function of the tree; the name both sides ask for is then
the PROGRAM-ID of one program only (`ComparedIsTheSame`), which a tree of one
directory cannot refuse (`KnownIsNotRefused`). Assumed is that trees are finite
and that only the empty name is empty in capitals (`EntryAssumption`).

**BatchJobs.** `FullProfilesAreFaithful`, for members of every length. `BatchInv`
says that after every line the parser's jobs are the jobs as written so far, in
the parser's own terms (`Faithful`): job by job and step by step (`JobsKept`), and
a DD is filed with a job exactly when it belongs to no step (`Stranded`, `Loose`).
A statement more goes to the last JOB or to its last EXEC, the ones that are open
(`CurrentJob`, `LastStepIsOpen`); what belongs to the others is settled
(`StepsSettled`). No line is assumed to be misread (`Misread`). The diagnostics then find every statement that is not supported
(`ErrorsAreTheUnsupported`), because every EXEC is a step of some job
(`EachStepHasAJob`). `Nth`, the n-th of some positions, takes the place of a
recursion over the member (`EveryRankIsTaken`, `MappedAppends`).

**Model-checked only.** Liveness (`RunsReachTerminal`, `SlotsComeBack`,
`OracleContainerEnds`) and ENABLED are out of the prover's reach, as is induction
over data by an operator: what parsers, lowerings and folds compute for every
input. `Arithmetic`, `Conditions` and `StatementScopes` are recursive over
expressions, words and lines and use RECURSIVE operators; `TextStorage` folds over
statements and characters; `ControlFlow` runs two machines one after the other to
their ends, so that `RunsAlike` is an induction over runs of both. Their properties
(`StoresWhatCobolStores`, `DecidesAlike`, `ScopesAsWritten`,
`HoldsTheSameText`, `RunsAlike`) stay with TLC.

## 6. Not modelled

* The HTTP shell (authentication, rate limits, error mapping), the frontend and
  the images: stateless around what is modelled. `engine/verification`'s business
  rules are an input of `ValidationPipeline`.
* Runs from before schema v9, which have no paths of their own
  (`_bundle_of_other_run`), and uploaded Java candidates, disabled in production;
  `update_application` (no caller), migrations, the discovery snapshot, listings.
* `_run_legacy`, the pipeline without declarations, and the Docker-less adapters.
* Partly deleted source trees: a directory is there or gone. Failed commits of
  the runs table that stay in the open transaction.
* Lexing and source formats, editing and layout of numbers and tables, reference
  modification, DISPLAY, and the rendering of Java, Maven and Spring files: pure
  text to text. Verbs the registry does not support (SORT, INSPECT, SEARCH, ...)
  have no lowering; `Modernization` says that they are refused.
* EXEC SQL and EXEC CICS: a program with either is refused by the capability
  analysis; `engine/sql` and `engine/cics` are reached by tests only.
* Wave planning (`modernization_planner.py`), which is advisory.
* Cryptography: a hash determines what was hashed.

## 7. Plan

Done: the control plane, validation with its containers, evidence and served
proof, the modernization of an application, the JCL lane, and the translation
lane's control flow, scopes, arithmetic, conditions, text and files. Next, in
this order:

1. COPY and REPLACING as text operators, with the four divergences of section 4.
2. Table subscripts and reference modification in `TextStorage`.
3. A composition of `SourceWorkspace` with the reads of `ValidationPipeline`.
