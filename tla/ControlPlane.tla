---------------------------- MODULE ControlPlane ----------------------------
(***************************************************************************)
(* The run control plane in a production deployment: the run store         *)
(* (api/store.py), the service with its background workers and job slots   *)
(* (api/service.py), the approval and download handlers (api/app.py) and   *)
(* the seal of the generated bundle (api/artifact_seal.py).                *)
(*                                                                         *)
(* A run has one attempt per validation generation: attempt 0 is started   *)
(* by modernize, attempt g+1 by a revalidation of attempt g.  Each attempt *)
(* is executed by one daemon thread, which works on its own copy of the    *)
(* run record (mem) and writes it back through the store, one transaction  *)
(* per step.  Requests are threads too: a handler that reads, checks and   *)
(* writes is split wherever another thread can run in between.             *)
(***************************************************************************)
EXTENDS RunLifecycle, Integers, FiniteSets

CONSTANTS
  Runs,            \* run ids
  Clients,         \* concurrent request threads
  MaxGeneration,   \* bound on validation_generation
  JobLimit,        \* CONTROL_PLANE_MAX_CONCURRENT_JOBS
  PersistAttempts, \* attempts of _persist_final
  Phases,          \* the generation phases the model distinguishes
  StoreFaults,     \* may a store write fail (write-lock contention)?
  SecondProcess    \* may another process open the store while workers run?

ASSUME BoundsAssumption ==
  /\ MaxGeneration \in Nat
  /\ JobLimit \in Nat \ {0}
  /\ PersistAttempts \in Nat \ {0}
  /\ Phases \subseteq GENERATION_PHASES
  /\ StoreFaults \in BOOLEAN
  /\ SecondProcess \in BOOLEAN

Gens == 0..MaxGeneration
Attempts == Runs \X Gens

\* What a bundle directory holds: nothing; the tree as generated, or edited
\* before its first build; (g \in Gens) the tree whose jar attempt g built and
\* executed, or altered after that build and before the seal of attempt g; or a
\* tree changed at any other time.  Each build stamps new bytes.
NONE == -1
Absent == -2
Generated == -3
Changed == -4
Edited == -5
Altered(g) == MaxGeneration + 1 + g
TreesOf(g) == {g, Altered(g)}
Contents == Gens \cup {Altered(g) : g \in Gens}
              \cup {Absent, Generated, Edited, Changed}

Verdicts == {"none", "VERIFIED", "OTHER"}
Decisions == {"PENDING", "APPROVED", "REJECTED"}

VARIABLES
  db,       \* the runs table (and the last approval_events row of each run)
  bundle,   \* contents of each run's generated project directory
  pc,       \* where the thread of each attempt is
  mem,      \* the worker's copy of the run record
  jobs,     \* Service._active_jobs
  req,      \* the request each client thread is serving
  signed,   \* history: contents a customer signed off, and for which attempt
  exported  \* history: contents a download handed out

vars == <<db, bundle, pc, mem, jobs, req, signed, exported>>

NoRun == [stage |-> "none", gen |-> 0, verdict |-> "none", evidence |-> NONE,
          proof |-> NONE, report |-> FALSE, approval |-> "PENDING",
          seal |-> NONE, recorded |-> FALSE, anchor |-> "none", event |-> "none"]

NoMem == [gen |-> 0, stage |-> "CREATED", verdict |-> "none",
          evidence |-> NONE, proof |-> NONE, report |-> FALSE,
          seal |-> NONE, built |-> FALSE, tries |-> 0]

Idle == [kind |-> "idle"]

Exists(r) == db[r].stage # "none"
Terminal(r) == db[r].stage \in TERMINAL_STAGES

\* Threads that may still write the run, and threads that hold a job slot.
Writing == {"launched", "generating", "sealing", "recording", "validating",
            "oracle", "building", "comparing", "deriving", "proving",
            "storing", "saving", "finishing", "abandoned"}
Working == (Writing \ {"abandoned"}) \cup {"releasing"}

Init ==
  /\ db = [r \in Runs |-> NoRun]
  /\ bundle = [r \in Runs |-> Absent]
  /\ pc = [a \in Attempts |-> "idle"]
  /\ mem = [a \in Attempts |-> NoMem]
  /\ jobs = 0
  /\ req = [c \in Clients |-> Idle]
  /\ signed = {}
  /\ exported = {}

-----------------------------------------------------------------------------
(* Store: one transaction under the store lock.                            *)

\* Mutant: the generation is not compared.
update_run_accepts_any_generation(r, m) ==
  is_valid_transition(db[r].stage, m.stage)

\* Store.update_run: refused for a stale generation or transition.
update_run_accepts(r, m) ==
  /\ m.gen = db[r].gen
  /\ is_valid_transition(db[r].stage, m.stage)

update_run(r, m) ==
  db' = [db EXCEPT ![r] = [db[r] EXCEPT
          !.stage = m.stage,
          !.anchor = last_stage_anchor(m.stage, db[r].anchor),
          !.verdict = m.verdict,
          !.evidence = m.evidence,
          !.proof = m.proof,
          !.report = m.report]]

\* Mutant: the write is not bound to the generation that was checked.
bound_write_accepts_unbound(r, g) == TRUE

\* Store.set_generated_seal and Store.set_run_generated: bound to the attempt.
bound_write_accepts(r, g) == g = db[r].gen

\* Mutant: the reset is not recorded in the approval trail.
begin_revalidation_without_event(r) ==
  db' = [db EXCEPT ![r] = [db[r] EXCEPT
          !.stage = "CREATED", !.gen = db[r].gen + 1, !.verdict = "none",
          !.evidence = NONE, !.approval = "PENDING", !.seal = NONE,
          !.anchor = "none"]]

\* Store.begin_revalidation.
begin_revalidation(r) ==
  db' = [db EXCEPT ![r] = [db[r] EXCEPT
          !.stage = "CREATED",
          !.gen = db[r].gen + 1,
          !.verdict = "none",
          !.evidence = NONE,
          !.approval = "PENDING",
          !.seal = NONE,
          !.anchor = "none",
          !.event = IF db[r].approval = "PENDING" THEN db[r].event
                    ELSE "RESET"]]

\* Mutant: completed runs are marked too.
mark_interrupted_runs_all ==
  db' = [r \in Runs |->
          IF Exists(r) THEN [db[r] EXCEPT !.stage = "FAILED"] ELSE db[r]]

\* Store.mark_interrupted_runs.
mark_interrupted_runs ==
  db' = [r \in Runs |->
          IF Exists(r) /\ ~Terminal(r)
          THEN [db[r] EXCEPT !.stage = "FAILED"] ELSE db[r]]

-----------------------------------------------------------------------------
(* Requests that start an attempt.                                         *)

Finish(c) == req' = [req EXCEPT ![c] = Idle]

\* Service._acquire_job_slot; a full service answers 429 and changes nothing.
acquire_job_slot ==
  /\ jobs < JobLimit
  /\ jobs' = jobs + 1

\* Service.modernize after its pre-flight checks.
ModernizeSlot(c) ==
  /\ req[c] = Idle
  /\ acquire_job_slot
  /\ req' = [req EXCEPT ![c] = [kind |-> "modernize"]]
  /\ UNCHANGED <<db, bundle, pc, mem, signed, exported>>

AddRun(c, r) ==
  /\ req[c].kind = "modernize"
  /\ ~Exists(r)
  /\ db' = [db EXCEPT ![r].stage = "CREATED", ![r].anchor = "CREATED"]
  /\ req' = [req EXCEPT ![c] = [kind |-> "launch", run |-> r, gen |-> 0]]
  /\ UNCHANGED <<bundle, pc, mem, jobs, signed, exported>>

\* Mutant: the failing handler keeps the slot it had acquired.
AddRunFails_keeps_slot(c) ==
  /\ req[c].kind = "modernize"
  /\ StoreFaults \/ \A r \in Runs : Exists(r)
  /\ Finish(c)
  /\ UNCHANGED <<db, bundle, pc, mem, jobs, signed, exported>>

AddRunFails(c) ==
  /\ req[c].kind = "modernize"
  /\ StoreFaults \/ \A r \in Runs : Exists(r)
  /\ jobs' = jobs - 1
  /\ Finish(c)
  /\ UNCHANGED <<db, bundle, pc, mem, signed, exported>>

\* Service.revalidate reads the run and checks its target; the stage is only
\* checked by the reset.
RevalidateCheck(c, r) ==
  /\ req[c] = Idle
  /\ Exists(r)
  /\ db[r].recorded
  /\ req' = [req EXCEPT ![c] = [kind |-> "revalidate", run |-> r]]
  /\ UNCHANGED <<db, bundle, pc, mem, jobs, signed, exported>>

RevalidateSlot(c) ==
  /\ req[c].kind = "revalidate"
  /\ \/ /\ acquire_job_slot
        /\ req' = [req EXCEPT ![c] = [kind |-> "reset", run |-> req[c].run]]
     \/ /\ jobs >= JobLimit
        /\ Finish(c)
        /\ UNCHANGED jobs
  /\ UNCHANGED <<db, bundle, pc, mem, signed, exported>>

Reset(c) ==
  /\ req[c].kind = "reset"
  /\ LET r == req[c].run IN
       \/ /\ Terminal(r)
          /\ db[r].gen < MaxGeneration
          /\ begin_revalidation(r)
          /\ req' = [req EXCEPT ![c] =
                      [kind |-> "launch", run |-> r, gen |-> db[r].gen + 1]]
          /\ UNCHANGED jobs
       \/ /\ StoreFaults \/ ~Terminal(r) \/ db[r].gen = MaxGeneration
          /\ jobs' = jobs - 1
          /\ Finish(c)
          /\ UNCHANGED db
  /\ UNCHANGED <<bundle, pc, mem, signed, exported>>

\* Service._launch: the thread starts, or the request thread gives the slot
\* back and persists the run as FAILED itself.
Launch(c) ==
  /\ req[c].kind = "launch"
  /\ LET a == <<req[c].run, req[c].gen>> IN
       \/ /\ pc' = [pc EXCEPT ![a] = "launched"]
          /\ UNCHANGED <<mem, jobs>>
       \/ /\ pc' = [pc EXCEPT ![a] = "abandoned"]
          /\ mem' = [mem EXCEPT ![a] =
                      [NoMem EXCEPT !.gen = req[c].gen, !.stage = "FAILED",
                                    !.proof = db[req[c].run].proof,
                                    !.report = db[req[c].run].report]]
          /\ jobs' = jobs - 1
  /\ Finish(c)
  /\ UNCHANGED <<db, bundle, signed, exported>>

-----------------------------------------------------------------------------
(* The worker of attempt a = <<r, g>>.                                     *)

Goto(a, l) == pc' = [pc EXCEPT ![a] = l]

\* Mutant: the failing worker returns its slot without persisting the run.
Raise_without_persisting(a) ==
  /\ Goto(a, "releasing")
  /\ mem' = [mem EXCEPT ![a].stage = "FAILED"]

\* except Exception in _modernize_background / _revalidate_background: the
\* record keeps whatever the attempt had put into it.
Raise(a) ==
  /\ Goto(a, "finishing")
  /\ mem' = [mem EXCEPT ![a].stage = "FAILED"]

\* A progress callback: the stage is set in memory and written; a refused or
\* failed write is logged and ignored.
Progress(a, m) ==
  /\ mem' = [mem EXCEPT ![a] = m]
  /\ \/ update_run_accepts(a[1], m) /\ update_run(a[1], m)
     \/ /\ StoreFaults \/ ~update_run_accepts(a[1], m)
        /\ UNCHANGED db

\* Start of a worker.  A run that cannot be loaded is left as it is.  The
\* loaded stage is not kept: it is replaced before the record is written.
Load(a) ==
  /\ pc[a] = "launched"
  /\ \/ LET row == db[a[1]]
            copy == [NoMem EXCEPT !.gen = row.gen, !.verdict = row.verdict,
                       !.evidence = row.evidence, !.proof = row.proof,
                       !.report = row.report, !.seal = row.seal]
        IN \/ /\ mem' = [mem EXCEPT ![a] = copy]
              /\ Goto(a, IF a[2] = 0 THEN "generating" ELSE "validating")
           \/ /\ StoreFaults
              /\ mem' = [mem EXCEPT ![a] = [copy EXCEPT !.stage = "FAILED"]]
              /\ Goto(a, "finishing")
     \/ /\ StoreFaults
        /\ Goto(a, "releasing")
        /\ UNCHANGED mem
  /\ UNCHANGED <<db, bundle, jobs, req, signed, exported>>

Ahead(m) == {s \in Phases : StageIndex(s) > StageIndex(m.stage)}

\* Next phase of UniversalModernizationPipeline.execute.
GenerationPhase(a) ==
  /\ pc[a] = "generating"
  /\ \E s \in Ahead(mem[a]) :
       /\ \A t \in Ahead(mem[a]) : StageIndex(s) <= StageIndex(t)
       /\ Progress(a, [mem[a] EXCEPT !.stage = s])
  /\ UNCHANGED <<bundle, pc, jobs, req, signed, exported>>

\* The project directory exists, its report is on the copy; provenance goes to
\* the application row, which may fail.
GenerationDone(a) ==
  /\ pc[a] = "generating"
  /\ Ahead(mem[a]) = {}
  /\ bundle' = [bundle EXCEPT ![a[1]] = Generated]
  /\ \/ /\ Goto(a, "sealing")
        /\ mem' = [mem EXCEPT ![a] = [mem[a] EXCEPT !.report = TRUE]]
     \/ /\ StoreFaults
        /\ Goto(a, "finishing")
        /\ mem' = [mem EXCEPT ![a] =
                    [mem[a] EXCEPT !.report = TRUE, !.stage = "FAILED"]]
  /\ UNCHANGED <<db, jobs, req, signed, exported>>

\* Interim seal of _generate_application.
InterimSeal(a) ==
  /\ pc[a] = "sealing"
  /\ \/ /\ bundle[a[1]] # Absent
        /\ bound_write_accepts(a[1], mem[a].gen)
        /\ db' = [db EXCEPT ![a[1]].seal = bundle[a[1]]]
        /\ mem' = [mem EXCEPT ![a].seal = bundle[a[1]]]
        /\ Goto(a, "recording")
     \/ /\ StoreFaults \/ ~bound_write_accepts(a[1], mem[a].gen)
        /\ Raise(a)
        /\ UNCHANGED db
  /\ UNCHANGED <<bundle, jobs, req, signed, exported>>

\* Store.set_run_generated.
RecordBundle(a) ==
  /\ pc[a] = "recording"
  /\ \/ /\ bound_write_accepts(a[1], mem[a].gen)
        /\ db' = [db EXCEPT ![a[1]].recorded = TRUE]
        /\ Goto(a, "validating")
        /\ UNCHANGED mem
     \/ /\ StoreFaults \/ ~bound_write_accepts(a[1], mem[a].gen)
        /\ Raise(a)
        /\ UNCHANGED db
  /\ UNCHANGED <<bundle, jobs, req, signed, exported>>

\* _run_validation, phase by phase (VerticalSlicePipeline.run).
ExecuteOracle(a) ==
  /\ pc[a] = "validating"
  /\ Progress(a, [mem[a] EXCEPT !.stage = "EXECUTING_ORACLE"])
  /\ Goto(a, "oracle")
  /\ UNCHANGED <<bundle, jobs, req, signed, exported>>

StartBuild(a) ==
  /\ pc[a] = "oracle"
  /\ Progress(a, [mem[a] EXCEPT !.stage = "BUILDING"])
  /\ Goto(a, "building")
  /\ UNCHANGED <<bundle, jobs, req, signed, exported>>

\* The build lane writes the jar into the bundle; only a successful build is
\* executed.
Build(a) ==
  /\ pc[a] = "building"
  /\ \/ /\ bundle[a[1]] # Absent
        /\ bundle' = [bundle EXCEPT ![a[1]] = a[2]]
        /\ Progress(a, [mem[a] EXCEPT !.stage = "EXECUTING_GENERATED",
                                      !.built = TRUE])
     \/ UNCHANGED <<bundle, db, mem>>
  /\ Goto(a, "comparing")
  /\ UNCHANGED <<jobs, req, signed, exported>>

Compare(a) ==
  /\ pc[a] = "comparing"
  /\ Progress(a, [mem[a] EXCEPT !.stage = "COMPARING"])
  /\ Goto(a, "deriving")
  /\ UNCHANGED <<bundle, jobs, req, signed, exported>>

\* VALIDATING_EVIDENCE is emitted, then the verdict is derived in memory.  A
\* candidate that was not built cannot be VERIFIED.
DeriveVerdict(a) ==
  /\ pc[a] = "deriving"
  /\ Progress(a, [mem[a] EXCEPT !.stage = "VALIDATING_EVIDENCE"])
  /\ Goto(a, "proving")
  /\ UNCHANGED <<bundle, jobs, req, signed, exported>>

\* The integrated proof is stamped with the generation; without the report of
\* the generation there is nothing to prove and the old value stays.
stamped_proof(m) == IF m.report THEN m.gen ELSE m.proof

\* The pipeline result is copied to the record, checked for consistency, the
\* proof is computed and the bundle hashed; each of these may raise.
ProveAndSeal(a) ==
  /\ pc[a] = "proving"
  /\ \E v \in {"VERIFIED", "OTHER"} :
       /\ v = "VERIFIED" => mem[a].built
       /\ \/ /\ bundle[a[1]] # Absent
             /\ mem' = [mem EXCEPT ![a] = [mem[a] EXCEPT
                         !.verdict = v, !.evidence = mem[a].gen,
                         !.proof = stamped_proof(mem[a]),
                         !.seal = bundle[a[1]]]]
             /\ Goto(a, "storing")
          \/ /\ \E p \in {mem[a].proof, stamped_proof(mem[a])} :
                  mem' = [mem EXCEPT ![a] = [mem[a] EXCEPT
                           !.verdict = v, !.evidence = mem[a].gen,
                           !.proof = p, !.stage = "FAILED"]]
             /\ Goto(a, "finishing")
  /\ UNCHANGED <<db, bundle, jobs, req, signed, exported>>

\* Mutant: a seal that could not be stored is logged and ignored.
StoreSeal_best_effort(a) ==
  /\ pc[a] = "storing"
  /\ \/ /\ bound_write_accepts(a[1], mem[a].gen)
        /\ db' = [db EXCEPT ![a[1]].seal = mem[a].seal]
     \/ /\ StoreFaults \/ ~bound_write_accepts(a[1], mem[a].gen)
        /\ UNCHANGED db
  /\ Goto(a, "saving")
  /\ UNCHANGED <<bundle, mem, jobs, req, signed, exported>>

\* Final seal, before the verdict is saved.
StoreSeal(a) ==
  /\ pc[a] = "storing"
  /\ \/ /\ bound_write_accepts(a[1], mem[a].gen)
        /\ db' = [db EXCEPT ![a[1]].seal = mem[a].seal]
        /\ Goto(a, "saving")
        /\ UNCHANGED mem
     \/ /\ StoreFaults \/ ~bound_write_accepts(a[1], mem[a].gen)
        /\ Raise(a)
        /\ UNCHANGED db
  /\ UNCHANGED <<bundle, jobs, req, signed, exported>>

SaveVerdict(a) ==
  /\ pc[a] = "saving"
  /\ \/ /\ update_run_accepts(a[1], mem[a])
        /\ update_run(a[1], mem[a])
        /\ mem' = [mem EXCEPT ![a].stage = "COMPLETED"]
        /\ Goto(a, "finishing")
     \/ /\ StoreFaults \/ ~update_run_accepts(a[1], mem[a])
        /\ Raise(a)
        /\ UNCHANGED db
  /\ UNCHANGED <<bundle, jobs, req, signed, exported>>

\* Any operation of the two pipelines may raise.
PipelineRaises(a) ==
  /\ pc[a] \in {"generating", "sealing", "validating", "oracle", "building",
                "comparing", "deriving"}
  /\ Raise(a)
  /\ UNCHANGED <<db, bundle, jobs, req, signed, exported>>

\* Mutant: one attempt too many.
gives_up_late(m) == m.tries = PersistAttempts

\* _persist_final: bounded retries, then the run is left non-terminal.
gives_up(m) == m.tries + 1 = PersistAttempts

PersistFinal(a) ==
  /\ pc[a] \in {"finishing", "abandoned"}
  /\ LET done == IF pc[a] = "finishing" THEN "releasing" ELSE "ended"
     IN \/ /\ update_run_accepts(a[1], mem[a])
           /\ update_run(a[1], mem[a])
           /\ Goto(a, done)
           /\ mem' = [mem EXCEPT ![a] = NoMem]
        \/ /\ StoreFaults \/ ~update_run_accepts(a[1], mem[a])
           /\ IF gives_up(mem[a])
              THEN Goto(a, done) /\ mem' = [mem EXCEPT ![a] = NoMem]
              ELSE UNCHANGED pc /\ mem' = [mem EXCEPT ![a].tries = @ + 1]
           /\ UNCHANGED db
  /\ UNCHANGED <<bundle, jobs, req, signed, exported>>

\* Mutant: the thread ends without the finally clause.
Release_without_decrement(a) ==
  /\ pc[a] = "releasing"
  /\ Goto(a, "ended")
  /\ UNCHANGED <<db, bundle, mem, jobs, req, signed, exported>>

\* finally clause of _launch.
Release(a) ==
  /\ pc[a] = "releasing"
  /\ jobs' = jobs - 1
  /\ Goto(a, "ended")
  /\ UNCHANGED <<db, bundle, mem, req, signed, exported>>

-----------------------------------------------------------------------------
(* Customer decisions and export.                                          *)

\* Service.set_run_approval(APPROVED): gate on the loaded record ...
ApproveLoad(c, r) ==
  /\ req[c] = Idle
  /\ db[r].verdict = "VERIFIED"
  /\ db[r].recorded
  /\ req' = [req EXCEPT ![c] = [kind |-> "approve", run |-> r,
                                gen |-> db[r].gen, seal |-> db[r].seal]]
  /\ UNCHANGED <<db, bundle, pc, mem, jobs, signed, exported>>

\* Mutant: the stored seal is taken on trust.
ApproveVerify_without_disk(c) ==
  /\ req[c].kind = "approve"
  /\ req' = [req EXCEPT ![c] =
              IF req[c].seal # NONE
              THEN [req[c] EXCEPT !.kind = "decide"] ELSE Idle]
  /\ UNCHANGED <<db, bundle, pc, mem, jobs, signed, exported>>

\* ... verify_generated_seal on the tree found on disk ...
ApproveVerify(c) ==
  /\ req[c].kind = "approve"
  /\ req' = [req EXCEPT ![c] =
              IF /\ req[c].seal # NONE
                 /\ bundle[req[c].run] = req[c].seal
              THEN [req[c] EXCEPT !.kind = "decide"] ELSE Idle]
  /\ UNCHANGED <<db, bundle, pc, mem, jobs, signed, exported>>

\* ... and the write, bound to the generation that was checked.
ApproveWrite(c) ==
  /\ req[c].kind = "decide"
  /\ LET q == req[c] IN
       \/ /\ bound_write_accepts(q.run, q.gen)
          /\ db' = [db EXCEPT ![q.run].approval = "APPROVED",
                              ![q.run].event = "APPROVED"]
          /\ signed' = signed \cup
               {[run |-> q.run, gen |-> q.gen, content |-> q.seal]}
       \/ /\ StoreFaults \/ ~bound_write_accepts(q.run, q.gen)
          /\ UNCHANGED <<db, signed>>
  /\ Finish(c)
  /\ UNCHANGED <<bundle, pc, mem, jobs, exported>>

\* A rejection is bound to no generation and needs no evidence.
RejectRun(c, r) ==
  /\ req[c] = Idle
  /\ Exists(r)
  /\ db' = [db EXCEPT ![r].approval = "REJECTED", ![r].event = "REJECTED"]
  /\ UNCHANGED <<bundle, pc, mem, jobs, req, signed, exported>>

\* download_generated: gates on the loaded record ...
DownloadLoad(c, r) ==
  /\ req[c] = Idle
  /\ db[r].approval = "APPROVED"
  /\ db[r].verdict = "VERIFIED"
  /\ db[r].recorded
  /\ req' = [req EXCEPT ![c] = [kind |-> "download", run |-> r,
                                gen |-> db[r].gen, seal |-> db[r].seal]]
  /\ UNCHANGED <<db, bundle, pc, mem, jobs, signed, exported>>

\* Mutant: the archive is built from whatever is on disk.
DownloadRead_unverified(c) ==
  /\ req[c].kind = "download"
  /\ LET q == req[c] IN
       exported' = IF bundle[q.run] # Absent
                   THEN exported \cup {[run |-> q.run, gen |-> q.gen,
                                        content |-> bundle[q.run]]}
                   ELSE exported
  /\ Finish(c)
  /\ UNCHANGED <<db, bundle, pc, mem, jobs, signed>>

\* ... then read_verified_bundle: the bytes that match the loaded seal.
DownloadRead(c) ==
  /\ req[c].kind = "download"
  /\ LET q == req[c] IN
       exported' = IF q.seal # NONE /\ bundle[q.run] = q.seal
                   THEN exported \cup {[run |-> q.run, gen |-> q.gen,
                                        content |-> bundle[q.run]]}
                   ELSE exported
  /\ Finish(c)
  /\ UNCHANGED <<db, bundle, pc, mem, jobs, signed>>

-----------------------------------------------------------------------------
(* Environment.                                                            *)

\* What a changed tree is: bytes that no seal holds yet, named for what they
\* are to the attempt that will seal them.
Unsealed(r) == {g \in Gens : /\ mem[<<r, g>>].built
                             /\ pc[<<r, g>>] \in
                                  {"comparing", "deriving", "proving"}}
Unbuilt(r) == pc[<<r, 0>>] \in {"sealing", "recording", "validating", "oracle",
                                "building"}
ChangedTrees(r) ==
  IF Unsealed(r) # {} THEN {Altered(g) : g \in Unsealed(r)}
  ELSE IF Unbuilt(r) THEN {Edited} ELSE {Changed}

\* A bundle is lost or changed on disk; nothing holds it while a worker runs.
DiskChange(r) ==
  /\ bundle[r] # Absent
  /\ \E x \in {Absent} \cup ChangedTrees(r) :
       bundle' = [bundle EXCEPT ![r] = x]
  /\ UNCHANGED <<db, pc, mem, jobs, req, signed, exported>>

\* The process dies with its threads and starts again.  A failing startup
\* reconciliation is logged and ignored.
Restart ==
  /\ pc' = [a \in Attempts |->
             IF pc[a] \in Writing \cup {"releasing"} THEN "ended" ELSE pc[a]]
  /\ req' = [c \in Clients |-> Idle]
  /\ jobs' = 0
  /\ mem' = [a \in Attempts |-> NoMem]
  /\ mark_interrupted_runs \/ (StoreFaults /\ UNCHANGED db)
  /\ UNCHANGED <<bundle, signed, exported>>

\* Another process opens the store: its startup reconciliation runs while the
\* workers of this one are alive.
OtherProcessStarts ==
  /\ SecondProcess
  /\ mark_interrupted_runs
  /\ UNCHANGED <<bundle, pc, mem, jobs, req, signed, exported>>

-----------------------------------------------------------------------------
WorkerStep(a) ==
  \/ Load(a) \/ GenerationPhase(a) \/ GenerationDone(a) \/ InterimSeal(a)
  \/ RecordBundle(a) \/ ExecuteOracle(a) \/ StartBuild(a) \/ Build(a)
  \/ Compare(a) \/ DeriveVerdict(a) \/ ProveAndSeal(a) \/ StoreSeal(a)
  \/ SaveVerdict(a) \/ PipelineRaises(a) \/ PersistFinal(a) \/ Release(a)

\* Steps of a request that has begun: its thread runs to the end.
RequestStep(c) ==
  \/ \E r \in Runs : AddRun(c, r)
  \/ AddRunFails(c) \/ RevalidateSlot(c) \/ Reset(c) \/ Launch(c)
  \/ ApproveVerify(c) \/ ApproveWrite(c) \/ DownloadRead(c)

NewRequest(c) ==
  \/ ModernizeSlot(c)
  \/ \E r \in Runs : \/ RevalidateCheck(c, r) \/ ApproveLoad(c, r)
                     \/ RejectRun(c, r) \/ DownloadLoad(c, r)

Next ==
  \/ \E a \in Attempts : WorkerStep(a)
  \/ \E c \in Clients : RequestStep(c) \/ NewRequest(c)
  \/ \E r \in Runs : DiskChange(r)
  \/ Restart
  \/ OtherProcessStarts

\* Threads are scheduled; clients, disks and crashes promise nothing.
Fairness ==
  /\ \A a \in Attempts : WF_vars(WorkerStep(a))
  /\ \A c \in Clients : WF_vars(RequestStep(c))

Spec == Init /\ [][Next]_vars /\ Fairness

-----------------------------------------------------------------------------
(* Properties.                                                             *)

RunRecords ==
  [stage : Stages \cup {"none"}, gen : Gens, verdict : Verdicts,
   evidence : Gens \cup {NONE}, proof : Gens \cup {NONE},
   report : BOOLEAN, approval : Decisions, seal : Contents \cup {NONE}, recorded : BOOLEAN,
   anchor : Stages \cup {"none"},
   event : {"none", "APPROVED", "REJECTED", "RESET"}]

Copies ==
  [gen : Gens, stage : Stages, verdict : Verdicts,
   evidence : Gens \cup {NONE}, proof : Gens \cup {NONE},
   report : BOOLEAN, seal : Contents \cup {NONE}, built : BOOLEAN, tries : 0..(PersistAttempts - 1)]

Requests ==
  [kind : {"idle", "modernize"}]
    \cup [kind : {"revalidate", "reset"}, run : Runs]
    \cup [kind : {"launch"}, run : Runs, gen : Gens]
    \cup [kind : {"approve", "download"}, run : Runs, gen : Gens,
          seal : Contents \cup {NONE}]
    \cup [kind : {"decide"}, run : Runs, gen : Gens, seal : Contents]

Artifacts == [run : Runs, gen : Gens, content : Contents]

\* Types of the run table, the workers' copies and the requests in flight.
TypeOK ==
  /\ db \in [Runs -> RunRecords]
  /\ bundle \in [Runs -> Contents]
  /\ pc \in [Attempts -> Writing \cup {"idle", "releasing", "ended"}]
  /\ mem \in [Attempts -> Copies]
  /\ jobs \in Int
  /\ req \in [Clients -> Requests]
  /\ signed \subseteq Artifacts
  /\ exported \subseteq Artifacts

\* A stored verdict was derived by the attempt the run is in: no reader ever
\* sees the verdict of an earlier attempt on a reset run, whichever stale
\* worker is still alive (update_run and begin_revalidation).
VerdictOfThisAttempt ==
  \A r \in Runs : db[r].verdict # "none" => db[r].evidence = db[r].gen

\* A run shown as APPROVED carries the VERIFIED verdict and the very seal the
\* customer signed off in the current attempt (set_run_approval against
\* set_generated_seal, begin_revalidation and restarts).
ApprovedIsCertified ==
  \A r \in Runs : db[r].approval = "APPROVED" =>
    /\ db[r].verdict = "VERIFIED"
    /\ [run |-> r, gen |-> db[r].gen, content |-> db[r].seal] \in signed

\* Every archive handed out holds bytes a customer signed off, even when a
\* revalidation, a rebuild or a disk change races the download.
ExportedWasSigned == exported \subseteq signed

\* What a customer signs off is the tree that the seal of the signed attempt
\* itself found: the one whose jar it built and executed, or what became of that
\* tree before the final seal (_run_validation); never the tree before the
\* build, of another attempt, or changed after the seal.
SignedIsOfItsAttempt == \A s \in signed : s.content \in TreesOf(s.gen)

\* A COMPLETED run has everything the views serve: a verdict, a seal (of a tree
\* of this attempt if VERIFIED), and no proof of an earlier attempt.  The proof is
\* missing only when a crash took the generation report with it.
CompletedIsWhole ==
  \A r \in Runs : db[r].stage = "COMPLETED" =>
    /\ db[r].verdict # "none"
    /\ db[r].proof = IF db[r].report THEN db[r].gen ELSE NONE
    /\ db[r].seal # NONE
    /\ db[r].verdict = "VERIFIED" => db[r].seal \in TreesOf(db[r].gen)

\* The slot counter equals the threads that hold a slot: no path of modernize,
\* revalidate, _launch or a worker leaks a slot or returns it twice.
SlotsMatchThreads ==
  /\ jobs <= JobLimit
  /\ jobs = Cardinality({a \in Attempts : pc[a] \in Working})
               + Cardinality({c \in Clients :
                                req[c].kind \in
                                  {"modernize", "reset", "launch"}})

\* The last row of the approval trail explains the decision shown on the run.
TrailExplainsDecision ==
  \A r \in Runs : db[r].approval =
    IF db[r].event \in {"none", "RESET"} THEN "PENDING" ELSE db[r].event

-----------------------------------------------------------------------------
\* The result of a terminal run changes only through a new attempt.
TerminalResultIsFinal ==
  [][\A r \in Runs :
       Terminal(r) /\ db'[r].gen = db[r].gen =>
         /\ db'[r].stage = db[r].stage
         /\ db'[r].verdict = db[r].verdict
         /\ db'[r].seal = db[r].seal
         /\ db'[r].proof = db[r].proof]_vars

\* How far the attempt of a run has come, for the customer.
Status(r) == IF ~Exists(r) THEN "absent"
             ELSE IF Terminal(r) THEN "ended" ELSE "working"

\* What the customer is promised, and the control plane that keeps it in a
\* single process: every step of a worker, a request, a crash or the disk is a
\* step of the abstract run, or none.
CE == INSTANCE CertifiedExport WITH
        Run <- Runs, Last <- MaxGeneration,
        Trees <- [g \in Gens |-> TreesOf(g)],
        state <- [r \in Runs |-> Status(r)],
        attempt <- [r \in Runs |-> db[r].gen],
        verdict <- [r \in Runs |-> db[r].verdict],
        decision <- [r \in Runs |-> db[r].approval]
CertifiedExportSpec == CE!Spec

\* What the file-level audit promises of workers that outlive another process's
\* startup reconciliation: their terminal writes are rejected, so the verdict
\* of a run that is already terminal does not change under its readers.
LateVerdictIsRejected ==
  [][\A r \in Runs : Terminal(r) /\ db'[r].gen = db[r].gen =>
       db'[r].verdict = db[r].verdict]_vars

\* Every run that was created reaches a terminal stage.
RunsReachTerminal == \A r \in Runs : Exists(r) ~> Terminal(r)

\* A full service gets a slot back.
SlotsComeBack == (jobs = JobLimit) ~> (jobs < JobLimit)
=============================================================================
