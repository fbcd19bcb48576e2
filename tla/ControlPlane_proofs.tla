------------------------ MODULE ControlPlane_proofs ------------------------
(***************************************************************************)
(* Theorems about ControlPlane for every value of its constants.           *)
(***************************************************************************)
EXTENDS ControlPlane, FiniteSetTheorems, TLAPS

\* The stage names the control plane uses are stages (STAGE_ORDER).
LEMMA StageFacts ==
  /\ GENERATION_PHASES \subseteq Stages
  /\ {"CREATED", "FAILED", "COMPLETED", "EXECUTING_ORACLE", "BUILDING",
      "EXECUTING_GENERATED", "COMPARING", "VALIDATING_EVIDENCE"}
       \subseteq Stages
  /\ "none" \notin Stages
  /\ TERMINAL_STAGES \subseteq Stages
<1>1. Ordered = {"CREATED", "INGESTING", "DISCOVERING",
       "DISCOVERY_COMPLETED", "ANALYZING", "ANALYSIS_COMPLETED", "PLANNING",
       "PLAN_COMPLETED", "TRANSFORMING", "GENERATING", "ASSEMBLING",
       "ASSEMBLY_COMPLETED", "EXECUTING_ORACLE", "BUILDING",
       "EXECUTING_GENERATED", "COMPARING", "VALIDATING_EVIDENCE",
       "COMPLETED"}
  <2>1. Len(STAGE_ORDER) = 18
    BY DEF STAGE_ORDER
  <2>2. 1..18 = {1,2,3,4,5,6,7,8,9,10,11,12,13,14,15,16,17,18}
    OBVIOUS
  <2> QED BY <2>1, <2>2 DEF Ordered, STAGE_ORDER
<1> QED BY <1>1 DEF Stages, GENERATION_PHASES, TERMINAL_STAGES

\* What a directory can hold; no seal of a tree is NONE.
LEMMA ContentFacts ==
  /\ Gens \subseteq Contents
  /\ {Absent, Generated, Edited, Changed} \subseteq Contents
  /\ NONE \notin Contents
<1>1. \A g \in Gens : g \in Nat /\ Altered(g) \in Nat
  BY BoundsAssumption DEF Gens, Altered
<1>2. NONE \notin Nat
  BY DEF NONE
<1> QED BY <1>1, <1>2 DEF Contents, NONE, Absent, Generated, Edited, Changed

\* The trees of an attempt are told from any other content.
LEMMA TreeFacts ==
  ASSUME NEW g \in Gens
  PROVE  /\ TreesOf(g) \subseteq Contents
         /\ \A x \in TreesOf(g) : x \notin {NONE, Absent, Generated, Edited}
<1>1. g \in Nat /\ Altered(g) \in Nat
  BY BoundsAssumption DEF Gens, Altered
<1>2. \A x \in {NONE, Absent, Generated, Edited} : x \notin Nat
  BY DEF NONE, Absent, Generated, Edited
<1>3. TreesOf(g) \subseteq Contents
  BY DEF TreesOf, Contents
<1> QED BY <1>1, <1>2, <1>3 DEF TreesOf

\* The empty store and idle threads are well formed.
LEMMA InitTypeOK == Init => TypeOK
  BY BoundsAssumption, StageFacts, ContentFacts
  DEF Init, TypeOK, NoRun, NoMem, Idle, RunRecords, Copies, Requests, Gens,
      Absent, NONE, Verdicts, Decisions, Attempts

-----------------------------------------------------------------------------
(* Types.                                                                  *)

\* Store.update_run writes a well-formed row.
LEMMA UpdateRunType ==
  ASSUME TypeOK, NEW r \in Runs, NEW m \in Copies, update_run(r, m)
  PROVE  db' \in [Runs -> RunRecords]
<1>1. db[r] \in RunRecords
  BY DEF TypeOK
<1>2. last_stage_anchor(m.stage, db[r].anchor) \in Stages \cup {"none"}
  BY <1>1 DEF last_stage_anchor, RunRecords, Copies
<1>3. [db[r] EXCEPT !.stage = m.stage,
          !.anchor = last_stage_anchor(m.stage, db[r].anchor),
          !.verdict = m.verdict, !.evidence = m.evidence, !.proof = m.proof,
          !.report = m.report]
        \in RunRecords
  BY <1>1, <1>2 DEF RunRecords, Copies
<1> QED BY <1>3 DEF update_run, TypeOK

\* A progress callback keeps the worker's copy and the row well formed.
LEMMA ProgressType ==
  ASSUME TypeOK, NEW a \in Attempts, NEW m \in Copies, Progress(a, m)
  PROVE  db' \in [Runs -> RunRecords] /\ mem' \in [Attempts -> Copies]
<1>1. a[1] \in Runs
  BY DEF Attempts
<1>2. mem' \in [Attempts -> Copies]
  BY DEF Progress, TypeOK
<1>3. CASE update_run(a[1], m)
  BY <1>1, <1>2, <1>3, UpdateRunType
<1>4. CASE UNCHANGED db
  BY <1>2, <1>4 DEF TypeOK
<1> QED BY <1>3, <1>4 DEF Progress

\* Moving a thread and failing its attempt.
LEMMA RaiseType ==
  ASSUME TypeOK, NEW a \in Attempts, Raise(a)
  PROVE  mem' \in [Attempts -> Copies]
<1>1. [mem[a] EXCEPT !.stage = "FAILED"] \in Copies
  BY StageFacts DEF TypeOK, Copies
<1> QED BY <1>1 DEF Raise, TypeOK

\* Moving a thread keeps it at a known place.
LEMMA GotoType ==
  ASSUME TypeOK, NEW a \in Attempts,
         NEW l \in Writing \cup {"idle", "releasing", "ended"}, Goto(a, l)
  PROVE  pc' \in [Attempts -> Writing \cup {"idle", "releasing", "ended"}]
BY DEF Goto, TypeOK

\* Every step of a worker preserves the types.
LEMMA WorkerTypeOK ==
  ASSUME TypeOK, NEW a \in Attempts, WorkerStep(a)
  PROVE  TypeOK'
<1> USE BoundsAssumption, StageFacts
<1> DEFINE r == a[1]
           m == mem[a]
           L == Writing \cup {"idle", "releasing", "ended"}
<1>a. /\ a[1] \in Runs /\ a[2] \in Gens
  BY DEF Attempts
<1>b. /\ db[r] \in RunRecords /\ m \in Copies /\ bundle[r] \in Contents
  BY <1>a DEF TypeOK
<1>c. NoMem \in Copies
  BY DEF NoMem, Copies, Gens, Verdicts, NONE
<1>d. {"generating", "validating", "finishing", "releasing", "sealing",
       "recording", "oracle", "building", "comparing", "deriving", "proving",
       "storing", "saving", "ended"} \subseteq L
  BY DEF Writing
<1>e. \A s \in Stages : [m EXCEPT !.stage = s] \in Copies
  BY <1>b DEF Copies
<1>1. CASE Load(a)
  <2>1. /\ [NoMem EXCEPT !.gen = db[r].gen, !.verdict = db[r].verdict,
             !.evidence = db[r].evidence, !.proof = db[r].proof,
             !.report = db[r].report, !.seal = db[r].seal] \in Copies
        /\ [[NoMem EXCEPT !.gen = db[r].gen, !.verdict = db[r].verdict,
             !.evidence = db[r].evidence, !.proof = db[r].proof,
             !.report = db[r].report, !.seal = db[r].seal] EXCEPT !.stage = "FAILED"] \in Copies
    BY <1>b, <1>c DEF Copies, RunRecords
  <2> HIDE DEF NoMem, m, L
  <2>2. mem' \in [Attempts -> Copies] 
    BY <1>1, <2>1 DEF Load, TypeOK, r
  <2>3. pc' \in [Attempts -> L]
    BY <1>1, <1>d DEF Load, TypeOK, Goto, L
  <2> QED BY <1>1, <2>2, <2>3 DEF Load, TypeOK, L
<1>2. CASE GenerationPhase(a)
  BY <1>2, <1>e, ProgressType DEF GenerationPhase, TypeOK, Ahead
<1>3. CASE GenerationDone(a)
  <2>1. /\ [m EXCEPT !.report = TRUE] \in Copies
        /\ [m EXCEPT !.report = TRUE, !.stage = "FAILED"] \in Copies
    BY <1>b DEF Copies
  <2> QED BY <1>3, <1>a, <1>d, <2>1, ContentFacts
          DEF GenerationDone, TypeOK, Goto
<1>4. CASE InterimSeal(a)
  <2>1. /\ [db[r] EXCEPT !.seal = bundle[r]] \in RunRecords
        /\ [m EXCEPT !.seal = bundle[r]] \in Copies
    BY <1>b DEF RunRecords, Copies
  <2> QED BY <1>4, <1>a, <1>d, <2>1, RaiseType DEF InterimSeal, TypeOK, Goto, Raise
<1>5. CASE RecordBundle(a)
  <2>1. [db[r] EXCEPT !.recorded = TRUE] \in RunRecords
    BY <1>b DEF RunRecords
  <2> QED BY <1>5, <1>a, <1>d, <2>1, RaiseType DEF RecordBundle, TypeOK, Goto, Raise
<1>6. CASE ExecuteOracle(a)
  BY <1>6, <1>d, <1>e, ProgressType DEF ExecuteOracle, TypeOK, Goto
<1>7. CASE StartBuild(a)
  BY <1>7, <1>d, <1>e, ProgressType DEF StartBuild, TypeOK, Goto
<1>8. CASE Build(a)
  <2>1. [m EXCEPT !.stage = "EXECUTING_GENERATED", !.built = TRUE] \in Copies
    BY <1>b DEF Copies
  <2> QED BY <1>8, <1>a, <1>d, <2>1, ProgressType, ContentFacts
          DEF Build, TypeOK, Goto
<1>9. CASE Compare(a)
  BY <1>9, <1>d, <1>e, ProgressType DEF Compare, TypeOK, Goto
<1>10. CASE DeriveVerdict(a)
  BY <1>10, <1>d, <1>e, ProgressType DEF DeriveVerdict, TypeOK, Goto
<1>11. CASE ProveAndSeal(a)
  <2>1. \A v \in Verdicts, p \in Gens \cup {NONE} :
          /\ [m EXCEPT !.verdict = v, !.evidence = m.gen, !.proof = p,
                       !.seal = bundle[r]] \in Copies
          /\ [m EXCEPT !.verdict = v, !.evidence = m.gen, !.proof = p,
                       !.stage = "FAILED"] \in Copies
    BY <1>b DEF Copies
  <2>2. {m.proof, stamped_proof(m)} \subseteq Gens \cup {NONE}
    BY <1>b DEF Copies, stamped_proof
  <2>3. PICK v \in Verdicts, p \in Gens \cup {NONE} :
          \/ /\ mem' = [mem EXCEPT ![a] = [m EXCEPT !.verdict = v,
                    !.evidence = m.gen, !.proof = p, !.seal = bundle[r]]]
             /\ Goto(a, "storing")
          \/ /\ mem' = [mem EXCEPT ![a] = [m EXCEPT !.verdict = v,
                    !.evidence = m.gen, !.proof = p, !.stage = "FAILED"]]
             /\ Goto(a, "finishing")
    BY <1>11, <2>2 DEF ProveAndSeal, Verdicts
  <2>4. /\ pc' \in [Attempts -> L]
        /\ mem' \in [Attempts -> Copies]
    <3> DEFINE n == [m EXCEPT !.verdict = v, !.evidence = m.gen,
                              !.proof = p, !.seal = bundle[r]]
               o == [m EXCEPT !.verdict = v, !.evidence = m.gen,
                              !.proof = p, !.stage = "FAILED"]
    <3>1. n \in Copies /\ o \in Copies
      BY <2>1
    <3>2. \/ mem' = [mem EXCEPT ![a] = n] /\ Goto(a, "storing")
          \/ mem' = [mem EXCEPT ![a] = o] /\ Goto(a, "finishing")
      BY <2>3
    <3> HIDE DEF n, o
    <3> QED BY <1>d, <3>1, <3>2 DEF TypeOK, Goto
  <2> QED BY <1>11, <2>4 DEF ProveAndSeal, TypeOK
<1>12. CASE StoreSeal(a)
  <2>1. [db[r] EXCEPT !.seal = m.seal] \in RunRecords
    BY <1>b DEF RunRecords, Copies
  <2> QED BY <1>12, <1>a, <1>d, <2>1, RaiseType DEF StoreSeal, TypeOK, Goto, Raise
<1>13. CASE SaveVerdict(a)
  BY <1>13, <1>a, <1>b, <1>d, <1>e, UpdateRunType, RaiseType DEF SaveVerdict, TypeOK, Goto, Raise
<1>14. CASE PipelineRaises(a)
  BY <1>14, <1>d, RaiseType DEF PipelineRaises, TypeOK, Goto, Raise
<1>15. CASE PersistFinal(a)
  <2>1. ~gives_up(m) => [m EXCEPT !.tries = @ + 1] \in Copies
    BY <1>b DEF Copies, gives_up
  <2> QED BY <1>15, <1>a, <1>b, <1>c, <1>d, <2>1, UpdateRunType DEF PersistFinal, TypeOK, Goto
<1>16. CASE Release(a)
  BY <1>16, <1>d DEF Release, TypeOK, Goto
<1> QED
  BY <1>1, <1>2, <1>3, <1>4, <1>5, <1>6, <1>7, <1>8, <1>9, <1>10, <1>11,
     <1>12, <1>13, <1>14, <1>15, <1>16 DEF WorkerStep

\* A request never leaves the request space when it is answered.
LEMMA FinishType ==
  ASSUME TypeOK, NEW c \in Clients, Finish(c)
  PROVE  req' \in [Clients -> Requests]
BY DEF Finish, Idle, TypeOK, Requests

\* Every step of a request preserves the types.
LEMMA RequestTypeOK ==
  ASSUME TypeOK, NEW c \in Clients, RequestStep(c) \/ NewRequest(c)
  PROVE  TypeOK'
<1> USE BoundsAssumption, StageFacts
<1> DEFINE q == req[c]
<1>a. /\ q \in Requests
      /\ q.kind \in {"revalidate", "reset", "launch", "approve", "decide",
                   "download"} => q.run \in Runs /\ db[q.run] \in RunRecords
      /\ q.kind \in {"launch", "approve", "decide", "download"} => q.gen \in Gens
      /\ q.kind \in {"approve", "decide", "download"} =>
           q.seal \in Contents \cup {NONE}
      /\ q.kind = "decide" => q.seal \in Contents
  BY DEF TypeOK, Requests
<1>b. \A r \in Runs : db[r] \in RunRecords
  BY DEF TypeOK
<1>1. CASE ModernizeSlot(c)
  BY <1>1 DEF ModernizeSlot, acquire_job_slot, TypeOK, Requests
<1>2. CASE \E r \in Runs : AddRun(c, r)
  <2>1. PICK r \in Runs : AddRun(c, r)
    BY <1>2
  <2>2. [db[r] EXCEPT !.stage = "CREATED", !.anchor = "CREATED"] \in RunRecords
    BY <1>b DEF RunRecords
  <2>3. db' \in [Runs -> RunRecords]
    BY <2>1, <2>2 DEF AddRun, TypeOK
  <2>4. [kind |-> "launch", run |-> r, gen |-> 0] \in Requests
    BY DEF Requests, Gens
  <2> QED BY <2>1, <2>3, <2>4 DEF AddRun, TypeOK
<1>3. CASE AddRunFails(c)
  BY <1>3, FinishType DEF AddRunFails, TypeOK
<1>4. CASE \E r \in Runs : RevalidateCheck(c, r)
  BY <1>4 DEF RevalidateCheck, TypeOK, Requests
<1>5. CASE RevalidateSlot(c)
  <2>1. [kind |-> "reset", run |-> q.run] \in Requests
    BY <1>5, <1>a DEF Requests, RevalidateSlot
  <2> QED BY <1>5, <2>1, FinishType DEF RevalidateSlot, acquire_job_slot, TypeOK
<1>6. CASE Reset(c)
  <2>1. CASE /\ db[q.run].gen < MaxGeneration
             /\ begin_revalidation(q.run)
             /\ req' = [req EXCEPT ![c] = [kind |-> "launch", run |-> q.run,
                                           gen |-> db[q.run].gen + 1]]
             /\ UNCHANGED jobs
    <3>1. q.run \in Runs /\ db[q.run] \in RunRecords
      BY <1>6, <1>a DEF Reset
    <3>2. db[q.run].gen + 1 \in Gens
      BY <2>1, <3>1 DEF RunRecords, Gens
    <3>3. [kind |-> "launch", run |-> q.run, gen |-> db[q.run].gen + 1]
            \in Requests
      BY <3>1, <3>2 DEF Requests
    <3>4. db' \in [Runs -> RunRecords]
      <4> DEFINE event == IF db[q.run].approval = "PENDING"
                          THEN db[q.run].event ELSE "RESET"
                 row == [db[q.run] EXCEPT
                   !.stage = "CREATED", !.gen = db[q.run].gen + 1,
                   !.verdict = "none", !.evidence = NONE,
                   !.approval = "PENDING", !.seal = NONE, !.anchor = "none",
                   !.event = event]
      <4>0. event \in {"none", "APPROVED", "REJECTED", "RESET"}
        BY <3>1 DEF RunRecords
      <4>1. row \in RunRecords
        <5> HIDE DEF event
        <5> QED BY <3>1, <3>2, <4>0 DEF RunRecords, Verdicts, Decisions
      <4>2. db' = [db EXCEPT ![q.run] = row]
        BY <2>1 DEF begin_revalidation
      <4> HIDE DEF row
      <4> QED BY <4>1, <4>2 DEF TypeOK
    <3> QED BY <1>6, <2>1, <3>3, <3>4 DEF Reset, TypeOK
  <2>2. CASE jobs' = jobs - 1 /\ Finish(c) /\ UNCHANGED db
    BY <1>6, <2>2, FinishType DEF Reset, TypeOK
  <2> QED BY <1>6, <2>1, <2>2 DEF Reset
<1>7. CASE Launch(c)
  <2>1. q.run \in Runs /\ q.gen \in Gens /\ db[q.run] \in RunRecords
    BY <1>7, <1>a DEF Launch
  <2>2. <<q.run, q.gen>> \in Attempts
    BY <2>1 DEF Attempts
  <2>3. [NoMem EXCEPT !.gen = q.gen, !.stage = "FAILED",
                      !.proof = db[q.run].proof,
                      !.report = db[q.run].report] \in Copies
    <3>1. NoMem \in Copies
      BY DEF NoMem, Copies, Gens, Verdicts, NONE
    <3> HIDE DEF NoMem
    <3> QED BY <2>1, <3>1 DEF Copies, RunRecords
  <2>4. {"launched", "abandoned"} \subseteq Writing
    BY DEF Writing
  <2> HIDE DEF NoMem
  <2> QED BY <1>7, <2>2, <2>3, <2>4, FinishType DEF Launch, TypeOK
<1>8. CASE \E r \in Runs : ApproveLoad(c, r)
  <2>1. PICK r \in Runs : ApproveLoad(c, r)
    BY <1>8
  <2>2. [kind |-> "approve", run |-> r, gen |-> db[r].gen, seal |-> db[r].seal]
          \in Requests
    BY <1>b DEF Requests, RunRecords
  <2> QED BY <2>1, <2>2 DEF ApproveLoad, TypeOK
<1>9. CASE ApproveVerify(c)
  <2>1. q.seal # NONE => [q EXCEPT !.kind = "decide"] \in Requests
    BY <1>9, <1>a DEF ApproveVerify, Requests
  <2>2. Idle \in Requests
    BY DEF Idle, Requests
  <2> QED BY <1>9, <2>1, <2>2 DEF ApproveVerify, TypeOK
<1>10. CASE ApproveWrite(c)
  <2>1. /\ q.run \in Runs /\ q.gen \in Gens /\ q.seal \in Contents
        /\ db[q.run] \in RunRecords
    BY <1>10, <1>a DEF ApproveWrite
  <2>2. CASE /\ db' = [db EXCEPT ![q.run].approval = "APPROVED",
                                 ![q.run].event = "APPROVED"]
             /\ signed' = signed \cup
                  {[run |-> q.run, gen |-> q.gen, content |-> q.seal]}
    <3>0. [db[q.run] EXCEPT !.approval = "APPROVED", !.event = "APPROVED"]
            \in RunRecords
      BY <2>1 DEF RunRecords, Decisions
    <3>1. db' \in [Runs -> RunRecords]
      BY <2>1, <2>2, <3>0 DEF TypeOK
    <3>2. signed' \subseteq Artifacts
      BY <2>1, <2>2 DEF TypeOK, Artifacts
    <3> QED BY <1>10, <3>1, <3>2, FinishType DEF ApproveWrite, TypeOK
  <2>3. CASE UNCHANGED <<db, signed>>
    BY <1>10, <2>3, FinishType DEF ApproveWrite, TypeOK
  <2> QED BY <1>10, <2>2, <2>3 DEF ApproveWrite
<1>11. CASE \E r \in Runs : RejectRun(c, r)
  <2>1. PICK r \in Runs : RejectRun(c, r)
    BY <1>11
  <2>2. [db[r] EXCEPT !.approval = "REJECTED", !.event = "REJECTED"]
          \in RunRecords
    BY <1>b DEF RunRecords, Decisions
  <2>3. db' \in [Runs -> RunRecords]
    BY <2>1, <2>2 DEF RejectRun, TypeOK
  <2> QED BY <2>1, <2>3 DEF RejectRun, TypeOK
<1>12. CASE \E r \in Runs : DownloadLoad(c, r)
  <2>1. PICK r \in Runs : DownloadLoad(c, r)
    BY <1>12
  <2>2. [kind |-> "download", run |-> r, gen |-> db[r].gen, seal |-> db[r].seal]
          \in Requests
    BY <1>b DEF Requests, RunRecords
  <2> QED BY <2>1, <2>2 DEF DownloadLoad, TypeOK
<1>13. CASE DownloadRead(c)
  <2>1. q.run \in Runs /\ q.gen \in Gens /\ bundle[q.run] \in Contents
    BY <1>13, <1>a DEF DownloadRead, TypeOK
  <2>2. exported' \subseteq Artifacts
    BY <1>13, <2>1 DEF DownloadRead, TypeOK, Artifacts
  <2> QED BY <1>13, <2>2, FinishType DEF DownloadRead, TypeOK
<1> QED
  BY <1>1, <1>2, <1>3, <1>4, <1>5, <1>6, <1>7, <1>8, <1>9, <1>10, <1>11,
     <1>12, <1>13 DEF RequestStep, NewRequest

\* The startup reconciliation keeps every row well formed.
LEMMA MarkInterruptedType ==
  ASSUME TypeOK, mark_interrupted_runs
  PROVE  db' \in [Runs -> RunRecords]
<1>1. \A r \in Runs : [db[r] EXCEPT !.stage = "FAILED"] \in RunRecords
  BY StageFacts DEF TypeOK, RunRecords
<1> QED BY <1>1 DEF TypeOK, mark_interrupted_runs

\* A changed tree is one of the attempt whose seal is yet to come, or was
\* edited before the first build, or is new; it is never the tree as generated.
LEMMA ChangedTreesFacts ==
  ASSUME NEW r \in Runs, NEW x \in {Absent} \cup ChangedTrees(r)
  PROVE  /\ x \in Contents /\ x \notin {Generated, NONE}
         /\ x = Edited => pc[<<r, 0>>] \in {"sealing", "recording",
                                 "validating", "oracle", "building"}
         /\ \A g \in Unsealed(r) : Unsealed(r) = {g} =>
              x \in TreesOf(g) \cup {Absent}
<1>1. \A g \in Gens : /\ Altered(g) \in Contents /\ Altered(g) \in TreesOf(g)
                       /\ Altered(g) \notin {Generated, NONE, Edited}
  BY TreeFacts DEF TreesOf
<1>2. /\ {Absent, Edited, Changed} \subseteq Contents
      /\ Absent \notin {Generated, NONE, Edited}
      /\ Changed \notin {Generated, NONE, Edited}
      /\ Edited \notin {Generated, NONE}
  BY ContentFacts DEF Absent, Edited, Changed, Generated, NONE
<1>3. Unsealed(r) \subseteq Gens
  BY DEF Unsealed
<1> QED BY <1>1, <1>2, <1>3 DEF ChangedTrees, Unbuilt

\* Disk changes, restarts and other processes preserve the types.
LEMMA EnvironmentTypeOK ==
  ASSUME TypeOK,
         (\E r \in Runs : DiskChange(r)) \/ Restart \/ OtherProcessStarts
  PROVE  TypeOK'
<1>1. CASE \E r \in Runs : DiskChange(r)
  BY <1>1, ChangedTreesFacts DEF DiskChange, TypeOK
<1>2. CASE Restart
  <2>1. NoMem \in Copies
    BY BoundsAssumption, StageFacts DEF NoMem, Copies, Gens, Verdicts, NONE
  <2>2. Idle \in Requests
    BY DEF Idle, Requests
  <2>3. db' \in [Runs -> RunRecords]
    BY <1>2, MarkInterruptedType DEF Restart, TypeOK
  <2>4. pc' \in [Attempts -> Writing \cup {"idle", "releasing", "ended"}]
    BY <1>2 DEF Restart, TypeOK
  <2> QED BY <1>2, <2>1, <2>2, <2>3, <2>4 DEF Restart, TypeOK
<1>3. CASE OtherProcessStarts
  BY <1>3, MarkInterruptedType DEF OtherProcessStarts, TypeOK
<1> QED BY <1>1, <1>2, <1>3

\* Type correctness of the control plane, whatever fails and however many
\* processes share the store.
THEOREM TypeCorrect == Spec => []TypeOK
<1>1. TypeOK /\ [Next]_vars => TypeOK'
  <2> SUFFICES ASSUME TypeOK, [Next]_vars PROVE TypeOK'
    OBVIOUS
  <2>1. CASE UNCHANGED vars
    BY <2>1 DEF vars, TypeOK
  <2> QED
    BY <2>1, WorkerTypeOK, RequestTypeOK, EnvironmentTypeOK DEF Next
<1> QED BY InitTypeOK, <1>1, PTL DEF Spec

-----------------------------------------------------------------------------
(* The inductive invariant behind ApprovedIsCertified,                     *)
(* SignedIsOfItsAttempt and ExportedWasSigned in a single process.         *)

Launching(c, r) == req[c].kind = "launch" /\ req[c].run = r

\* One thread at a time works on a run, for the run's current generation, and
\* only while the run is in progress.
SingleFlight ==
  /\ \A a \in Attempts : pc[a] \in Writing =>
       a[2] = db[a[1]].gen /\ Exists(a[1]) /\ ~Terminal(a[1])
  /\ \A c \in Clients, r \in Runs : Launching(c, r) =>
       /\ req[c].gen = db[r].gen /\ Exists(r) /\ ~Terminal(r)
       /\ \A g \in Gens : pc[<<r, g>>] \notin Writing
       /\ \A d \in Clients : Launching(d, r) => d = c

\* The trees an interim seal may hold.
InterimTrees == {Generated, Edited}

\* An attempt in progress has not published anything yet.
Unpublished(r) ==
  /\ db[r].verdict = "none"
  /\ db[r].approval # "APPROVED"
  /\ db[r].seal \in {NONE} \cup InterimTrees

FreshAttempts ==
  /\ \A a \in Attempts : pc[a] \in Writing \ {"saving", "finishing"} =>
       Unpublished(a[1])
  /\ \A c \in Clients, r \in Runs : Launching(c, r) => Unpublished(r)
  /\ \A r \in Runs : ~Exists(r) => Unpublished(r) /\ db[r].gen = 0

\* What a worker's copy says of its own attempt, the tree and the table.
Knows(a) ==
  LET r == a[1]
      m == mem[a]
  IN
  /\ pc[a] \in Writing \ {"launched"} => m.gen = a[2]
  /\ pc[a] \in Writing \ {"launched", "storing", "saving", "finishing"} =>
       m.verdict = "none"
  /\ pc[a] \in Writing \ {"launched"} /\ m.verdict = "VERIFIED" => m.built
  /\ pc[a] \in Writing \ {"launched"} /\ m.built => bundle[r] \notin InterimTrees
  /\ pc[a] \in {"comparing", "deriving", "proving"} /\ m.built =>
       bundle[r] \in TreesOf(a[2]) \cup {Absent}
  /\ pc[a] \in {"generating", "sealing"} => a[2] = 0
  /\ pc[a] \in {"generating", "sealing", "recording", "validating", "oracle",
                "building"} => ~m.built
  /\ pc[a] = "sealing" => bundle[r] \in InterimTrees \cup {Absent}
  /\ pc[a] \in {"proving", "storing", "saving"} =>
       m.stage = "VALIDATING_EVIDENCE"
  /\ pc[a] \in {"storing", "saving"} /\ m.verdict = "VERIFIED" =>
       m.seal \in TreesOf(a[2])
  /\ pc[a] = "saving" =>
       /\ db[r].verdict = "none" /\ db[r].approval # "APPROVED"
       /\ db[r].seal = m.seal
  /\ pc[a] = "finishing" /\ m.verdict = "VERIFIED" =>
       db[r].seal \in {NONE} \cup InterimTrees \cup TreesOf(a[2])
  /\ pc[a] = "finishing" /\ db[r].verdict # "none" =>
       m.verdict = db[r].verdict
  /\ pc[a] = "finishing" /\ db[r].verdict = "none" =>
       db[r].approval # "APPROVED"

WorkerKnowledge == \A a \in Attempts : Knows(a)

\* A VERIFIED run is sealed with a tree of its attempt or not usefully sealed.
VerifiedSeal(r, g, s) ==
  /\ s \in {NONE} \cup InterimTrees \cup TreesOf(g)
  /\ bundle[r] \notin InterimTrees

Published(r) ==
  /\ db[r].verdict = "VERIFIED" => VerifiedSeal(r, db[r].gen, db[r].seal)
  /\ db[r].approval = "APPROVED" =>
       /\ db[r].verdict = "VERIFIED"
       /\ [run |-> r, gen |-> db[r].gen, content |-> db[r].seal] \in signed

PublishedRuns == \A r \in Runs : Published(r)

\* What a request that passed its gates still knows when it acts.
Relies(c) ==
  /\ req[c].kind \in {"approve", "decide"} =>
       LET r == req[c].run
           g == req[c].gen
       IN
       /\ g <= db[r].gen
       /\ VerifiedSeal(r, g, req[c].seal)
       /\ g = db[r].gen =>
            db[r].verdict = "VERIFIED" /\ db[r].seal = req[c].seal
  /\ req[c].kind = "decide" => req[c].seal \in TreesOf(req[c].gen)
  /\ req[c].kind = "download" =>
       [run |-> req[c].run, gen |-> req[c].gen, content |-> req[c].seal]
         \in signed

RequestKnowledge == \A c \in Clients : Relies(c)

\* The conjunction that every step preserves: single flight, nothing
\* published by an attempt in progress, what workers and requests rely on.
CertificationInvariant ==
  /\ SingleFlight
  /\ FreshAttempts
  /\ WorkerKnowledge
  /\ PublishedRuns
  /\ RequestKnowledge
  /\ SignedIsOfItsAttempt
  /\ ExportedWasSigned

-----------------------------------------------------------------------------
(* Certification in a single process.                                      *)

\* At most one thread works on a run, and none while a launch is pending.
LEMMA OneThread ==
  ASSUME TypeOK, SingleFlight, NEW a \in Attempts, pc[a] \in Writing
  PROVE  /\ \A b \in Attempts : pc[b] \in Writing /\ b[1] = a[1] => b = a
         /\ \A c \in Clients : ~Launching(c, a[1])
<1>1. /\ a[1] \in Runs /\ a[2] \in Gens /\ a = <<a[1], a[2]>>
  BY DEF Attempts
<1>2. \A b \in Attempts : b = <<b[1], b[2]>>
  BY DEF Attempts
<1> QED BY <1>1, <1>2 DEF SingleFlight

\* What a step of worker a must establish about its own run.
WorkerPost(a) ==
  LET r == a[1] IN
  /\ \A x \in Runs \ {r} : db'[x] = db[x] /\ bundle'[x] = bundle[x]
  /\ \A b \in Attempts \ {a} : pc'[b] = pc[b] /\ mem'[b] = mem[b]
  /\ UNCHANGED <<req, signed, exported>>
  /\ db'[r].gen = db[r].gen /\ db'[r].approval = db[r].approval
  /\ db'[r].stage # "none"
  /\ pc'[a] \in Writing => db'[r].stage \notin TERMINAL_STAGES
  /\ pc'[a] \in Writing \ {"saving", "finishing"} => Unpublished(r)'
  /\ Knows(a)'
  /\ db'[r].verdict = "VERIFIED" =>
       VerifiedSeal(r, a[2], db[r].seal)'
  /\ db[r].verdict # "none" =>
       db'[r].verdict = db[r].verdict /\ db'[r].seal = db[r].seal
  /\ bundle'[r] \in InterimTrees =>
       bundle[r] \in InterimTrees \/ (db[r].gen = 0 /\ db[r].verdict = "none")

\* A step that satisfies WorkerPost preserves the invariant: the rest of the
\* state is out of its reach.
LEMMA WorkerFrame ==
  ASSUME TypeOK, TypeOK', CertificationInvariant, NEW a \in Attempts,
         pc[a] \in Writing, WorkerPost(a)
  PROVE  CertificationInvariant'
<1> DEFINE r == a[1]
<1>a. /\ r \in Runs /\ a[2] \in Gens /\ a = <<r, a[2]>>
  BY DEF Attempts
<1>b. /\ a[2] = db[r].gen /\ Exists(r) /\ ~Terminal(r)
  BY DEF CertificationInvariant, SingleFlight
<1>c. /\ \A b \in Attempts \ {a} : b[1] = r => pc[b] \notin Writing
      /\ \A c \in Clients : ~Launching(c, r)
  BY OneThread DEF CertificationInvariant
<1>d. \A b \in Attempts : b[1] \in Runs
  BY DEF Attempts
<1>1. SingleFlight'
  <2>1. ASSUME NEW b \in Attempts, pc'[b] \in Writing
        PROVE  /\ b[2] = db'[b[1]].gen /\ db'[b[1]].stage # "none"
               /\ db'[b[1]].stage \notin TERMINAL_STAGES
    BY <2>1, <1>a, <1>b, <1>c, <1>d
    DEF WorkerPost, CertificationInvariant, SingleFlight, Exists, Terminal
  <2>2. ASSUME NEW c \in Clients, NEW x \in Runs, Launching(c, x)'
        PROVE  /\ req'[c].gen = db'[x].gen /\ db'[x].stage # "none"
               /\ db'[x].stage \notin TERMINAL_STAGES
               /\ \A g \in Gens : pc'[<<x, g>>] \notin Writing
               /\ \A d \in Clients : Launching(d, x)' => d = c
    <3>1. Launching(c, x) /\ x # r
      BY <2>2, <1>c DEF WorkerPost, Launching
    <3>2. \A g \in Gens : <<x, g>> \in Attempts \ {a}
      BY <3>1, <1>a DEF Attempts
    <3> QED BY <3>1, <3>2
      DEF WorkerPost, CertificationInvariant, SingleFlight, Launching, Exists,
          Terminal
  <2> QED BY <2>1, <2>2 DEF SingleFlight, Exists, Terminal
<1>2. FreshAttempts'
  <2>1. ASSUME NEW b \in Attempts, pc'[b] \in Writing \ {"saving", "finishing"}
        PROVE  Unpublished(b[1])'
    BY <2>1, <1>c, <1>d
    DEF WorkerPost, CertificationInvariant, FreshAttempts, Unpublished
  <2>2. ASSUME NEW c \in Clients, NEW x \in Runs, Launching(c, x)'
        PROVE  Unpublished(x)'
    BY <2>2, <1>c
    DEF WorkerPost, CertificationInvariant, FreshAttempts, Unpublished,
        Launching
  <2>3. ASSUME NEW x \in Runs, db'[x].stage = "none"
        PROVE  Unpublished(x)' /\ db'[x].gen = 0
    BY <2>3
    DEF WorkerPost, CertificationInvariant, FreshAttempts, Unpublished, Exists
  <2> QED BY <2>1, <2>2, <2>3 DEF FreshAttempts, Exists
<1>3. WorkerKnowledge'
  <2>1. ASSUME NEW b \in Attempts \ {a}, b[1] # r
        PROVE  Knows(b)'
    <3>1. Knows(b)
      BY DEF CertificationInvariant, WorkerKnowledge
    <3> QED BY <3>1, <2>1, <1>d DEF WorkerPost, Knows
  <2>2. ASSUME NEW b \in Attempts \ {a}, b[1] = r
        PROVE  Knows(b)'
    <3>1. pc'[b] \notin Writing
      BY <2>2, <1>c DEF WorkerPost
    <3> QED BY <3>1 DEF Knows, Writing
  <2> QED BY <2>1, <2>2 DEF WorkerKnowledge, WorkerPost
<1>4. PublishedRuns'
  <2>1. ASSUME NEW x \in Runs, x # r
        PROVE  Published(x)'
    BY <2>1 DEF WorkerPost, CertificationInvariant, PublishedRuns, Published,
                VerifiedSeal
  <2>2. Published(r)'
    BY <1>a, <1>b DEF WorkerPost, CertificationInvariant, PublishedRuns,
       Published, VerifiedSeal
  <2> QED BY <2>1, <2>2 DEF PublishedRuns
<1>5. RequestKnowledge'
  <2> SUFFICES ASSUME NEW c \in Clients PROVE Relies(c)'
    BY DEF RequestKnowledge
  <2>1. Relies(c) /\ req'[c] = req[c] /\ signed' = signed
    BY DEF CertificationInvariant, RequestKnowledge, WorkerPost
  <2>2. CASE req[c].kind \in {"approve", "decide"}
    <3>1. req[c].run \in Runs /\ req[c].gen \in Gens /\ db[req[c].run].gen \in Gens
      BY <2>2 DEF TypeOK, Requests, RunRecords
    <3>2. req[c].gen <= 0 => req[c].gen = 0
      BY <3>1 DEF Gens
    <3> QED BY <2>1, <2>2, <3>1, <3>2 DEF WorkerPost, Relies, VerifiedSeal
  <2>3. CASE req[c].kind \notin {"approve", "decide"}
    BY <2>1, <2>3 DEF Relies
  <2> QED BY <2>2, <2>3
<1> QED
  BY <1>1, <1>2, <1>3, <1>4, <1>5
  DEF CertificationInvariant, WorkerPost, SignedIsOfItsAttempt,
      ExportedWasSigned

\* What Store.update_run does to the rows: the columns of the copy change, the
\* generation, the decision and the seal do not.
LEMMA UpdateRunPost ==
  ASSUME TypeOK, NEW r \in Runs, NEW m \in Copies, update_run(r, m)
  PROVE  /\ db'[r].gen = db[r].gen /\ db'[r].approval = db[r].approval
         /\ db'[r].stage = m.stage /\ db'[r].verdict = m.verdict
         /\ db'[r].evidence = m.evidence
         /\ db'[r].seal = db[r].seal
         /\ \A x \in Runs \ {r} : db'[x] = db[x]
<1>1. db[r] \in RunRecords
  BY DEF TypeOK
<1> QED BY <1>1 DEF update_run, TypeOK, RunRecords

\* A progress write of an unpublished attempt publishes nothing.
LEMMA ProgressPost ==
  ASSUME TypeOK, NEW a \in Attempts, NEW m \in Copies, Progress(a, m),
         Exists(a[1]), ~Terminal(a[1]), db[a[1]].verdict = "none",
         m.verdict = "none", m.stage \notin TERMINAL_STAGES
  PROVE  /\ \A x \in Runs \ {a[1]} : db'[x] = db[x]
         /\ \A b \in Attempts \ {a} : mem'[b] = mem[b]
         /\ mem'[a] = m
         /\ db'[a[1]].gen = db[a[1]].gen /\ db'[a[1]].seal = db[a[1]].seal
         /\ db'[a[1]].approval = db[a[1]].approval
         /\ db'[a[1]].verdict = "none"
         /\ db'[a[1]].stage \notin TERMINAL_STAGES \cup {"none"}
<1>1. a[1] \in Runs /\ db[a[1]] \in RunRecords
  BY DEF Attempts, TypeOK
<1>2. mem' = [mem EXCEPT ![a] = m]
  BY DEF Progress
<1>3. CASE update_run(a[1], m)
  <2>1. db' = [db EXCEPT ![a[1]] = [db[a[1]] EXCEPT
          !.stage = m.stage,
          !.anchor = last_stage_anchor(m.stage, db[a[1]].anchor),
          !.verdict = m.verdict,
          !.evidence = m.evidence,
          !.proof = m.proof,
          !.report = m.report]]
    BY <1>3 DEF update_run
  <2>2. m.stage # "none"
    BY StageFacts DEF Copies
  <2> QED BY <1>1, <1>2, <2>1, <2>2 DEF TypeOK, RunRecords
<1>4. CASE UNCHANGED db
  BY <1>1, <1>2, <1>4 DEF TypeOK, Exists, Terminal
<1> QED BY <1>3, <1>4 DEF Progress

\* A phase of a pipeline: a progress write and a move to the next step.
LEMMA PhasePost ==
  ASSUME TypeOK, CertificationInvariant, NEW a \in Attempts,
         NEW s \in Stages \ TERMINAL_STAGES, NEW l,
         Progress(a, [mem[a] EXCEPT !.stage = s]), pc' = [pc EXCEPT ![a] = l],
         pc[a] \in {"generating", "validating", "oracle", "comparing",
                   "deriving"},
         l \in {"generating", "oracle", "building", "deriving", "proving"},
         l = "generating" => pc[a] = "generating",
         l = "proving" => s = "VALIDATING_EVIDENCE",
         l \in {"deriving", "proving"} <=> pc[a] \in {"comparing", "deriving"},
         UNCHANGED <<bundle, req, signed, exported>>
  PROVE  WorkerPost(a)
<1> DEFINE r == a[1]
           m == mem[a]
           n == [m EXCEPT !.stage = s]
<1>a. r \in Runs /\ m \in Copies /\ pc[a] \in Writing
  BY DEF TypeOK, Attempts, Writing
<1>b. a[2] = db[r].gen /\ Exists(r) /\ ~Terminal(r)
  BY <1>a DEF CertificationInvariant, SingleFlight
<1>c. Knows(a)
  BY DEF CertificationInvariant, WorkerKnowledge
<1>d. Unpublished(r)
  BY <1>a DEF CertificationInvariant, FreshAttempts
<1>e. m.verdict = "none" /\ m.gen = a[2]
  BY <1>c DEF Knows, Writing
<1>f. n \in Copies /\ n.verdict = "none" /\ n.stage = s /\ n.gen = a[2]
      /\ n.built = m.built
  BY <1>a, <1>e DEF Copies
<1>g. db[r].verdict = "none"
  BY <1>d DEF Unpublished
<1> HIDE DEF n
<1>h. /\ \A x \in Runs \ {r} : db'[x] = db[x]
      /\ \A b \in Attempts \ {a} : mem'[b] = mem[b]
      /\ mem'[a] = n
      /\ db'[r].gen = db[r].gen /\ db'[r].seal = db[r].seal
      /\ db'[r].approval = db[r].approval
      /\ db'[r].verdict = "none"
      /\ db'[r].stage \notin TERMINAL_STAGES \cup {"none"}
  BY <1>b, <1>f, <1>g, ProgressPost DEF n
<1>i. pc'[a] = l /\ \A b \in Attempts \ {a} : pc'[b] = pc[b]
  BY DEF TypeOK
<1> QED
  BY <1>b, <1>c, <1>d, <1>f, <1>g, <1>h, <1>i
  DEF WorkerPost, Knows, Unpublished, Writing

\* A failing attempt keeps what it knows; nothing is written.
LEMMA RaisePost ==
  ASSUME TypeOK, CertificationInvariant, NEW a \in Attempts,
         pc[a] \in Writing \ {"launched", "finishing", "abandoned"},
         Raise(a), UNCHANGED <<db, bundle, req, signed, exported>>
  PROVE  WorkerPost(a)
<1> DEFINE r == a[1]
           m == mem[a]
<1>a. r \in Runs /\ m \in Copies
  BY DEF TypeOK, Attempts
<1>b. a[2] = db[r].gen /\ Exists(r) /\ ~Terminal(r)
  BY <1>a DEF CertificationInvariant, SingleFlight
<1>c. Knows(a)
  BY DEF CertificationInvariant, WorkerKnowledge
<1>d. pc[a] # "saving" => Unpublished(r)
  BY <1>a DEF CertificationInvariant, FreshAttempts
<1>e. /\ pc'[a] = "finishing" /\ \A b \in Attempts \ {a} : pc'[b] = pc[b]
      /\ mem'[a] = [m EXCEPT !.stage = "FAILED"]
      /\ \A b \in Attempts \ {a} : mem'[b] = mem[b]
  BY DEF TypeOK, Raise, Goto
<1>f. /\ mem'[a].gen = m.gen /\ mem'[a].verdict = m.verdict
      /\ mem'[a].built = m.built
  BY <1>a, <1>e DEF Copies
<1>g. db[r].verdict = "none" /\ db[r].approval # "APPROVED"
  BY <1>c, <1>d DEF Knows, Unpublished
<1>h. m.verdict = "VERIFIED" =>
        db[r].seal \in {NONE} \cup InterimTrees \cup TreesOf(a[2])
  BY <1>c, <1>d DEF Knows, Unpublished, Writing
<1>i. Knows(a)'
  BY <1>c, <1>e, <1>f, <1>g, <1>h DEF Knows, Writing
<1> QED
  BY <1>b, <1>e, <1>g, <1>i DEF WorkerPost, Unpublished, Writing, Exists, Terminal

\* Every step of a working thread establishes WorkerPost.
LEMMA WorkerStepPost ==
  ASSUME TypeOK, TypeOK', CertificationInvariant, NEW a \in Attempts,
         WorkerStep(a), pc[a] # "releasing"
  PROVE  pc[a] \in Writing /\ WorkerPost(a)
<1> DEFINE r == a[1]
           m == mem[a]
<1> USE StageFacts
<1>a. /\ r \in Runs /\ a[2] \in Gens /\ a = <<r, a[2]>>
  BY DEF Attempts
<1>b. /\ db[r] \in RunRecords /\ m \in Copies /\ bundle[r] \in Contents
  BY <1>a DEF TypeOK
<1>c. /\ a[2] \in TreesOf(a[2]) /\ Generated \in InterimTrees
      /\ \A x \in TreesOf(a[2]) :
           x # NONE /\ x # Absent /\ x \notin InterimTrees
      /\ NONE \notin InterimTrees /\ Absent \notin InterimTrees
  BY <1>a, TreeFacts DEF TreesOf, InterimTrees, NONE, Absent, Generated, Edited
<1>d. pc[a] \in Writing
  BY DEF WorkerStep, Load, GenerationPhase, GenerationDone, InterimSeal,
     RecordBundle, ExecuteOracle, StartBuild, Build, Compare, DeriveVerdict,
     ProveAndSeal, StoreSeal, SaveVerdict, PipelineRaises, PersistFinal,
     Release, Writing
<1>e. /\ a[2] = db[r].gen /\ Exists(r) /\ ~Terminal(r)
  BY <1>d DEF CertificationInvariant, SingleFlight
<1>f. Knows(a)
  BY DEF CertificationInvariant, WorkerKnowledge
<1>g. pc[a] \notin {"saving", "finishing"} => Unpublished(r)
  BY <1>d DEF CertificationInvariant, FreshAttempts
<1>h. Published(r)
  BY <1>a DEF CertificationInvariant, PublishedRuns
<1>j. /\ {"EXECUTING_ORACLE", "BUILDING", "EXECUTING_GENERATED", "COMPARING",
          "VALIDATING_EVIDENCE"} \subseteq Stages \ TERMINAL_STAGES
      /\ Phases \subseteq Stages \ TERMINAL_STAGES
  BY BoundsAssumption DEF TERMINAL_STAGES, GENERATION_PHASES
<1>1. CASE Load(a)
  <2>1. pc[a] = "launched" /\ db[r].verdict = "none"
    BY <1>1, <1>g DEF Load, Unpublished
  <2>2. UNCHANGED <<db, bundle, req, signed, exported>>
    BY <1>1 DEF Load
  <2>3. \A b \in Attempts \ {a} : pc'[b] = pc[b] /\ mem'[b] = mem[b]
    BY <1>1 DEF Load, Goto, TypeOK
  <2>4. \/ pc'[a] = "releasing"
        \/ /\ pc'[a] \in {"generating", "validating", "finishing"}
           /\ mem'[a].gen = db[r].gen /\ mem'[a].verdict = "none"
           /\ mem'[a].built = FALSE
           /\ pc'[a] = "generating" => a[2] = 0
    <3> DEFINE copy == [NoMem EXCEPT !.gen = db[r].gen,
                 !.verdict = db[r].verdict, !.evidence = db[r].evidence,
                 !.proof = db[r].proof, !.report = db[r].report,
                 !.seal = db[r].seal]
               late == [copy EXCEPT !.stage = "FAILED"]
    <3>1. /\ copy.gen = db[r].gen /\ copy.verdict = "none" /\ copy.built = FALSE
          /\ late.gen = db[r].gen /\ late.verdict = "none" /\ late.built = FALSE
      BY <2>1 DEF NoMem
    <3>2. \/ /\ mem' = [mem EXCEPT ![a] = copy]
             /\ Goto(a, IF a[2] = 0 THEN "generating" ELSE "validating")
          \/ mem' = [mem EXCEPT ![a] = late] /\ Goto(a, "finishing")
          \/ Goto(a, "releasing")
      BY <1>1 DEF Load
    <3> HIDE DEF copy, late
    <3> QED BY <3>1, <3>2 DEF Goto, TypeOK
  <2>5. Unpublished(r)
    BY <2>1, <1>g
  <2> QED BY <1>d, <1>e, <1>h, <2>1, <2>2, <2>3, <2>4, <2>5
          DEF WorkerPost, Knows, Unpublished, Writing, Exists, Terminal
<1>2. CASE GenerationPhase(a)
  <2>1. PICK s \in Phases : Progress(a, [m EXCEPT !.stage = s])
    BY <1>2 DEF GenerationPhase, Ahead
  <2>2. pc' = [pc EXCEPT ![a] = "generating"]
    BY <1>2 DEF GenerationPhase, TypeOK
  <2> QED BY <1>2, <1>d, <1>j, <2>1, <2>2, PhasePost DEF GenerationPhase
<1>3. CASE GenerationDone(a)
  <2>1. pc[a] = "generating" /\ a[2] = 0 /\ ~m.built
    BY <1>3, <1>f DEF GenerationDone, Knows
  <2>2. bundle' = [bundle EXCEPT ![r] = Generated]
        /\ UNCHANGED <<db, req, signed, exported>>
    BY <1>3 DEF GenerationDone
  <2>3. bundle'[r] = Generated /\ \A x \in Runs \ {r} : bundle'[x] = bundle[x]
    BY <1>a, <2>2 DEF TypeOK
  <2>4. Unpublished(r) /\ m.gen = a[2] /\ m.verdict = "none"
    BY <1>g, <1>f, <2>1 DEF Knows, Writing
  <2>5. /\ pc'[a] \in {"sealing", "finishing"}
        /\ \A b \in Attempts \ {a} : pc'[b] = pc[b] /\ mem'[b] = mem[b]
        /\ mem'[a].gen = m.gen /\ mem'[a].verdict = m.verdict
        /\ mem'[a].built = m.built
    <3> DEFINE n == [m EXCEPT !.report = TRUE]
               o == [m EXCEPT !.report = TRUE, !.stage = "FAILED"]
    <3>1. /\ n.gen = m.gen /\ n.verdict = m.verdict /\ n.built = m.built
          /\ o.gen = m.gen /\ o.verdict = m.verdict /\ o.built = m.built
      BY <1>b DEF Copies
    <3>2. \/ Goto(a, "sealing") /\ mem' = [mem EXCEPT ![a] = n]
          \/ Goto(a, "finishing") /\ mem' = [mem EXCEPT ![a] = o]
      BY <1>3 DEF GenerationDone
    <3> HIDE DEF n, o
    <3> QED BY <3>1, <3>2 DEF TypeOK, Goto
  <2>6. Knows(a)'
    BY <1>c, <2>1, <2>2, <2>3, <2>4, <2>5 DEF Knows, Writing, Unpublished
  <2> QED BY <1>d, <1>e, <2>1, <2>2, <2>3, <2>4, <2>5, <2>6
          DEF WorkerPost, Unpublished, Writing, Exists, Terminal
<1>4. CASE InterimSeal(a)
  <2>0. pc[a] = "sealing" /\ UNCHANGED <<bundle, req, signed, exported>>
    BY <1>4 DEF InterimSeal
  <2>1. CASE Raise(a) /\ UNCHANGED db
    BY <1>d, <2>0, <2>1, RaisePost DEF Writing
  <2>2. CASE /\ db' = [db EXCEPT ![r].seal = bundle[r]]
             /\ mem' = [mem EXCEPT ![a].seal = bundle[r]]
             /\ Goto(a, "recording") /\ bundle[r] # Absent
    <3>1. pc'[a] = "recording" /\ \A b \in Attempts \ {a} : pc'[b] = pc[b]
      BY <2>2 DEF Goto, TypeOK
    <3>2. /\ mem'[a] = [m EXCEPT !.seal = bundle[r]]
          /\ \A b \in Attempts \ {a} : mem'[b] = mem[b]
      BY <2>2 DEF TypeOK
    <3>3. /\ db'[r] = [db[r] EXCEPT !.seal = bundle[r]]
          /\ \A x \in Runs \ {r} : db'[x] = db[x]
      BY <1>a, <2>2 DEF TypeOK
    <3>4. /\ mem'[a].gen = m.gen /\ mem'[a].verdict = m.verdict
          /\ mem'[a].built = m.built
      BY <1>b, <3>2 DEF Copies
    <3>5. /\ db'[r].gen = db[r].gen /\ db'[r].approval = db[r].approval
          /\ db'[r].stage = db[r].stage /\ db'[r].verdict = db[r].verdict
          /\ db'[r].seal = bundle[r]
      BY <1>b, <3>3 DEF RunRecords
    <3>6. bundle[r] \in InterimTrees /\ m.verdict = "none" /\ m.gen = a[2]
          /\ ~m.built /\ Unpublished(r)
      BY <1>f, <1>g, <2>0, <2>2 DEF Knows, Writing
    <3> QED BY <1>d, <1>e, <2>0, <3>1, <3>2, <3>3, <3>4, <3>5, <3>6
            DEF WorkerPost, Knows, Unpublished, Writing, Exists, Terminal
  <2> QED BY <1>4, <2>1, <2>2 DEF InterimSeal
<1>5. CASE RecordBundle(a)
  <2>0. pc[a] = "recording" /\ UNCHANGED <<bundle, req, signed, exported>>
    BY <1>5 DEF RecordBundle
  <2>1. CASE Raise(a) /\ UNCHANGED db
    BY <1>d, <2>0, <2>1, RaisePost DEF Writing
  <2>2. CASE /\ db' = [db EXCEPT ![r].recorded = TRUE]
             /\ Goto(a, "validating") /\ UNCHANGED mem
    <3>1. pc'[a] = "validating" /\ \A b \in Attempts \ {a} : pc'[b] = pc[b]
      BY <2>2 DEF Goto, TypeOK
    <3>2. /\ db'[r] = [db[r] EXCEPT !.recorded = TRUE]
          /\ \A x \in Runs \ {r} : db'[x] = db[x]
      BY <1>a, <2>2 DEF TypeOK
    <3>3. /\ db'[r].gen = db[r].gen /\ db'[r].approval = db[r].approval
          /\ db'[r].stage = db[r].stage /\ db'[r].verdict = db[r].verdict
          /\ db'[r].seal = db[r].seal
      BY <1>b, <3>2 DEF RunRecords
    <3> QED BY <1>d, <1>e, <1>f, <1>g, <2>0, <2>2, <3>1, <3>2, <3>3
            DEF WorkerPost, Knows, Unpublished, Writing, Exists, Terminal
  <2> QED BY <1>5, <2>1, <2>2 DEF RecordBundle
<1>6. CASE ExecuteOracle(a)
  BY <1>6, <1>d, <1>j, PhasePost DEF ExecuteOracle, Goto
<1>7. CASE StartBuild(a)
  BY <1>7, <1>d, <1>j, PhasePost DEF StartBuild, Goto
<1>8. CASE Build(a)
  <2>0. /\ pc[a] = "building" /\ UNCHANGED <<req, signed, exported>>
        /\ Goto(a, "comparing")
    BY <1>8 DEF Build
  <2>1. pc'[a] = "comparing" /\ \A b \in Attempts \ {a} : pc'[b] = pc[b]
    BY <2>0 DEF Goto, TypeOK
  <2>2. Unpublished(r) /\ m.verdict = "none" /\ m.gen = a[2] /\ ~m.built
    BY <1>f, <1>g, <2>0 DEF Knows, Writing
  <2>3. CASE UNCHANGED <<bundle, db, mem>>
    BY <1>d, <1>e, <1>f, <2>0, <2>1, <2>2, <2>3
    DEF WorkerPost, Knows, Unpublished, Writing, Exists, Terminal
  <2>4. CASE /\ bundle' = [bundle EXCEPT ![r] = a[2]]
             /\ Progress(a, [m EXCEPT !.stage = "EXECUTING_GENERATED",
                                      !.built = TRUE])
    <3> DEFINE n == [m EXCEPT !.stage = "EXECUTING_GENERATED", !.built = TRUE]
    <3>1. /\ n \in Copies /\ n.verdict = "none" /\ n.gen = a[2]
          /\ n.stage = "EXECUTING_GENERATED" /\ n.built = TRUE
      BY <1>b, <2>2 DEF Copies
    <3>2. bundle'[r] = a[2] /\ \A x \in Runs \ {r} : bundle'[x] = bundle[x]
      BY <1>a, <2>4 DEF TypeOK
    <3>3. db[r].verdict = "none" /\ n.stage \notin TERMINAL_STAGES
      BY <2>2, <1>j, <3>1 DEF Unpublished
    <3> HIDE DEF n
    <3>4. Progress(a, n)
      BY <2>4 DEF n
    <3>5. /\ \A x \in Runs \ {r} : db'[x] = db[x]
          /\ \A b \in Attempts \ {a} : mem'[b] = mem[b]
          /\ mem'[a] = n
          /\ db'[r].gen = db[r].gen /\ db'[r].seal = db[r].seal
          /\ db'[r].approval = db[r].approval
          /\ db'[r].verdict = "none"
          /\ db'[r].stage \notin TERMINAL_STAGES \cup {"none"}
      BY <1>e, <3>1, <3>3, <3>4, ProgressPost
    <3> QED BY <1>c, <1>d, <1>e, <2>0, <2>1, <2>2, <3>1, <3>2, <3>3, <3>5
            DEF WorkerPost, Knows, Unpublished, Writing
  <2> QED BY <1>8, <2>3, <2>4 DEF Build
<1>9. CASE Compare(a)
  BY <1>9, <1>d, <1>j, PhasePost DEF Compare, Goto
<1>10. CASE DeriveVerdict(a)
  BY <1>10, <1>d, <1>j, PhasePost DEF DeriveVerdict, Goto
<1>11. CASE ProveAndSeal(a)
  <2>0. pc[a] = "proving" /\ UNCHANGED <<db, bundle, req, signed, exported>>
    BY <1>11 DEF ProveAndSeal
  <2>1. PICK v \in {"VERIFIED", "OTHER"}, p \in {m.proof, stamped_proof(m)} :
          /\ v = "VERIFIED" => m.built
          /\ \/ /\ mem' = [mem EXCEPT ![a] = [m EXCEPT !.verdict = v,
                     !.evidence = m.gen, !.proof = p, !.seal = bundle[r]]]
                /\ Goto(a, "storing") /\ bundle[r] # Absent
             \/ /\ mem' = [mem EXCEPT ![a] = [m EXCEPT !.verdict = v,
                     !.evidence = m.gen, !.proof = p, !.stage = "FAILED"]]
                /\ Goto(a, "finishing")
    BY <1>11 DEF ProveAndSeal
  <2>2. /\ Unpublished(r) /\ m.gen = a[2]
        /\ (m.built => bundle[r] \in TreesOf(a[2]) \cup {Absent})
        /\ (m.built => bundle[r] \notin InterimTrees)
        /\ m.stage = "VALIDATING_EVIDENCE"
    BY <1>f, <1>g, <2>0 DEF Knows, Writing
  <2>3. CASE /\ mem' = [mem EXCEPT ![a] = [m EXCEPT !.verdict = v,
                    !.evidence = m.gen, !.proof = p, !.seal = bundle[r]]]
             /\ Goto(a, "storing") /\ bundle[r] # Absent
    <3>1. /\ mem'[a].gen = m.gen /\ mem'[a].built = m.built
          /\ mem'[a].verdict = v /\ mem'[a].seal = bundle[r]
          /\ mem'[a].stage = m.stage
      BY <1>b, <2>3 DEF TypeOK, Copies
    <3>2. /\ pc'[a] = "storing"
          /\ \A b \in Attempts \ {a} : pc'[b] = pc[b] /\ mem'[b] = mem[b]
      BY <2>3 DEF TypeOK, Goto
    <3>3. v = "VERIFIED" => bundle[r] \in TreesOf(a[2])
      BY <2>1, <2>2, <2>3
    <3> QED BY <1>d, <1>e, <2>0, <2>1, <2>2, <3>1, <3>2, <3>3
            DEF WorkerPost, Knows, Unpublished, Writing, Exists, Terminal
  <2>4. CASE /\ mem' = [mem EXCEPT ![a] = [m EXCEPT !.verdict = v,
                    !.evidence = m.gen, !.proof = p, !.stage = "FAILED"]]
             /\ Goto(a, "finishing")
    <3>1. /\ mem'[a].gen = m.gen /\ mem'[a].built = m.built
          /\ mem'[a].verdict = v
      BY <1>b, <2>4 DEF TypeOK, Copies
    <3>2. /\ pc'[a] = "finishing"
          /\ \A b \in Attempts \ {a} : pc'[b] = pc[b] /\ mem'[b] = mem[b]
      BY <2>4 DEF TypeOK, Goto
    <3> QED BY <1>d, <1>e, <2>0, <2>1, <2>2, <3>1, <3>2
            DEF WorkerPost, Knows, Unpublished, Writing, Exists, Terminal
  <2> QED BY <2>1, <2>3, <2>4
<1>12. CASE StoreSeal(a)
  <2>0. pc[a] = "storing" /\ UNCHANGED <<bundle, req, signed, exported>>
    BY <1>12 DEF StoreSeal
  <2>1. CASE Raise(a) /\ UNCHANGED db
    BY <1>d, <2>0, <2>1, RaisePost DEF Writing
  <2>2. CASE /\ db' = [db EXCEPT ![r].seal = m.seal]
             /\ Goto(a, "saving") /\ UNCHANGED mem
    <3>1. pc'[a] = "saving" /\ \A b \in Attempts \ {a} : pc'[b] = pc[b]
      BY <2>2 DEF Goto, TypeOK
    <3>2. /\ db'[r] = [db[r] EXCEPT !.seal = m.seal]
          /\ \A x \in Runs \ {r} : db'[x] = db[x]
      BY <1>a, <2>2 DEF TypeOK
    <3>3. /\ db'[r].gen = db[r].gen /\ db'[r].approval = db[r].approval
          /\ db'[r].stage = db[r].stage /\ db'[r].verdict = db[r].verdict
          /\ db'[r].seal = m.seal
      BY <1>b, <3>2 DEF RunRecords
    <3>4. Unpublished(r) /\ m.gen = a[2]
      BY <1>f, <1>g, <2>0 DEF Knows, Writing
    <3> QED BY <1>d, <1>e, <1>f, <2>0, <2>2, <3>1, <3>2, <3>3, <3>4
            DEF WorkerPost, Knows, Unpublished, Writing, Exists, Terminal
  <2> QED BY <1>12, <2>1, <2>2 DEF StoreSeal
<1>13. CASE SaveVerdict(a)
  <2>0. pc[a] = "saving" /\ UNCHANGED <<bundle, req, signed, exported>>
    BY <1>13 DEF SaveVerdict
  <2>1. CASE Raise(a) /\ UNCHANGED db
    BY <1>d, <2>0, <2>1, RaisePost DEF Writing
  <2>2. CASE /\ update_run(r, m)
             /\ mem' = [mem EXCEPT ![a].stage = "COMPLETED"]
             /\ Goto(a, "finishing")
    <3>1. pc'[a] = "finishing" /\ \A b \in Attempts \ {a} : pc'[b] = pc[b]
      BY <2>2 DEF Goto, TypeOK
    <3>2. /\ mem'[a].gen = m.gen /\ mem'[a].verdict = m.verdict
          /\ mem'[a].built = m.built
          /\ \A b \in Attempts \ {a} : mem'[b] = mem[b]
      BY <1>b, <2>2 DEF TypeOK, Copies
    <3>3. /\ db'[r].gen = db[r].gen /\ db'[r].approval = db[r].approval
          /\ db'[r].stage = m.stage /\ db'[r].verdict = m.verdict
          /\ db'[r].seal = db[r].seal
          /\ \A x \in Runs \ {r} : db'[x] = db[x]
      BY <1>a, <1>b, <2>2, UpdateRunPost
    <3>4. /\ m.stage = "VALIDATING_EVIDENCE" /\ m.gen = a[2]
          /\ (m.verdict = "VERIFIED" => m.seal \in TreesOf(a[2]))
          /\ db[r].seal = m.seal
          /\ db[r].verdict = "none" /\ db[r].approval # "APPROVED"
          /\ (m.verdict = "VERIFIED" => m.built)
          /\ (m.built => bundle[r] \notin InterimTrees)
      BY <1>f, <2>0 DEF Knows, Writing
    <3>5. m.stage \notin TERMINAL_STAGES \cup {"none"}
      BY <1>j, <3>4
    <3> QED BY <1>c, <1>d, <1>e, <2>0, <3>1, <3>2, <3>3, <3>4, <3>5
            DEF WorkerPost, Knows, Unpublished, VerifiedSeal, Writing
  <2> QED BY <1>13, <2>1, <2>2 DEF SaveVerdict
<1>14. CASE PipelineRaises(a)
  BY <1>14, <1>d, RaisePost DEF PipelineRaises, Writing
<1>15. CASE PersistFinal(a)
  <2>0. /\ pc[a] \in {"finishing", "abandoned"}
        /\ UNCHANGED <<bundle, req, signed, exported>>
    BY <1>15 DEF PersistFinal
  <2>1. PICK l \in {"releasing", "ended", pc[a]} :
          \/ /\ update_run(r, m) /\ l # pc[a] /\ Goto(a, l)
             /\ mem' = [mem EXCEPT ![a] = NoMem]
          \/ /\ UNCHANGED db /\ l # pc[a] /\ Goto(a, l)
             /\ mem' = [mem EXCEPT ![a] = NoMem]
          \/ /\ UNCHANGED <<db, pc>>
             /\ mem' = [mem EXCEPT ![a] = [m EXCEPT !.tries = m.tries + 1]]
    BY <1>15 DEF PersistFinal
  <2>2. /\ m.gen = a[2] /\ (m.verdict = "VERIFIED" => m.built)
        /\ (m.built => bundle[r] \notin InterimTrees)
        /\ (db[r].verdict # "none" => m.verdict = db[r].verdict)
        /\ (m.verdict = "VERIFIED" =>
              db[r].seal \in {NONE} \cup InterimTrees \cup TreesOf(a[2]))
    BY <1>f, <1>g, <2>0 DEF Knows, Writing, Unpublished
  <2>3. CASE /\ update_run(r, m) /\ l # pc[a] /\ Goto(a, l)
             /\ mem' = [mem EXCEPT ![a] = NoMem]
    <3>1. /\ pc'[a] = l /\ l \notin Writing
          /\ \A b \in Attempts \ {a} : pc'[b] = pc[b] /\ mem'[b] = mem[b]
      BY <2>0, <2>1, <2>3 DEF Goto, TypeOK, Writing
    <3>2. /\ db'[r].gen = db[r].gen /\ db'[r].approval = db[r].approval
          /\ db'[r].stage = m.stage /\ db'[r].verdict = m.verdict
          /\ db'[r].seal = db[r].seal
          /\ \A x \in Runs \ {r} : db'[x] = db[x]
      BY <1>a, <1>b, <2>3, UpdateRunPost
    <3>3. m.stage # "none"
      BY <1>b DEF Copies
    <3> QED BY <1>c, <1>d, <1>e, <2>0, <2>2, <3>1, <3>2, <3>3
            DEF WorkerPost, Knows, Unpublished, VerifiedSeal, Writing
  <2>4. CASE /\ UNCHANGED db /\ l # pc[a] /\ Goto(a, l)
             /\ mem' = [mem EXCEPT ![a] = NoMem]
    <3>1. /\ pc'[a] = l /\ l \notin Writing
          /\ \A b \in Attempts \ {a} : pc'[b] = pc[b] /\ mem'[b] = mem[b]
      BY <2>0, <2>1, <2>4 DEF Goto, TypeOK, Writing
    <3>2. Knows(a)'
      BY <3>1 DEF Knows, Writing
    <3> QED BY <1>d, <1>e, <1>h, <2>0, <2>4, <3>1, <3>2
            DEF WorkerPost, Published, VerifiedSeal, Exists, Terminal
  <2>5. CASE /\ UNCHANGED <<db, pc>>
             /\ mem' = [mem EXCEPT ![a] = [m EXCEPT !.tries = m.tries + 1]]
    <3>1. /\ mem'[a].gen = m.gen /\ mem'[a].verdict = m.verdict
          /\ mem'[a].built = m.built
          /\ \A b \in Attempts \ {a} : mem'[b] = mem[b]
      BY <1>b, <2>5 DEF TypeOK, Copies
    <3>2. Knows(a)'
      BY <1>f, <2>0, <2>5, <3>1 DEF Knows, Writing
    <3>3. pc[a] = "abandoned" => Unpublished(r)'
      BY <1>g, <2>0, <2>5 DEF Unpublished
    <3> QED BY <1>d, <1>e, <1>h, <2>0, <2>5, <3>1, <3>2, <3>3
            DEF WorkerPost, Published, VerifiedSeal, Exists, Terminal
  <2> QED BY <2>1, <2>3, <2>4, <2>5
<1> QED
  BY <1>1, <1>2, <1>3, <1>4, <1>5, <1>6, <1>7, <1>8, <1>9, <1>10, <1>11,
     <1>12, <1>13, <1>14, <1>15 DEF WorkerStep, Release

\* Giving the slot back touches nothing the invariant speaks of.
LEMMA ReleaseStep ==
  ASSUME TypeOK, CertificationInvariant, NEW a \in Attempts, Release(a)
  PROVE  CertificationInvariant'
<1>1. /\ UNCHANGED <<db, bundle, mem, req, signed, exported>>
      /\ pc'[a] = "ended" /\ \A b \in Attempts \ {a} : pc'[b] = pc[b]
  BY DEF Release, Goto, TypeOK
<1>2. \A b \in Attempts : pc'[b] \in Writing => pc'[b] = pc[b]
  BY <1>1 DEF Writing
<1>3. \A x \in Runs, g \in Gens : <<x, g>> \in Attempts
  BY DEF Attempts
<1>4. SingleFlight'
  BY <1>1, <1>2, <1>3 DEF CertificationInvariant, SingleFlight, Launching,
     Exists, Terminal
<1>5. FreshAttempts'
  BY <1>1, <1>2 DEF CertificationInvariant, FreshAttempts, Unpublished,
     Launching, Exists
<1>6. WorkerKnowledge'
  <2> SUFFICES ASSUME NEW b \in Attempts PROVE Knows(b)'
    BY DEF WorkerKnowledge
  <2>1. CASE pc'[b] \in Writing
    BY <2>1, <1>1, <1>2 DEF CertificationInvariant, WorkerKnowledge, Knows
  <2>2. CASE pc'[b] \notin Writing
    BY <2>2 DEF Knows, Writing
  <2> QED BY <2>1, <2>2
<1> QED
  BY <1>1, <1>4, <1>5, <1>6
  DEF CertificationInvariant, PublishedRuns, Published, VerifiedSeal,
      RequestKnowledge, Relies, SignedIsOfItsAttempt, ExportedWasSigned

\* A request that leaves the table, the trees and the threads alone and does
\* not become a launch only has to justify what it relies on itself.
LEMMA RequestFrame ==
  ASSUME TypeOK, CertificationInvariant, NEW c \in Clients,
         UNCHANGED <<db, bundle, pc, mem, signed>>, ExportedWasSigned',
         \A d \in Clients \ {c} : req'[d] = req[d],
         req'[c].kind # "launch", Relies(c)'
  PROVE  CertificationInvariant'
<1>1. \A d \in Clients, x \in Runs : Launching(d, x)' => Launching(d, x) /\ d # c
  BY DEF Launching
<1>2. SingleFlight'
  BY <1>1 DEF CertificationInvariant, SingleFlight, Exists, Terminal
<1>3. FreshAttempts'
  BY <1>1 DEF CertificationInvariant, FreshAttempts, Unpublished, Exists
<1>4. WorkerKnowledge'
  BY DEF CertificationInvariant, WorkerKnowledge, Knows
<1>5. RequestKnowledge'
  <2> SUFFICES ASSUME NEW d \in Clients \ {c} PROVE Relies(d)'
    BY DEF RequestKnowledge
  <2> QED BY DEF CertificationInvariant, RequestKnowledge, Relies, VerifiedSeal
<1> QED
  BY <1>2, <1>3, <1>4, <1>5
  DEF CertificationInvariant, PublishedRuns, Published, VerifiedSeal,
      SignedIsOfItsAttempt

\* Answered requests and those that have not read a result rely on nothing.
LEMMA QuietRequest ==
  ASSUME TypeOK, CertificationInvariant, NEW c \in Clients, NEW q,
         UNCHANGED <<db, bundle, pc, mem, signed, exported>>,
         req' = [req EXCEPT ![c] = q],
         q.kind \in {"idle", "modernize", "revalidate", "reset"}
  PROVE  CertificationInvariant'
<1>1. req'[c] = q /\ \A d \in Clients \ {c} : req'[d] = req[d]
  BY DEF TypeOK
<1>2. Relies(c)'
  BY <1>1 DEF Relies
<1>3. ExportedWasSigned'
  BY DEF CertificationInvariant, ExportedWasSigned
<1> QED BY <1>1, <1>2, <1>3, RequestFrame

\* No thread works on a run and no launch is pending for it.
Quiescent(r) ==
  /\ \A b \in Attempts : b[1] = r => pc[b] \notin Writing
  /\ \A d \in Clients : ~Launching(d, r)

\* A run that does not exist or is terminal is quiescent.
LEMMA QuietRun ==
  ASSUME TypeOK, CertificationInvariant, NEW r \in Runs,
         ~Exists(r) \/ Terminal(r)
  PROVE  Quiescent(r)
BY DEF Quiescent, CertificationInvariant, SingleFlight

\* A request that changes the row of a quiescent run and asks for the launch
\* of its attempt: modernize and revalidate.
LEMMA StartFrame ==
  ASSUME TypeOK, TypeOK', CertificationInvariant, NEW c \in Clients,
         NEW r \in Runs, Quiescent(r),
         UNCHANGED <<bundle, pc, mem, signed, exported>>,
         \A x \in Runs \ {r} : db'[x] = db[x],
         req' = [req EXCEPT ![c] =
                  [kind |-> "launch", run |-> r, gen |-> db'[r].gen]],
         db'[r].stage = "CREATED", Unpublished(r)',
         \/ db'[r].gen = db[r].gen + 1
         \/ UNCHANGED db
         \/ /\ db'[r].gen = db[r].gen /\ db'[r].verdict = db[r].verdict
            /\ db'[r].seal = db[r].seal
  PROVE  CertificationInvariant'
<1>1. /\ req'[c] = [kind |-> "launch", run |-> r, gen |-> db'[r].gen]
      /\ \A d \in Clients \ {c} : req'[d] = req[d]
  BY DEF TypeOK
<1>2. \A d \in Clients, x \in Runs :
        Launching(d, x)' => \/ d = c /\ x = r
                            \/ d # c /\ x # r /\ Launching(d, x)
  BY <1>1 DEF Launching, Quiescent
<1>3. \A b \in Attempts : b[1] \in Runs /\ (pc[b] \in Writing => b[1] # r)
  BY DEF Attempts, Quiescent
<1>4. \A x \in Runs, g \in Gens : <<x, g>> \in Attempts
  BY DEF Attempts
<1>5. "CREATED" \notin TERMINAL_STAGES
  BY DEF TERMINAL_STAGES
<1>6. SingleFlight'
  <2>1. ASSUME NEW b \in Attempts, pc'[b] \in Writing
        PROVE  /\ b[2] = db'[b[1]].gen /\ db'[b[1]].stage # "none"
               /\ db'[b[1]].stage \notin TERMINAL_STAGES
    BY <2>1, <1>3 DEF CertificationInvariant, SingleFlight, Exists, Terminal
  <2>2. ASSUME NEW d \in Clients, NEW x \in Runs, Launching(d, x)'
        PROVE  /\ req'[d].gen = db'[x].gen /\ db'[x].stage # "none"
               /\ db'[x].stage \notin TERMINAL_STAGES
               /\ \A g \in Gens : pc'[<<x, g>>] \notin Writing
               /\ \A e \in Clients : Launching(e, x)' => e = d
    <3>1. CASE d = c /\ x = r
      <4>1. \A g \in Gens : pc[<<r, g>>] \notin Writing
        BY <1>4 DEF Quiescent
      <4> QED BY <3>1, <4>1, <1>1, <1>2, <1>5
    <3>2. CASE d # c /\ x # r /\ Launching(d, x)
      BY <3>2, <1>1, <1>2
      DEF CertificationInvariant, SingleFlight, Exists, Terminal
    <3> QED BY <2>2, <1>2, <3>1, <3>2
  <2> QED BY <2>1, <2>2 DEF SingleFlight, Exists, Terminal
<1>7. FreshAttempts'
  <2>1. \A b \in Attempts : pc'[b] \in Writing \ {"saving", "finishing"} =>
          Unpublished(b[1])'
    BY <1>3 DEF CertificationInvariant, FreshAttempts, Unpublished
  <2>2. \A d \in Clients, x \in Runs : Launching(d, x)' => Unpublished(x)'
    BY <1>2 DEF CertificationInvariant, FreshAttempts, Unpublished
  <2>3. \A x \in Runs : db'[x].stage = "none" =>
          Unpublished(x)' /\ db'[x].gen = 0
    BY DEF CertificationInvariant, FreshAttempts, Unpublished, Exists
  <2> QED BY <2>1, <2>2, <2>3 DEF FreshAttempts, Exists
<1>8. WorkerKnowledge'
  <2> SUFFICES ASSUME NEW b \in Attempts PROVE Knows(b)'
    BY DEF WorkerKnowledge
  <2>1. CASE b[1] = r
    BY <2>1 DEF Quiescent, Knows, Writing
  <2>2. CASE b[1] # r
    BY <2>2, <1>3 DEF CertificationInvariant, WorkerKnowledge, Knows
  <2> QED BY <2>1, <2>2
<1>9. PublishedRuns'
  <2> SUFFICES ASSUME NEW x \in Runs PROVE Published(x)'
    BY DEF PublishedRuns
  <2>1. CASE x = r
    BY <2>1 DEF Unpublished, Published
  <2>2. CASE x # r
    BY <2>2 DEF CertificationInvariant, PublishedRuns, Published, VerifiedSeal
  <2> QED BY <2>1, <2>2
<1>10. RequestKnowledge'
  <2> SUFFICES ASSUME NEW d \in Clients PROVE Relies(d)'
    BY DEF RequestKnowledge
  <2>1. CASE d = c
    BY <2>1, <1>1 DEF Relies
  <2>2. CASE d # c /\ req[d].kind \in {"approve", "decide"}
    <3>1. req[d].run \in Runs /\ req[d].gen \in Int /\ db[req[d].run].gen \in Int
      BY <2>2, BoundsAssumption DEF TypeOK, Requests, RunRecords, Gens
    <3>2. Relies(d) /\ req'[d] = req[d]
      BY <2>2, <1>1 DEF CertificationInvariant, RequestKnowledge
    <3>3. CASE req[d].run # r
      BY <2>2, <3>1, <3>2, <3>3 DEF Relies, VerifiedSeal
    <3>4. CASE req[d].run = r
      BY <2>2, <3>1, <3>2, <3>4 DEF Relies, VerifiedSeal
    <3> QED BY <3>3, <3>4
  <2>3. CASE d # c /\ req[d].kind \notin {"approve", "decide"}
    BY <2>3, <1>1 DEF CertificationInvariant, RequestKnowledge, Relies
  <2> QED BY <2>1, <2>2, <2>3
<1> QED
  BY <1>6, <1>7, <1>8, <1>9, <1>10
  DEF CertificationInvariant, SignedIsOfItsAttempt, ExportedWasSigned

\* modernize creates a run and revalidate resets one: nothing of an earlier
\* attempt survives, and no thread is left that could write.
LEMMA StartSteps ==
  ASSUME TypeOK, TypeOK', CertificationInvariant, NEW c \in Clients,
         (\E r \in Runs : AddRun(c, r)) \/ Reset(c)
  PROVE  CertificationInvariant'
<1>1. CASE \E r \in Runs : AddRun(c, r)
  <2>1. PICK r \in Runs : AddRun(c, r)
    BY <1>1
  <2>2. ~Exists(r) /\ UNCHANGED <<bundle, pc, mem, signed, exported>>
    BY <2>1 DEF AddRun
  <2>3. db[r] \in RunRecords /\ Unpublished(r) /\ db[r].gen = 0
    BY <2>2 DEF TypeOK, CertificationInvariant, FreshAttempts
  <2>4. /\ db'[r].stage = "CREATED" /\ db'[r].gen = db[r].gen
        /\ db'[r].verdict = db[r].verdict /\ db'[r].seal = db[r].seal
        /\ db'[r].approval = db[r].approval
        /\ \A x \in Runs \ {r} : db'[x] = db[x]
    BY <2>1, <2>3 DEF AddRun, TypeOK, RunRecords
  <2>5. Unpublished(r)'
    BY <2>3, <2>4 DEF Unpublished
  <2>6. req' = [req EXCEPT ![c] =
                 [kind |-> "launch", run |-> r, gen |-> db'[r].gen]]
    BY <2>1, <2>3, <2>4 DEF AddRun
  <2> QED BY <2>2, <2>4, <2>5, <2>6, QuietRun, StartFrame
<1>2. CASE Reset(c)
  <2>0. PICK r \in Runs : r = req[c].run
    BY <1>2 DEF Reset, TypeOK, Requests
  <2>1. CASE jobs' = jobs - 1 /\ Finish(c) /\ UNCHANGED db
    BY <1>2, <2>1, QuietRequest DEF Reset, Finish, Idle
  <2>2. CASE /\ Terminal(r) /\ begin_revalidation(r)
             /\ req' = [req EXCEPT ![c] =
                         [kind |-> "launch", run |-> r, gen |-> db[r].gen + 1]]
    <3>1. UNCHANGED <<bundle, pc, mem, signed, exported>>
      BY <1>2 DEF Reset
    <3>2. db[r] \in RunRecords
      BY <3>1 DEF TypeOK
    <3>3. /\ db'[r].stage = "CREATED" /\ db'[r].gen = db[r].gen + 1
          /\ db'[r].verdict = "none" /\ db'[r].seal = NONE
          /\ db'[r].approval = "PENDING"
          /\ \A x \in Runs \ {r} : db'[x] = db[x]
      BY <2>2, <3>1, <3>2 DEF begin_revalidation, TypeOK, RunRecords
    <3>4. Unpublished(r)'
      BY <3>3 DEF Unpublished
    <3> QED BY <2>2, <3>1, <3>3, <3>4, QuietRun, StartFrame
  <2> QED BY <1>2, <2>0, <2>1, <2>2 DEF Reset
<1> QED BY <1>1, <1>2

\* The thread of a new attempt starts, or the request fails the run itself:
\* either way the pending launch becomes the run's only thread.
LEMMA LaunchStep ==
  ASSUME TypeOK, TypeOK', CertificationInvariant, NEW c \in Clients, Launch(c)
  PROVE  CertificationInvariant'
<1>0. PICK r \in Runs, g \in Gens : r = req[c].run /\ g = req[c].gen
  BY DEF Launch, TypeOK, Requests
<1> DEFINE a == <<r, g>>
<1>1. a \in Attempts /\ a[1] = r /\ a[2] = g
  BY DEF Attempts
<1> HIDE DEF a
<1>2. /\ UNCHANGED <<db, bundle, signed, exported>>
      /\ req'[c] = Idle /\ \A d \in Clients \ {c} : req'[d] = req[d]
  BY DEF Launch, Finish, TypeOK
<1>3. Launching(c, r)
  BY <1>0 DEF Launch, Launching
<1>4. /\ g = db[r].gen /\ Exists(r) /\ ~Terminal(r) /\ Unpublished(r)
      /\ \A h \in Gens : pc[<<r, h>>] \notin Writing
      /\ \A d \in Clients : Launching(d, r) => d = c
  BY <1>0, <1>3 DEF CertificationInvariant, SingleFlight, FreshAttempts
<1>5. \A d \in Clients, x \in Runs :
        Launching(d, x)' => Launching(d, x) /\ d # c /\ x # r
  BY <1>2, <1>4 DEF Launching, Idle
<1>6. \A b \in Attempts : b[1] \in Runs /\ b[2] \in Gens /\ b = <<b[1], b[2]>>
  BY DEF Attempts
<1>7. \A b \in Attempts \ {a} : b[1] = r => pc[b] \notin Writing
  BY <1>4, <1>6
<1>8. /\ \A b \in Attempts \ {a} : pc'[b] = pc[b] /\ mem'[b] = mem[b]
      /\ \/ pc'[a] = "launched"
         \/ /\ pc'[a] = "abandoned"
            /\ mem'[a].gen = g /\ mem'[a].verdict = "none"
            /\ mem'[a].built = FALSE
  <2>1. CASE pc' = [pc EXCEPT ![a] = "launched"] /\ UNCHANGED mem
    BY <2>1, <1>1 DEF TypeOK
  <2>2. CASE /\ pc' = [pc EXCEPT ![a] = "abandoned"]
             /\ mem' = [mem EXCEPT ![a] = [NoMem EXCEPT !.gen = g,
                         !.stage = "FAILED", !.proof = db[r].proof,
                         !.report = db[r].report]]
    BY <2>2, <1>1 DEF TypeOK, NoMem
  <2> QED BY <1>0, <2>1, <2>2 DEF Launch, a
<1>9. SingleFlight'
  <2>1. ASSUME NEW b \in Attempts, pc'[b] \in Writing
        PROVE  b[2] = db[b[1]].gen /\ Exists(b[1]) /\ ~Terminal(b[1])
    BY <2>1, <1>1, <1>4, <1>8 DEF CertificationInvariant, SingleFlight
  <2>2. ASSUME NEW d \in Clients, NEW x \in Runs, Launching(d, x)'
        PROVE  /\ req'[d].gen = db[x].gen /\ Exists(x) /\ ~Terminal(x)
               /\ \A h \in Gens : pc'[<<x, h>>] \notin Writing
               /\ \A e \in Clients : Launching(e, x)' => e = d
    <3>1. \A h \in Gens : <<x, h>> \in Attempts \ {a}
      BY <2>2, <1>1, <1>5 DEF Attempts, a
    <3> QED BY <2>2, <3>1, <1>2, <1>5, <1>8 DEF CertificationInvariant, SingleFlight
  <2> QED BY <2>1, <2>2, <1>2 DEF SingleFlight, Exists, Terminal
<1>10. FreshAttempts'
  <2>1. ASSUME NEW b \in Attempts, pc'[b] \in Writing \ {"saving", "finishing"}
        PROVE  Unpublished(b[1])
    BY <2>1, <1>1, <1>4, <1>8 DEF CertificationInvariant, FreshAttempts
  <2>2. \A d \in Clients, x \in Runs : Launching(d, x)' => Unpublished(x)
    BY <1>5 DEF CertificationInvariant, FreshAttempts
  <2> QED BY <2>1, <2>2, <1>2
          DEF CertificationInvariant, FreshAttempts, Unpublished, Exists
<1>11. WorkerKnowledge'
  <2> SUFFICES ASSUME NEW b \in Attempts PROVE Knows(b)'
    BY DEF WorkerKnowledge
  <2>1. CASE b = a
    <3>1. db[r].verdict = "none"
      BY <1>4 DEF Unpublished
    <3> QED BY <2>1, <3>1, <1>1, <1>8 DEF Knows, Writing
  <2>2. CASE b # a
    BY <2>2, <1>2, <1>8 DEF CertificationInvariant, WorkerKnowledge, Knows
  <2> QED BY <2>1, <2>2
<1>12. RequestKnowledge'
  <2> SUFFICES ASSUME NEW d \in Clients PROVE Relies(d)'
    BY DEF RequestKnowledge
  <2>1. CASE d = c
    BY <2>1, <1>2 DEF Relies, Idle
  <2>2. CASE d # c
    BY <2>2, <1>2 DEF CertificationInvariant, RequestKnowledge, Relies,
       VerifiedSeal
  <2> QED BY <2>1, <2>2
<1> QED
  BY <1>2, <1>9, <1>10, <1>11, <1>12
  DEF CertificationInvariant, PublishedRuns, Published, VerifiedSeal,
      SignedIsOfItsAttempt, ExportedWasSigned

\* A write of the decision column: the other columns of the row, the threads
\* and the trees stay, and what is signed only grows.
LEMMA DecisionFrame ==
  ASSUME TypeOK, CertificationInvariant, NEW c \in Clients, NEW r \in Runs,
         UNCHANGED <<bundle, pc, mem, exported>>,
         \A d \in Clients \ {c} : req'[d] = req[d],
         req'[c] = req[c] \/ req'[c] = Idle,
         \A x \in Runs \ {r} : db'[x] = db[x],
         db'[r].stage = db[r].stage, db'[r].gen = db[r].gen,
         db'[r].verdict = db[r].verdict, db'[r].seal = db[r].seal,
         signed \subseteq signed', SignedIsOfItsAttempt',
         db'[r].approval = "APPROVED" =>
           /\ db[r].verdict = "VERIFIED"
           /\ [run |-> r, gen |-> db[r].gen, content |-> db[r].seal] \in signed'
  PROVE  CertificationInvariant'
<1>1. \A d \in Clients, x \in Runs : Launching(d, x)' =>
        Launching(d, x) /\ req'[d] = req[d]
  BY DEF Launching, Idle
<1>2. \A b \in Attempts : b[1] \in Runs
  BY DEF Attempts
<1>3. \A x \in Runs : /\ db'[x].stage = db[x].stage /\ db'[x].gen = db[x].gen
                       /\ db'[x].verdict = db[x].verdict
                       /\ db'[x].seal = db[x].seal
                       /\ (db[x].verdict = "none" /\ db[x].approval # "APPROVED"
                             => db'[x].approval # "APPROVED")
  OBVIOUS
<1>4. SingleFlight'
  BY <1>1, <1>2, <1>3 DEF CertificationInvariant, SingleFlight, Exists, Terminal
<1>5. FreshAttempts'
  BY <1>1, <1>2, <1>3 DEF CertificationInvariant, FreshAttempts, Unpublished, Exists
<1>6. WorkerKnowledge'
  <2> SUFFICES ASSUME NEW b \in Attempts PROVE Knows(b)'
    BY DEF WorkerKnowledge
  <2>1. Knows(b)
    BY DEF CertificationInvariant, WorkerKnowledge
  <2> QED BY <1>2, <1>3, <2>1 DEF Knows
<1>7. PublishedRuns'
  <2> SUFFICES ASSUME NEW x \in Runs PROVE Published(x)'
    BY DEF PublishedRuns
  <2>1. CASE x = r
    BY <1>3, <2>1 DEF CertificationInvariant, PublishedRuns, Published, VerifiedSeal
  <2>2. CASE x # r
    BY <2>2 DEF CertificationInvariant, PublishedRuns, Published, VerifiedSeal
  <2> QED BY <2>1, <2>2
<1>8. RequestKnowledge'
  <2> SUFFICES ASSUME NEW d \in Clients PROVE Relies(d)'
    BY DEF RequestKnowledge
  <2>1. CASE req'[d] = Idle
    BY <2>1 DEF Relies, Idle
  <2>2. CASE req'[d] = req[d]
    <3>1. req[d].kind \in {"approve", "decide"} => req[d].run \in Runs
      BY DEF TypeOK, Requests
    <3> QED BY <1>3, <2>2, <3>1
            DEF CertificationInvariant, RequestKnowledge, Relies, VerifiedSeal
  <2> QED BY <2>1, <2>2
<1> QED
  BY <1>4, <1>5, <1>6, <1>7, <1>8
  DEF CertificationInvariant, ExportedWasSigned

\* Approval: what was loaded, verified and written refers to one attempt.
LEMMA DecisionSteps ==
  ASSUME TypeOK, TypeOK', CertificationInvariant, NEW c \in Clients,
         \/ \E r \in Runs : ApproveLoad(c, r) \/ RejectRun(c, r)
         \/ ApproveVerify(c) \/ ApproveWrite(c)
  PROVE  CertificationInvariant'
<1>1. CASE \E r \in Runs : ApproveLoad(c, r)
  <2>1. PICK r \in Runs : ApproveLoad(c, r)
    BY <1>1
  <2>2. /\ UNCHANGED <<db, bundle, pc, mem, signed, exported>>
        /\ req'[c] = [kind |-> "approve", run |-> r, gen |-> db[r].gen,
                      seal |-> db[r].seal]
        /\ \A d \in Clients \ {c} : req'[d] = req[d]
        /\ db[r].verdict = "VERIFIED"
    BY <2>1 DEF ApproveLoad, TypeOK
  <2>3. /\ VerifiedSeal(r, db[r].gen, db[r].seal)
        /\ db[r].gen \in Int
    <3>1. VerifiedSeal(r, db[r].gen, db[r].seal)
      BY <2>2, Zenon DEF CertificationInvariant, PublishedRuns, Published
    <3>2. db[r] \in RunRecords
      BY DEF TypeOK
    <3>3. db[r].gen \in Int
      BY <3>2, BoundsAssumption DEF RunRecords, Gens
    <3> QED BY <3>1, <3>3
  <2>4. Relies(c)'
    BY <2>2, <2>3 DEF Relies, VerifiedSeal
  <2>5. ExportedWasSigned'
    BY <2>2 DEF CertificationInvariant, ExportedWasSigned
  <2> QED BY <2>2, <2>4, <2>5, RequestFrame
<1>2. CASE ApproveVerify(c)
  <2>0. /\ UNCHANGED <<db, bundle, pc, mem, signed, exported>>
        /\ req[c].kind = "approve"
    BY <1>2 DEF ApproveVerify
  <2>1. CASE req' = [req EXCEPT ![c] = Idle]
    BY <2>0, <2>1, QuietRequest DEF Idle
  <2>2. CASE /\ req[c].seal # NONE /\ bundle[req[c].run] = req[c].seal
             /\ req' = [req EXCEPT ![c] = [req[c] EXCEPT !.kind = "decide"]]
    <3>1. PICK r \in Runs, g \in Gens, s \in Contents \cup {NONE} :
            req[c] = [kind |-> "approve", run |-> r, gen |-> g, seal |-> s]
      BY <2>0 DEF TypeOK, Requests
    <3>2. /\ req'[c] = [kind |-> "decide", run |-> r, gen |-> g, seal |-> s]
          /\ \A d \in Clients \ {c} : req'[d] = req[d]
      BY <2>2, <3>1 DEF TypeOK
    <3>3. Relies(c)
      BY DEF CertificationInvariant, RequestKnowledge
    <3>4. s \in TreesOf(g)
      BY <2>2, <3>1, <3>3 DEF Relies, VerifiedSeal
    <3>5. Relies(c)'
      BY <2>0, <3>1, <3>2, <3>3, <3>4 DEF Relies, VerifiedSeal
    <3>6. ExportedWasSigned'
      BY <2>0 DEF CertificationInvariant, ExportedWasSigned
    <3> QED BY <2>0, <3>2, <3>5, <3>6, RequestFrame
  <2> QED BY <1>2, <2>1, <2>2 DEF ApproveVerify
<1>3. CASE ApproveWrite(c)
  <2>0. /\ UNCHANGED <<bundle, pc, mem, exported>> /\ req[c].kind = "decide"
        /\ req' = [req EXCEPT ![c] = Idle]
    BY <1>3 DEF ApproveWrite, Finish
  <2>1. CASE UNCHANGED <<db, signed>>
    BY <2>0, <2>1, QuietRequest DEF Idle
  <2>2. CASE /\ bound_write_accepts(req[c].run, req[c].gen)
             /\ db' = [db EXCEPT ![req[c].run].approval = "APPROVED",
                                 ![req[c].run].event = "APPROVED"]
             /\ signed' = signed \cup
                  {[run |-> req[c].run, gen |-> req[c].gen,
                    content |-> req[c].seal]}
    <3>1. PICK r \in Runs : r = req[c].run
      BY <2>0 DEF TypeOK, Requests
    <3>2. /\ req[c].gen = db[r].gen /\ db[r].verdict = "VERIFIED"
          /\ db[r].seal = req[c].seal /\ req[c].seal \in TreesOf(req[c].gen)
      BY <2>0, <2>2, <3>1
      DEF CertificationInvariant, RequestKnowledge, Relies, bound_write_accepts
    <3>3. db[r] \in RunRecords
      BY DEF TypeOK
    <3>4. /\ db'[r].stage = db[r].stage /\ db'[r].gen = db[r].gen
          /\ db'[r].verdict = db[r].verdict /\ db'[r].seal = db[r].seal
          /\ \A x \in Runs \ {r} : db'[x] = db[x]
      BY <2>2, <3>1, <3>3 DEF TypeOK, RunRecords
    <3>5. /\ signed \subseteq signed'
          /\ [run |-> r, gen |-> db[r].gen, content |-> db[r].seal] \in signed'
      BY <2>2, <3>1, <3>2
    <3>6. SignedIsOfItsAttempt'
      BY <2>2, <3>2 DEF CertificationInvariant, SignedIsOfItsAttempt
    <3>7. req'[c] = Idle /\ \A d \in Clients \ {c} : req'[d] = req[d]
      BY <2>0 DEF TypeOK
    <3> QED BY <2>0, <3>2, <3>4, <3>5, <3>6, <3>7, DecisionFrame
  <2> QED BY <1>3, <2>1, <2>2 DEF ApproveWrite
<1>4. CASE \E r \in Runs : RejectRun(c, r)
  <2>1. PICK r \in Runs : RejectRun(c, r)
    BY <1>4
  <2>2. db[r] \in RunRecords
    BY DEF TypeOK
  <2>3. /\ db'[r].stage = db[r].stage /\ db'[r].gen = db[r].gen
        /\ db'[r].verdict = db[r].verdict /\ db'[r].seal = db[r].seal
        /\ db'[r].approval = "REJECTED"
        /\ \A x \in Runs \ {r} : db'[x] = db[x]
    BY <2>1, <2>2 DEF RejectRun, TypeOK, RunRecords
  <2>4. UNCHANGED <<bundle, pc, mem, req, signed, exported>>
    BY <2>1 DEF RejectRun
  <2>5. SignedIsOfItsAttempt'
    BY <2>4 DEF CertificationInvariant, SignedIsOfItsAttempt
  <2> QED BY <2>3, <2>4, <2>5, DecisionFrame
<1> QED BY <1>1, <1>2, <1>3, <1>4

\* Download: an archive holds the bytes of a seal that was signed.
LEMMA DownloadSteps ==
  ASSUME TypeOK, TypeOK', CertificationInvariant, NEW c \in Clients,
         (\E r \in Runs : DownloadLoad(c, r)) \/ DownloadRead(c)
  PROVE  CertificationInvariant'
<1>1. CASE \E r \in Runs : DownloadLoad(c, r)
  <2>1. PICK r \in Runs : DownloadLoad(c, r)
    BY <1>1
  <2>2. /\ UNCHANGED <<db, bundle, pc, mem, signed, exported>>
        /\ req'[c] = [kind |-> "download", run |-> r, gen |-> db[r].gen,
                      seal |-> db[r].seal]
        /\ \A d \in Clients \ {c} : req'[d] = req[d]
        /\ db[r].approval = "APPROVED"
    BY <2>1 DEF DownloadLoad, TypeOK
  <2>3. Relies(c)'
    BY <2>2 DEF CertificationInvariant, PublishedRuns, Published, Relies
  <2>4. ExportedWasSigned'
    BY <2>2 DEF CertificationInvariant, ExportedWasSigned
  <2> QED BY <2>2, <2>3, <2>4, RequestFrame
<1>2. CASE DownloadRead(c)
  <2>1. /\ UNCHANGED <<db, bundle, pc, mem, signed>>
        /\ req'[c] = Idle /\ \A d \in Clients \ {c} : req'[d] = req[d]
    BY <1>2 DEF DownloadRead, Finish, TypeOK
  <2>2. ExportedWasSigned'
    BY <1>2, <2>1
    DEF DownloadRead, CertificationInvariant, RequestKnowledge, Relies,
        ExportedWasSigned
  <2>3. Relies(c)'
    BY <2>1 DEF Relies, Idle
  <2> QED BY <2>1, <2>2, <2>3, RequestFrame DEF Idle
<1> QED BY <1>1, <1>2

\* A disk change leaves a VERIFIED run no interim tree, and an attempt whose
\* seal is yet to come one of its own trees or none; a restart leaves no thread
\* and no request.
LEMMA EnvironmentSteps ==
  ASSUME TypeOK, TypeOK', CertificationInvariant,
         (\E r \in Runs : DiskChange(r)) \/ Restart
  PROVE  CertificationInvariant'
<1>0. \A b \in Attempts : b[1] \in Runs /\ b[2] \in Gens /\ b = <<b[1], b[2]>>
  BY DEF Attempts
<1>1. CASE \E r \in Runs : DiskChange(r)
  <2>1. PICK r \in Runs : DiskChange(r)
    BY <1>1
  <2>2. PICK x \in {Absent} \cup ChangedTrees(r) :
          bundle' = [bundle EXCEPT ![r] = x]
    BY <2>1 DEF DiskChange
  <2>3. /\ UNCHANGED <<db, pc, mem, req, signed, exported>>
        /\ \A y \in Runs \ {r} : bundle'[y] = bundle[y]
        /\ bundle'[r] = x
    BY <2>1, <2>2 DEF DiskChange, TypeOK
  <2>4. x \in InterimTrees =>
          pc[<<r, 0>>] \in {"sealing", "recording", "validating", "oracle",
                            "building"}
    BY ChangedTreesFacts DEF InterimTrees
  <2>5. 0 \in Gens /\ <<r, 0>> \in Attempts
    BY BoundsAssumption DEF Gens, Attempts
  <2>6. x \in InterimTrees => db[r].gen = 0 /\ db[r].verdict = "none"
    BY <2>4, <2>5
    DEF CertificationInvariant, SingleFlight, FreshAttempts, Unpublished,
        Writing
  <2>7. WorkerKnowledge'
    <3> SUFFICES ASSUME NEW b \in Attempts PROVE Knows(b)'
      BY DEF WorkerKnowledge
    <3>1. Knows(b)
      BY DEF CertificationInvariant, WorkerKnowledge
    <3>2. CASE b[1] # r
      BY <1>0, <2>3, <3>1, <3>2 DEF Knows
    <3>3. CASE b[1] = r /\ pc[b] \notin Writing
      BY <2>3, <3>3 DEF Knows, Writing
    <3>4. CASE b[1] = r /\ pc[b] \in Writing
      <4>1. \A g \in Gens : pc[<<r, g>>] \in Writing => g = b[2]
        <5> SUFFICES ASSUME NEW g \in Gens, pc[<<r, g>>] \in Writing
                     PROVE  g = b[2]
          OBVIOUS
        <5>1. <<r, g>> \in Attempts /\ <<r, g>>[1] = b[1]
          BY <3>4 DEF Attempts
        <5>2. <<r, g>> = b
          BY <3>4, <5>1, OneThread DEF CertificationInvariant
        <5> QED BY <5>2
      <4>2. mem[b].built /\ x \in InterimTrees => pc[b] = "launched"
        <5>1. x \in InterimTrees => b = <<r, 0>>
          BY <1>0, <2>4, <2>5, <3>4, <4>1 DEF Writing
        <5> QED BY <2>4, <3>1, <5>1 DEF Knows
      <4>3. pc[b] \in {"comparing", "deriving", "proving"} /\ mem[b].built =>
              x \in TreesOf(b[2]) \cup {Absent}
        <5> SUFFICES ASSUME pc[b] \in {"comparing", "deriving", "proving"},
                            mem[b].built
                     PROVE  x \in TreesOf(b[2]) \cup {Absent}
          OBVIOUS
        <5>1. Unsealed(r) = {b[2]}
          BY <1>0, <3>4, <4>1 DEF Unsealed, Writing
        <5> QED BY <5>1, ChangedTreesFacts
      <4>4. pc[b] = "sealing" => x \in InterimTrees \cup {Absent}
        <5> SUFFICES ASSUME pc[b] = "sealing"
                     PROVE  x \in InterimTrees \cup {Absent}
          OBVIOUS
        <5>1. Unsealed(r) = {}
          BY <1>0, <3>4, <4>1 DEF Unsealed, Writing
        <5>2. b[2] = 0
          BY <3>1 DEF Knows
        <5>3. Unbuilt(r)
          BY <1>0, <3>4, <5>2 DEF Unbuilt
        <5> QED BY <5>1, <5>3 DEF ChangedTrees, InterimTrees
      <4> QED
        BY <2>3, <3>1, <3>4, <4>2, <4>3, <4>4 DEF Knows
    <3> QED BY <3>2, <3>3, <3>4
  <2>8. PublishedRuns'
    <3> SUFFICES ASSUME NEW y \in Runs PROVE Published(y)'
      BY DEF PublishedRuns
    <3>1. Published(y)
      BY DEF CertificationInvariant, PublishedRuns
    <3> QED BY <2>3, <2>6, <3>1 DEF Published, VerifiedSeal
  <2>9. RequestKnowledge'
    <3> SUFFICES ASSUME NEW d \in Clients PROVE Relies(d)'
      BY DEF RequestKnowledge
    <3>1. Relies(d)
      BY DEF CertificationInvariant, RequestKnowledge
    <3>2. CASE req[d].kind \in {"approve", "decide"}
      <4>1. /\ req[d].run \in Runs /\ req[d].gen \in Gens
            /\ req[d].gen <= db[req[d].run].gen
        BY <3>1, <3>2 DEF TypeOK, Requests, Relies
      <4>2. req[d].gen <= 0 => req[d].gen = 0
        BY <4>1 DEF Gens
      <4>3. ~(req[d].run = r /\ x \in InterimTrees)
        BY <2>6, <3>1, <3>2, <4>1, <4>2 DEF Relies
      <4> QED BY <2>3, <3>1, <3>2, <4>1, <4>3 DEF Relies, VerifiedSeal
    <3>3. CASE req[d].kind \notin {"approve", "decide"}
      BY <2>3, <3>1, <3>3 DEF Relies
    <3> QED BY <3>2, <3>3
  <2>10. SingleFlight' /\ FreshAttempts'
    BY <2>3 DEF CertificationInvariant, SingleFlight, FreshAttempts,
       Unpublished, Launching, Exists, Terminal
  <2> QED BY <2>3, <2>7, <2>8, <2>9, <2>10
          DEF CertificationInvariant, SignedIsOfItsAttempt, ExportedWasSigned
<1>2. CASE Restart
  <2>1. /\ UNCHANGED <<bundle, signed, exported>>
        /\ \A b \in Attempts : pc'[b] \notin Writing
        /\ \A d \in Clients : req'[d] = Idle
    BY <1>2 DEF Restart, TypeOK, Writing
  <2>2. \A x \in Runs : /\ db'[x].gen = db[x].gen
                         /\ db'[x].verdict = db[x].verdict
                         /\ db'[x].seal = db[x].seal
                         /\ db'[x].approval = db[x].approval
                         /\ (db'[x].stage = "none" => db[x].stage = "none")
    <3>1. \A x \in Runs : db[x] \in RunRecords
      BY DEF TypeOK
    <3> QED BY <1>2, <3>1 DEF Restart, mark_interrupted_runs, RunRecords
  <2>3. SingleFlight' /\ FreshAttempts'
    <3>1. \A x \in Runs : Unpublished(x) => Unpublished(x)'
      BY <2>2 DEF Unpublished
    <3>2. \A d \in Clients, x \in Runs : ~Launching(d, x)'
      BY <2>1 DEF Launching, Idle
    <3> QED BY <2>1, <2>2, <3>1, <3>2
            DEF CertificationInvariant, SingleFlight, FreshAttempts, Exists
  <2>4. WorkerKnowledge'
    BY <2>1 DEF WorkerKnowledge, Knows, Writing
  <2>5. PublishedRuns'
    BY <2>1, <2>2 DEF CertificationInvariant, PublishedRuns, Published, VerifiedSeal
  <2>6. RequestKnowledge'
    BY <2>1 DEF RequestKnowledge, Relies, Idle
  <2> QED BY <2>1, <2>3, <2>4, <2>5, <2>6
          DEF CertificationInvariant, SignedIsOfItsAttempt, ExportedWasSigned
<1> QED BY <1>1, <1>2

\* The empty control plane satisfies the invariant.
LEMMA InitCertification == Init => CertificationInvariant
<1> SUFFICES ASSUME Init PROVE CertificationInvariant
  OBVIOUS
<1>1. /\ \A r \in Runs : db[r] = NoRun
      /\ \A a \in Attempts : pc[a] = "idle" /\ a[1] \in Runs
      /\ \A c \in Clients : req[c] = Idle
      /\ signed = {} /\ exported = {}
  BY DEF Init, Attempts
<1>2. \A r \in Runs : Unpublished(r) /\ db[r].gen = 0
  BY <1>1 DEF Unpublished, NoRun
<1>3. \A c \in Clients, r \in Runs : ~Launching(c, r)
  BY <1>1 DEF Launching, Idle
<1>4. \A a \in Attempts : pc[a] \notin Writing
  BY <1>1 DEF Writing
<1>5. SingleFlight /\ FreshAttempts
  BY <1>2, <1>3, <1>4 DEF SingleFlight, FreshAttempts
<1>6. WorkerKnowledge
  BY <1>4 DEF WorkerKnowledge, Knows, Writing
<1>7. PublishedRuns
  BY <1>2 DEF PublishedRuns, Published, Unpublished
<1>8. RequestKnowledge
  BY <1>1 DEF RequestKnowledge, Relies, Idle
<1> QED BY <1>1, <1>5, <1>6, <1>7, <1>8
        DEF CertificationInvariant, SignedIsOfItsAttempt, ExportedWasSigned

\* Every step of a single process preserves the invariant.
LEMMA CertificationStep ==
  ASSUME TypeOK, TypeOK', CertificationInvariant, [Next]_vars, ~SecondProcess
  PROVE  CertificationInvariant'
<1>1. CASE UNCHANGED vars
  BY <1>1 DEF vars, CertificationInvariant, SingleFlight, FreshAttempts,
     Unpublished, WorkerKnowledge, Knows, PublishedRuns, Published,
     VerifiedSeal, RequestKnowledge, Relies, Launching, SignedIsOfItsAttempt,
     ExportedWasSigned, Exists, Terminal
<1>2. ASSUME NEW a \in Attempts, WorkerStep(a) PROVE CertificationInvariant'
  <2>1. CASE pc[a] = "releasing"
    <3>1. Release(a)
      BY <1>2, <2>1 DEF WorkerStep, Load, GenerationPhase, GenerationDone,
         InterimSeal, RecordBundle, ExecuteOracle, StartBuild, Build, Compare,
         DeriveVerdict, ProveAndSeal, StoreSeal, SaveVerdict, PipelineRaises,
         PersistFinal
    <3> QED BY <3>1, ReleaseStep
  <2>2. CASE pc[a] # "releasing"
    BY <1>2, <2>2, WorkerStepPost, WorkerFrame
  <2> QED BY <2>1, <2>2
<1>3. ASSUME NEW c \in Clients, RequestStep(c) \/ NewRequest(c)
      PROVE  CertificationInvariant'
  <2>1. CASE ModernizeSlot(c)
    BY <2>1, QuietRequest DEF ModernizeSlot
  <2>2. CASE AddRunFails(c)
    BY <2>2, QuietRequest DEF AddRunFails, Finish, Idle
  <2>3. CASE \E r \in Runs : RevalidateCheck(c, r)
    BY <2>3, QuietRequest DEF RevalidateCheck
  <2>4. CASE RevalidateSlot(c)
    BY <2>4, QuietRequest DEF RevalidateSlot, Finish, Idle
  <2> QED
    BY <1>3, <2>1, <2>2, <2>3, <2>4, StartSteps, LaunchStep, DecisionSteps,
       DownloadSteps DEF RequestStep, NewRequest
<1> QED
  BY <1>1, <1>2, <1>3, EnvironmentSteps DEF Next, OtherProcessStarts

\* In the documented single-process deployment the certification invariant
\* holds at all times, for any number of runs, requests, attempts and slots.
THEOREM CertificationHolds ==
  ASSUME ~SecondProcess
  PROVE  Spec => []CertificationInvariant
<1>1. CertificationInvariant /\ TypeOK /\ TypeOK' /\ [Next]_vars =>
        CertificationInvariant'
  BY CertificationStep
<1> QED BY InitCertification, TypeCorrect, <1>1, PTL DEF Spec

\* Approved means certified: the decision shown on a run is about the verdict
\* and the seal of its current attempt.
THEOREM ApprovalIsSound ==
  ASSUME ~SecondProcess
  PROVE  Spec => []ApprovedIsCertified
<1>1. CertificationInvariant => ApprovedIsCertified
  BY DEF CertificationInvariant, PublishedRuns, Published, ApprovedIsCertified
<1> QED BY CertificationHolds, <1>1, PTL

\* What is signed off is the tree that the final seal of the signed attempt
\* found (set_run_approval after the gates of app.py, _run_validation): its own
\* build, or what a disk change made of it before that seal.
THEOREM SignOffIsSound ==
  ASSUME ~SecondProcess
  PROVE  Spec => []SignedIsOfItsAttempt
<1>1. CertificationInvariant => SignedIsOfItsAttempt
  BY DEF CertificationInvariant
<1> QED BY CertificationHolds, <1>1, PTL

\* What a download hands out was signed off (download_generated).
THEOREM ExportIsSound ==
  ASSUME ~SecondProcess
  PROVE  Spec => []ExportedWasSigned
<1>1. CertificationInvariant => ExportedWasSigned
  BY DEF CertificationInvariant
<1> QED BY CertificationHolds, <1>1, PTL

-----------------------------------------------------------------------------
(* The verdict belongs to the attempt, whatever processes share the store. *)

\* Strengthening: a worker's copy that carries a verdict carries the evidence
\* of the generation the copy was loaded for.
VerdictInvariant ==
  /\ VerdictOfThisAttempt
  /\ \A a \in Attempts : mem[a].verdict # "none" => mem[a].evidence = mem[a].gen

\* Store.update_run with a copy of the current generation keeps the verdict
\* and its evidence together.
LEMMA UpdateRunVerdict ==
  ASSUME TypeOK, VerdictOfThisAttempt, NEW r \in Runs, NEW m \in Copies,
         update_run(r, m), update_run_accepts(r, m),
         m.verdict # "none" => m.evidence = m.gen
  PROVE  VerdictOfThisAttempt'
<1>1. /\ db'[r].gen = db[r].gen /\ db'[r].verdict = m.verdict
      /\ db'[r].evidence = m.evidence
      /\ \A x \in Runs \ {r} : db'[x] = db[x]
  BY UpdateRunPost
<1>2. m.gen = db[r].gen
  BY DEF update_run_accepts
<1> QED BY <1>1, <1>2 DEF VerdictOfThisAttempt

\* A step that replaces worker a's copy by one whose verdict and evidence go
\* together, and changes the table by nothing or by an accepted update_run
\* with such a copy.
LEMMA VerdictFrame ==
  ASSUME TypeOK, VerdictInvariant, NEW a \in Attempts, NEW m \in Copies,
         NEW n \in Copies,
         mem' = [mem EXCEPT ![a] = n],
         n.verdict # "none" => n.evidence = n.gen,
         m.verdict # "none" => m.evidence = m.gen,
         \/ update_run_accepts(a[1], m) /\ update_run(a[1], m)
         \/ UNCHANGED db
  PROVE  VerdictInvariant'
<1>1. a[1] \in Runs
  BY DEF Attempts
<1>2. VerdictOfThisAttempt'
  BY <1>1, UpdateRunVerdict DEF VerdictInvariant, VerdictOfThisAttempt
<1>3. \A b \in Attempts : mem'[b] = IF b = a THEN n ELSE mem[b]
  BY DEF TypeOK
<1> QED BY <1>2, <1>3 DEF VerdictInvariant

\* Every step of a worker keeps verdicts with the evidence of their attempt.
LEMMA VerdictWorker ==
  ASSUME TypeOK, VerdictInvariant, NEW a \in Attempts, WorkerStep(a)
  PROVE  VerdictInvariant'
<1> DEFINE r == a[1]
           m == mem[a]
<1>a. r \in Runs /\ m \in Copies /\ db[r] \in RunRecords
  BY DEF TypeOK, Attempts
<1>b. /\ m.verdict # "none" => m.evidence = m.gen
      /\ db[r].verdict # "none" => db[r].evidence = db[r].gen
  BY <1>a DEF VerdictInvariant, VerdictOfThisAttempt
<1>c. NoMem \in Copies /\ NoMem.verdict = "none"
  BY BoundsAssumption, StageFacts DEF NoMem, Copies, Gens, Verdicts, NONE
<1>d. ASSUME NEW s \in Stages
      PROVE  /\ [m EXCEPT !.stage = s] \in Copies
             /\ [m EXCEPT !.stage = s].verdict = m.verdict
             /\ [m EXCEPT !.stage = s].evidence = m.evidence
             /\ [m EXCEPT !.stage = s].gen = m.gen
  BY <1>a DEF Copies
<1>e. ASSUME NEW s \in Stages, Progress(a, [m EXCEPT !.stage = s])
      PROVE  VerdictInvariant'
  <2> DEFINE n == [m EXCEPT !.stage = s]
  <2>1. n \in Copies /\ (n.verdict # "none" => n.evidence = n.gen)
    BY <1>b, <1>d
  <2>2. Progress(a, n)
    BY <1>e
  <2> HIDE DEF n
  <2> QED BY <2>1, <2>2, VerdictFrame DEF Progress
<1>f. ASSUME Raise(a), UNCHANGED db PROVE VerdictInvariant'
  <2> DEFINE n == [m EXCEPT !.stage = "FAILED"]
  <2>1. n \in Copies /\ (n.verdict # "none" => n.evidence = n.gen)
    BY <1>b, <1>d, StageFacts
  <2>2. mem' = [mem EXCEPT ![a] = n]
    BY <1>f DEF Raise
  <2> HIDE DEF n
  <2> QED BY <1>f, <2>1, <2>2, VerdictFrame
<1>g. ASSUME UNCHANGED mem, 
             \A x \in Runs : /\ db'[x].verdict = db[x].verdict
                             /\ db'[x].evidence = db[x].evidence
                             /\ db'[x].gen = db[x].gen
      PROVE  VerdictInvariant'
  BY <1>g DEF VerdictInvariant, VerdictOfThisAttempt
<1>h. \A x \in Runs : db[x] \in RunRecords
  BY DEF TypeOK
<1>1. CASE Load(a)
  <2> DEFINE copy == [NoMem EXCEPT !.gen = db[r].gen,
               !.verdict = db[r].verdict, !.evidence = db[r].evidence,
               !.proof = db[r].proof, !.report = db[r].report,
               !.seal = db[r].seal]
             late == [copy EXCEPT !.stage = "FAILED"]
  <2>1. /\ copy \in Copies /\ copy.gen = db[r].gen
        /\ copy.verdict = db[r].verdict /\ copy.evidence = db[r].evidence
    <3> HIDE DEF NoMem
    <3> QED BY <1>a, <1>c DEF Copies, RunRecords
  <2>2. /\ late \in Copies /\ late.gen = db[r].gen
        /\ late.verdict = db[r].verdict /\ late.evidence = db[r].evidence
    <3> HIDE DEF copy
    <3> QED BY <2>1, StageFacts DEF Copies
  <2>3. UNCHANGED db /\ \/ mem' = [mem EXCEPT ![a] = copy]
                        \/ mem' = [mem EXCEPT ![a] = late]
                        \/ UNCHANGED mem
    BY <1>1 DEF Load
  <2> HIDE DEF copy, late
  <2> QED BY <1>b, <1>g, <2>1, <2>2, <2>3, VerdictFrame
<1>2. CASE GenerationPhase(a)
  BY <1>2, <1>e, BoundsAssumption, StageFacts DEF GenerationPhase, Ahead
<1>3. CASE GenerationDone(a)
  <2> DEFINE n == [m EXCEPT !.report = TRUE]
             o == [m EXCEPT !.report = TRUE, !.stage = "FAILED"]
  <2>1. /\ n \in Copies /\ (n.verdict # "none" => n.evidence = n.gen)
        /\ o \in Copies /\ (o.verdict # "none" => o.evidence = o.gen)
    BY <1>a, <1>b, StageFacts DEF Copies
  <2>2. /\ UNCHANGED db
        /\ mem' = [mem EXCEPT ![a] = n] \/ mem' = [mem EXCEPT ![a] = o]
    BY <1>3 DEF GenerationDone
  <2> HIDE DEF n, o
  <2> QED BY <2>1, <2>2, VerdictFrame
<1>4. CASE InterimSeal(a)
  <2>1. CASE /\ db' = [db EXCEPT ![r].seal = bundle[r]]
             /\ mem' = [mem EXCEPT ![a].seal = bundle[r]]
    <3>1. \A x \in Runs : /\ db'[x].verdict = db[x].verdict
                           /\ db'[x].evidence = db[x].evidence
                           /\ db'[x].gen = db[x].gen
      BY <1>a, <1>h, <2>1 DEF TypeOK, RunRecords
    <3>2. /\ mem'[a].verdict = m.verdict /\ mem'[a].evidence = m.evidence
          /\ mem'[a].gen = m.gen /\ \A b \in Attempts \ {a} : mem'[b] = mem[b]
      BY <1>a, <2>1 DEF TypeOK, Copies
    <3> QED BY <3>1, <3>2 DEF VerdictInvariant, VerdictOfThisAttempt
  <2> QED BY <1>4, <1>f, <2>1 DEF InterimSeal
<1>5. CASE RecordBundle(a)
  <2>1. CASE db' = [db EXCEPT ![r].recorded = TRUE] /\ UNCHANGED mem
    <3>1. \A x \in Runs : /\ db'[x].verdict = db[x].verdict
                           /\ db'[x].evidence = db[x].evidence
                           /\ db'[x].gen = db[x].gen
      BY <1>a, <1>h, <2>1 DEF TypeOK, RunRecords
    <3> QED BY <1>g, <2>1, <3>1
  <2> QED BY <1>5, <1>f, <2>1 DEF RecordBundle
<1>6. CASE ExecuteOracle(a)
  BY <1>6, <1>e, StageFacts DEF ExecuteOracle
<1>7. CASE StartBuild(a)
  BY <1>7, <1>e, StageFacts DEF StartBuild
<1>8. CASE Build(a)
  <2> DEFINE n == [m EXCEPT !.stage = "EXECUTING_GENERATED", !.built = TRUE]
  <2>1. n \in Copies /\ (n.verdict # "none" => n.evidence = n.gen)
    BY <1>a, <1>b, StageFacts DEF Copies
  <2>2. Progress(a, n) \/ UNCHANGED <<db, mem>>
    BY <1>8 DEF Build
  <2> HIDE DEF n
  <2> QED BY <1>g, <2>1, <2>2, VerdictFrame DEF Progress
<1>9. CASE Compare(a)
  BY <1>9, <1>e, StageFacts DEF Compare
<1>10. CASE DeriveVerdict(a)
  BY <1>10, <1>e, StageFacts DEF DeriveVerdict
<1>11. CASE ProveAndSeal(a)
  <2>1. PICK v \in {"VERIFIED", "OTHER"}, p \in {m.proof, stamped_proof(m)} :
          \/ mem' = [mem EXCEPT ![a] = [m EXCEPT !.verdict = v,
                   !.evidence = m.gen, !.proof = p, !.seal = bundle[r]]]
          \/ mem' = [mem EXCEPT ![a] = [m EXCEPT !.verdict = v,
                   !.evidence = m.gen, !.proof = p, !.stage = "FAILED"]]
    BY <1>11 DEF ProveAndSeal
  <2>2. /\ mem'[a].gen = m.gen /\ mem'[a].evidence = m.gen
        /\ \A b \in Attempts \ {a} : mem'[b] = mem[b]
    <3> DEFINE n == [m EXCEPT !.verdict = v, !.evidence = m.gen,
                              !.proof = p, !.seal = bundle[r]]
               o == [m EXCEPT !.verdict = v, !.evidence = m.gen,
                              !.proof = p, !.stage = "FAILED"]
    <3>1. n.gen = m.gen /\ n.evidence = m.gen
      BY <1>a DEF Copies
    <3>2. o.gen = m.gen /\ o.evidence = m.gen
      BY <1>a DEF Copies
    <3>3. mem' = [mem EXCEPT ![a] = n] \/ mem' = [mem EXCEPT ![a] = o]
      BY <2>1
    <3> HIDE DEF n, o, m
    <3> QED BY <3>1, <3>2, <3>3 DEF TypeOK
  <2>3. UNCHANGED db
    BY <1>11 DEF ProveAndSeal
  <2> QED BY <2>2, <2>3 DEF VerdictInvariant, VerdictOfThisAttempt
<1>12. CASE StoreSeal(a)
  <2>1. CASE db' = [db EXCEPT ![r].seal = m.seal] /\ UNCHANGED mem
    <3>1. \A x \in Runs : /\ db'[x].verdict = db[x].verdict
                           /\ db'[x].evidence = db[x].evidence
                           /\ db'[x].gen = db[x].gen
      BY <1>a, <1>h, <2>1 DEF TypeOK, RunRecords
    <3> QED BY <1>g, <2>1, <3>1
  <2> QED BY <1>12, <1>f, <2>1 DEF StoreSeal
<1>13. CASE SaveVerdict(a)
  <2>1. CASE /\ update_run_accepts(r, m) /\ update_run(r, m)
             /\ mem' = [mem EXCEPT ![a].stage = "COMPLETED"]
    <3> DEFINE n == [m EXCEPT !.stage = "COMPLETED"]
    <3>1. n \in Copies /\ (n.verdict # "none" => n.evidence = n.gen)
      BY <1>b, <1>d, StageFacts
    <3>2. mem' = [mem EXCEPT ![a] = n]
      BY <2>1
    <3> HIDE DEF n
    <3> QED BY <1>a, <1>b, <2>1, <3>1, <3>2, VerdictFrame
  <2> QED BY <1>13, <1>f, <2>1 DEF SaveVerdict
<1>14. CASE PipelineRaises(a)
  BY <1>14, <1>f DEF PipelineRaises
<1>15. CASE PersistFinal(a)
  <2>1. CASE /\ \/ update_run_accepts(r, m) /\ update_run(r, m)
                \/ UNCHANGED db
             /\ mem' = [mem EXCEPT ![a] = NoMem]
    <3> HIDE DEF NoMem
    <3> QED BY <1>a, <1>b, <1>c, <2>1, VerdictFrame
  <2>2. CASE /\ UNCHANGED db
             /\ mem' = [mem EXCEPT ![a] = [m EXCEPT !.tries = m.tries + 1]]
    <3>1. /\ mem'[a].verdict = m.verdict /\ mem'[a].evidence = m.evidence
          /\ mem'[a].gen = m.gen /\ \A b \in Attempts \ {a} : mem'[b] = mem[b]
      BY <1>a, <2>2 DEF TypeOK, Copies
    <3> QED BY <2>2, <3>1 DEF VerdictInvariant, VerdictOfThisAttempt
  <2> QED BY <1>15, <2>1, <2>2 DEF PersistFinal
<1>16. CASE Release(a)
  BY <1>16, <1>g DEF Release
<1> QED
  BY <1>1, <1>2, <1>3, <1>4, <1>5, <1>6, <1>7, <1>8, <1>9, <1>10, <1>11,
     <1>12, <1>13, <1>14, <1>15, <1>16 DEF WorkerStep

\* Requests and the environment never write a verdict; a reset removes it.
LEMMA VerdictOthers ==
  ASSUME TypeOK, VerdictInvariant,
         \/ \E c \in Clients : RequestStep(c) \/ NewRequest(c)
         \/ \E r \in Runs : DiskChange(r)
         \/ Restart \/ OtherProcessStarts
  PROVE  VerdictInvariant'
<1>a. \A x \in Runs : db[x] \in RunRecords
  BY DEF TypeOK
<1>b. ASSUME UNCHANGED mem,
             \A x \in Runs : \/ db'[x].verdict = "none"
                             \/ /\ db'[x].verdict = db[x].verdict
                                /\ db'[x].evidence = db[x].evidence
                                /\ db'[x].gen = db[x].gen
      PROVE  VerdictInvariant'
  BY <1>b DEF VerdictInvariant, VerdictOfThisAttempt
<1>c. NoMem.verdict = "none"
  BY DEF NoMem
<1>1. ASSUME NEW c \in Clients, RequestStep(c) \/ NewRequest(c)
      PROVE  VerdictInvariant'
  <2>1. CASE Launch(c)
    <3>1. UNCHANGED db
      BY <2>1 DEF Launch
    <3> DEFINE n == [NoMem EXCEPT !.gen = req[c].gen, !.stage = "FAILED",
                                  !.proof = db[req[c].run].proof,
                                  !.report = db[req[c].run].report]
    <3>2. n.verdict = "none"
      BY DEF NoMem
    <3>3. \/ UNCHANGED mem
          \/ mem' = [mem EXCEPT ![<<req[c].run, req[c].gen>>] = n]
      BY <2>1 DEF Launch
    <3> HIDE DEF n
    <3>4. \A a \in Attempts : mem'[a] = mem[a] \/ mem'[a] = n
      BY <3>3 DEF TypeOK
    <3> QED BY <3>1, <3>2, <3>4 DEF VerdictInvariant, VerdictOfThisAttempt
  <2>2. CASE \E r \in Runs : AddRun(c, r) \/ RejectRun(c, r)
    <3>1. PICK r \in Runs : AddRun(c, r) \/ RejectRun(c, r)
      BY <2>2
    <3>2. \A x \in Runs : /\ db'[x].verdict = db[x].verdict
                           /\ db'[x].evidence = db[x].evidence
                           /\ db'[x].gen = db[x].gen
      BY <1>a, <3>1 DEF AddRun, RejectRun, TypeOK, RunRecords
    <3> QED BY <1>b, <3>1, <3>2 DEF AddRun, RejectRun
  <2>3. CASE Reset(c)
    <3>1. CASE UNCHANGED db
      BY <1>b, <2>3, <3>1 DEF Reset
    <3>2. CASE begin_revalidation(req[c].run)
      <4>1. req[c].run \in Runs
        BY <2>3 DEF Reset, TypeOK, Requests
      <4>2. \A x \in Runs : db'[x] = db[x] \/ db'[x].verdict = "none"
        BY <1>a, <3>2, <4>1 DEF begin_revalidation, TypeOK, RunRecords
      <4> QED BY <1>b, <2>3, <4>2 DEF Reset
    <3> QED BY <2>3, <3>1, <3>2 DEF Reset
  <2>4. CASE ApproveWrite(c)
    <3>1. req[c].run \in Runs
      BY <2>4 DEF ApproveWrite, TypeOK, Requests
    <3>2. \A x \in Runs : /\ db'[x].verdict = db[x].verdict
                           /\ db'[x].evidence = db[x].evidence
                           /\ db'[x].gen = db[x].gen
      BY <1>a, <2>4, <3>1 DEF ApproveWrite, TypeOK, RunRecords
    <3> QED BY <1>b, <2>4, <3>2 DEF ApproveWrite
  <2>5. CASE UNCHANGED <<db, mem>>
    BY <1>b, <2>5
  <2> QED
    BY <1>1, <2>1, <2>2, <2>3, <2>4, <2>5
    DEF RequestStep, NewRequest, ModernizeSlot, AddRunFails, RevalidateCheck,
        RevalidateSlot, ApproveLoad, ApproveVerify, DownloadLoad, DownloadRead
<1>2. CASE \E r \in Runs : DiskChange(r)
  BY <1>b, <1>2 DEF DiskChange
<1>3. CASE Restart \/ OtherProcessStarts
  <2>1. \A x \in Runs : /\ db'[x].verdict = db[x].verdict
                         /\ db'[x].evidence = db[x].evidence
                         /\ db'[x].gen = db[x].gen
    BY <1>a, <1>3 DEF Restart, OtherProcessStarts, mark_interrupted_runs,
       RunRecords
  <2>2. \A a \in Attempts : mem'[a] = mem[a] \/ mem'[a].verdict = "none"
    BY <1>3, <1>c DEF Restart, OtherProcessStarts
  <2> QED BY <2>1, <2>2 DEF VerdictInvariant, VerdictOfThisAttempt
<1> QED BY <1>1, <1>2, <1>3

\* A stored verdict is the verdict of the current attempt, whatever fails and
\* however many processes share the store.
THEOREM VerdictIsOfThisAttempt == Spec => []VerdictOfThisAttempt
<1>1. Init => VerdictInvariant
  BY DEF Init, VerdictInvariant, VerdictOfThisAttempt, NoRun, NoMem
<1>2. VerdictInvariant /\ TypeOK /\ [Next]_vars => VerdictInvariant'
  <2> SUFFICES ASSUME VerdictInvariant, TypeOK, [Next]_vars
               PROVE  VerdictInvariant'
    OBVIOUS
  <2>1. CASE UNCHANGED vars
    BY <2>1 DEF vars, VerdictInvariant, VerdictOfThisAttempt
  <2> QED BY <2>1, VerdictWorker, VerdictOthers DEF Next
<1>3. VerdictInvariant => VerdictOfThisAttempt
  BY DEF VerdictInvariant
<1> QED BY TypeCorrect, <1>1, <1>2, <1>3, PTL DEF Spec

-----------------------------------------------------------------------------
(* The trail of decisions, whatever processes share the store.             *)

\* A step that writes neither decisions nor the trail.
LeavesDecisions ==
  \A x \in Runs : /\ db'[x].approval = db[x].approval
                  /\ db'[x].event = db[x].event

\* Workers write stages, verdicts, proofs and seals, never a decision.
LEMMA TrailWorker ==
  ASSUME TypeOK, NEW a \in Attempts, WorkerStep(a)
  PROVE  LeavesDecisions
<1> DEFINE r == a[1]
<1>a. r \in Runs /\ \A x \in Runs : db[x] \in RunRecords
  BY DEF TypeOK, Attempts
<1>b. ASSUME NEW m, update_run(r, m)
      PROVE  LeavesDecisions
  BY <1>a, <1>b DEF update_run, LeavesDecisions, TypeOK, RunRecords
<1>c. ASSUME UNCHANGED db PROVE LeavesDecisions
  BY <1>c DEF LeavesDecisions
<1>d. ASSUME NEW m, Progress(a, m) PROVE LeavesDecisions
  BY <1>b, <1>c, <1>d DEF Progress
<1>1. CASE GenerationPhase(a) \/ ExecuteOracle(a) \/ StartBuild(a)
             \/ Build(a) \/ Compare(a) \/ DeriveVerdict(a)
  BY <1>1, <1>c, <1>d
  DEF GenerationPhase, ExecuteOracle, StartBuild, Build, Compare,
      DeriveVerdict
<1>2. CASE InterimSeal(a) \/ StoreSeal(a)
  <2>1. CASE \E s : db' = [db EXCEPT ![r].seal = s]
    BY <1>a, <2>1 DEF LeavesDecisions, TypeOK, RunRecords
  <2> QED BY <1>2, <1>c, <2>1 DEF InterimSeal, StoreSeal
<1>3. CASE RecordBundle(a)
  <2>1. CASE db' = [db EXCEPT ![r].recorded = TRUE]
    BY <1>a, <2>1 DEF LeavesDecisions, TypeOK, RunRecords
  <2> QED BY <1>3, <1>c, <2>1 DEF RecordBundle
<1>4. CASE SaveVerdict(a) \/ PersistFinal(a)
  BY <1>4, <1>b, <1>c DEF SaveVerdict, PersistFinal
<1>5. CASE Load(a) \/ GenerationDone(a) \/ ProveAndSeal(a)
             \/ PipelineRaises(a) \/ Release(a)
  BY <1>5, <1>c
  DEF Load, GenerationDone, ProveAndSeal, PipelineRaises, Release
<1> QED BY <1>1, <1>2, <1>3, <1>4, <1>5 DEF WorkerStep

\* Requests write a decision and its row of the trail in one transaction.
LEMMA TrailRequest ==
  ASSUME TypeOK, TrailExplainsDecision, NEW c \in Clients,
         RequestStep(c) \/ NewRequest(c)
  PROVE  TrailExplainsDecision'
<1>a. \A x \in Runs : db[x] \in RunRecords
  BY DEF TypeOK
<1>b. ASSUME LeavesDecisions PROVE TrailExplainsDecision'
  BY <1>b DEF LeavesDecisions, TrailExplainsDecision
<1>c. ASSUME UNCHANGED db PROVE TrailExplainsDecision'
  BY <1>c DEF TrailExplainsDecision
<1>1. CASE \E r \in Runs : AddRun(c, r)
  <2>1. LeavesDecisions
    BY <1>1, <1>a DEF AddRun, LeavesDecisions, TypeOK, RunRecords
  <2> QED BY <1>b, <2>1
<1>2. CASE Reset(c)
  <2> DEFINE r == req[c].run
  <2>1. r \in Runs
    BY <1>2 DEF Reset, TypeOK, Requests
  <2>2. CASE begin_revalidation(r)
    <3>1. /\ db'[r].approval = "PENDING"
          /\ db'[r].event = IF db[r].approval = "PENDING"
                              THEN db[r].event ELSE "RESET"
          /\ \A x \in Runs \ {r} : db'[x] = db[x]
      BY <1>a, <2>1, <2>2 DEF begin_revalidation, TypeOK, RunRecords
    <3>2. db[r].approval = "PENDING" => db[r].event \in {"none", "RESET"}
      BY <1>a, <2>1 DEF TrailExplainsDecision, RunRecords
    <3> QED BY <3>1, <3>2 DEF TrailExplainsDecision
  <2> QED BY <1>2, <1>c, <2>2 DEF Reset
<1>3. CASE ApproveWrite(c)
  <2> DEFINE r == req[c].run
  <2>1. r \in Runs
    BY <1>3 DEF ApproveWrite, TypeOK, Requests
  <2>2. CASE db' = [db EXCEPT ![r].approval = "APPROVED",
                              ![r].event = "APPROVED"]
    <3>1. /\ db'[r].approval = "APPROVED" /\ db'[r].event = "APPROVED"
          /\ \A x \in Runs \ {r} : db'[x] = db[x]
      BY <1>a, <2>1, <2>2 DEF TypeOK, RunRecords
    <3> QED BY <3>1 DEF TrailExplainsDecision
  <2> QED BY <1>3, <1>c, <2>2 DEF ApproveWrite
<1>4. CASE \E r \in Runs : RejectRun(c, r)
  <2>1. PICK r \in Runs : RejectRun(c, r)
    BY <1>4
  <2>2. /\ db'[r].approval = "REJECTED" /\ db'[r].event = "REJECTED"
        /\ \A x \in Runs \ {r} : db'[x] = db[x]
    BY <1>a, <2>1 DEF RejectRun, TypeOK, RunRecords
  <2> QED BY <2>2 DEF TrailExplainsDecision
<1>5. CASE UNCHANGED db
  BY <1>5, <1>c
<1> QED
  BY <1>1, <1>2, <1>3, <1>4, <1>5
  DEF RequestStep, NewRequest, ModernizeSlot, AddRunFails, RevalidateCheck,
      RevalidateSlot, Launch, ApproveLoad, ApproveVerify, DownloadLoad,
      DownloadRead

\* A restart, of this process or another, marks runs and decides nothing.
LEMMA TrailEnvironment ==
  ASSUME TypeOK, Restart \/ OtherProcessStarts \/ \E r \in Runs : DiskChange(r)
  PROVE  LeavesDecisions
<1>1. \A x \in Runs : db[x] \in RunRecords
  BY DEF TypeOK
<1>2. CASE mark_interrupted_runs
  BY <1>1, <1>2 DEF mark_interrupted_runs, LeavesDecisions, RunRecords
<1>3. CASE UNCHANGED db
  BY <1>3 DEF LeavesDecisions
<1> QED BY <1>2, <1>3 DEF Restart, OtherProcessStarts, DiskChange

\* The last event of the approval trail explains the decision shown on every
\* run, whatever fails and however many processes share the store.
THEOREM TrailIsComplete == Spec => []TrailExplainsDecision
<1>1. Init => TrailExplainsDecision
  BY DEF Init, TrailExplainsDecision, NoRun
<1>2. TrailExplainsDecision /\ TypeOK /\ [Next]_vars => TrailExplainsDecision'
  <2> SUFFICES ASSUME TrailExplainsDecision, TypeOK, [Next]_vars
               PROVE  TrailExplainsDecision'
    OBVIOUS
  <2>1. CASE UNCHANGED vars
    BY <2>1 DEF vars, TrailExplainsDecision
  <2>2. CASE LeavesDecisions
    BY <2>2 DEF LeavesDecisions, TrailExplainsDecision
  <2> QED BY <2>1, <2>2, TrailWorker, TrailRequest, TrailEnvironment DEF Next
<1> QED BY TypeCorrect, <1>1, <1>2, PTL DEF Spec

-----------------------------------------------------------------------------
(* The result of a terminal run is final in a single process.              *)

\* What a reader of a terminal run sees of its result stays.
KeepsResult(r) ==
  /\ db'[r].stage = db[r].stage
  /\ db'[r].verdict = db[r].verdict
  /\ db'[r].seal = db[r].seal
  /\ db'[r].proof = db[r].proof

\* A worker writes no row but its own run's, and only while it is in flight.
LEMMA WorkerWritesItsRun ==
  ASSUME TypeOK, NEW a \in Attempts, WorkerStep(a)
  PROVE  /\ \A x \in Runs \ {a[1]} : db'[x] = db[x]
         /\ pc[a] \in Writing \/ UNCHANGED db
<1>a. a[1] \in Runs
  BY DEF Attempts
<1>b. ASSUME NEW row, db' = [db EXCEPT ![a[1]] = row]
      PROVE  \A x \in Runs \ {a[1]} : db'[x] = db[x]
  BY <1>a, <1>b DEF TypeOK
<1>c. ASSUME NEW m, update_run(a[1], m)
      PROVE  \A x \in Runs \ {a[1]} : db'[x] = db[x]
  BY <1>b, <1>c DEF update_run
<1>d. ASSUME NEW m, Progress(a, m)
      PROVE  \A x \in Runs \ {a[1]} : db'[x] = db[x]
  BY <1>c, <1>d DEF Progress
<1>1. CASE GenerationPhase(a) \/ ExecuteOracle(a) \/ StartBuild(a)
             \/ Build(a) \/ Compare(a) \/ DeriveVerdict(a)
  BY <1>1, <1>d
  DEF GenerationPhase, ExecuteOracle, StartBuild, Build, Compare,
      DeriveVerdict, Writing
<1>2. CASE InterimSeal(a) \/ StoreSeal(a)
  BY <1>2, <1>b DEF InterimSeal, StoreSeal, Writing
<1>3. CASE RecordBundle(a)
  BY <1>3, <1>b DEF RecordBundle, Writing
<1>4. CASE SaveVerdict(a) \/ PersistFinal(a)
  BY <1>4, <1>c DEF SaveVerdict, PersistFinal, Writing
<1>5. CASE Load(a) \/ GenerationDone(a) \/ ProveAndSeal(a)
             \/ PipelineRaises(a) \/ Release(a)
  BY <1>5 DEF Load, GenerationDone, ProveAndSeal, PipelineRaises, Release
<1> QED BY <1>1, <1>2, <1>3, <1>4, <1>5 DEF WorkerStep

\* No step but a new attempt changes the result of a terminal run.
LEMMA ResultStep ==
  ASSUME TypeOK, SingleFlight, ~SecondProcess, [Next]_vars,
         NEW r \in Runs, Terminal(r), db'[r].gen = db[r].gen
  PROVE  KeepsResult(r)
<1>a. \A x \in Runs : db[x] \in RunRecords
  BY DEF TypeOK
<1>b. ASSUME db'[r] = db[r] PROVE KeepsResult(r)
  BY <1>b DEF KeepsResult
<1>1. CASE \E a \in Attempts : WorkerStep(a)
  <2>1. PICK a \in Attempts : WorkerStep(a)
    BY <1>1
  <2>2. CASE a[1] = r
    <3>1. pc[a] \notin Writing
      BY <2>2 DEF SingleFlight
    <3> QED BY <1>b, <2>1, <3>1, WorkerWritesItsRun
  <2> QED BY <1>b, <2>1, <2>2, WorkerWritesItsRun
<1>2. CASE \E c \in Clients : RequestStep(c) \/ NewRequest(c)
  <2>1. PICK c \in Clients : RequestStep(c) \/ NewRequest(c)
    BY <1>2
  <2>2. CASE \E x \in Runs : AddRun(c, x)
    <3>1. PICK x \in Runs : AddRun(c, x)
      BY <2>2
    <3>2. x # r
      BY <3>1, StageFacts DEF AddRun, Exists, Terminal
    <3> QED BY <1>b, <3>1, <3>2 DEF AddRun, TypeOK
  <2>3. CASE Reset(c)
    <3> DEFINE x == req[c].run
    <3>1. x \in Runs
      BY <2>3 DEF Reset, TypeOK, Requests
    <3>2. CASE begin_revalidation(x)
      <4>1. db'[x].gen = db[x].gen + 1
        BY <1>a, <3>1, <3>2 DEF begin_revalidation, TypeOK, RunRecords
      <4>2. db[x].gen \in Int
        BY <1>a, <3>1, BoundsAssumption DEF RunRecords, Gens
      <4>3. x # r
        BY <4>1, <4>2
      <4> QED BY <1>b, <3>1, <3>2, <4>3 DEF begin_revalidation, TypeOK
    <3> QED BY <2>3, <3>2, <1>b DEF Reset
  <2>4. CASE ApproveWrite(c)
    <3>1. CASE UNCHANGED db
      BY <1>b, <3>1
    <3>2. CASE db' = [db EXCEPT ![req[c].run].approval = "APPROVED",
                                ![req[c].run].event = "APPROVED"]
      BY <1>a, <3>2 DEF KeepsResult, TypeOK, RunRecords
    <3> QED BY <2>4, <3>1, <3>2 DEF ApproveWrite
  <2>5. CASE \E x \in Runs : RejectRun(c, x)
    BY <1>a, <2>5 DEF RejectRun, KeepsResult, TypeOK, RunRecords
  <2>6. CASE UNCHANGED db
    BY <1>b, <2>6
  <2> QED
    BY <2>1, <2>2, <2>3, <2>4, <2>5, <2>6
    DEF RequestStep, NewRequest, ModernizeSlot, AddRunFails, RevalidateCheck,
        RevalidateSlot, Launch, ApproveLoad, ApproveVerify, DownloadLoad,
        DownloadRead
<1>3. CASE \E x \in Runs : DiskChange(x)
  BY <1>b, <1>3 DEF DiskChange
<1>4. CASE Restart
  BY <1>b, <1>4 DEF Restart, mark_interrupted_runs
<1>5. CASE UNCHANGED vars
  BY <1>b, <1>5 DEF vars
<1> QED BY <1>1, <1>2, <1>3, <1>4, <1>5 DEF Next, OtherProcessStarts

\* The result of a terminal run changes only through a new attempt
\* (begin_revalidation): no late worker rewrites it.
THEOREM ResultIsFinal ==
  ASSUME ~SecondProcess
  PROVE  Spec => TerminalResultIsFinal
<1>1. CertificationInvariant /\ TypeOK /\ [Next]_vars =>
        [\A r \in Runs :
           Terminal(r) /\ db'[r].gen = db[r].gen =>
             /\ db'[r].stage = db[r].stage
             /\ db'[r].verdict = db[r].verdict
             /\ db'[r].seal = db[r].seal
             /\ db'[r].proof = db[r].proof]_vars
  BY ResultStep DEF CertificationInvariant, KeepsResult
<1> QED
  BY TypeCorrect, CertificationHolds, <1>1, PTL
  DEF Spec, TerminalResultIsFinal

-----------------------------------------------------------------------------
(* The control plane implements the abstract run in a single process.      *)

\* What was signed off in the attempt a run is in is what the row still says:
\* an attempt has one seal once it has a verdict.
SignedOnce ==
  \A s \in signed :
    /\ s.gen <= db[s.run].gen
    /\ s.gen = db[s.run].gen =>
         db[s.run].verdict = "VERIFIED" /\ db[s.run].seal = s.content

\* A row that goes to a new attempt, or keeps the verdict it has and its seal.
KeepsSeal(r) ==
  \/ db'[r].gen = db[r].gen + 1
  \/ /\ db'[r].gen = db[r].gen
     /\ db[r].verdict # "none" =>
          db'[r].verdict = db[r].verdict /\ db'[r].seal = db[r].seal

\* Only a new attempt clears a verdict or the seal beside it.
LEMMA SealStep ==
  ASSUME TypeOK, TypeOK', CertificationInvariant, ~SecondProcess, [Next]_vars,
         NEW r \in Runs
  PROVE  KeepsSeal(r)
<1>a. \A x \in Runs : db[x] \in RunRecords
  BY DEF TypeOK
<1>b. ASSUME db'[r] = db[r] PROVE KeepsSeal(r)
  BY <1>b DEF KeepsSeal
<1>1. CASE \E a \in Attempts : WorkerStep(a)
  <2>1. PICK a \in Attempts : WorkerStep(a)
    BY <1>1
  <2>2. CASE a[1] = r /\ pc[a] # "releasing"
    BY <2>1, <2>2, WorkerStepPost DEF WorkerPost, KeepsSeal
  <2>3. CASE a[1] # r \/ pc[a] = "releasing"
    BY <1>b, <2>1, <2>3, WorkerWritesItsRun DEF Writing
  <2> QED BY <2>2, <2>3
<1>2. CASE \E c \in Clients : RequestStep(c) \/ NewRequest(c)
  <2>1. PICK c \in Clients : RequestStep(c) \/ NewRequest(c)
    BY <1>2
  <2>2. CASE \E x \in Runs : AddRun(c, x)
    BY <1>a, <2>2 DEF AddRun, KeepsSeal, TypeOK, RunRecords
  <2>3. CASE Reset(c)
    <3> DEFINE x == req[c].run
    <3>1. x \in Runs
      BY <2>3 DEF Reset, TypeOK, Requests
    <3>2. CASE begin_revalidation(x) /\ x = r
      BY <1>a, <3>1, <3>2 DEF begin_revalidation, KeepsSeal, TypeOK, RunRecords
    <3>3. CASE begin_revalidation(x) /\ x # r
      BY <1>b, <3>1, <3>3 DEF begin_revalidation, TypeOK
    <3> QED BY <2>3, <3>2, <3>3, <1>b DEF Reset
  <2>4. CASE ApproveWrite(c)
    <3>1. CASE UNCHANGED db
      BY <1>b, <3>1
    <3>2. CASE db' = [db EXCEPT ![req[c].run].approval = "APPROVED",
                                ![req[c].run].event = "APPROVED"]
      BY <1>a, <3>2 DEF KeepsSeal, TypeOK, RunRecords
    <3> QED BY <2>4, <3>1, <3>2 DEF ApproveWrite
  <2>5. CASE \E x \in Runs : RejectRun(c, x)
    BY <1>a, <2>5 DEF RejectRun, KeepsSeal, TypeOK, RunRecords
  <2>6. CASE UNCHANGED db
    BY <1>b, <2>6
  <2> QED
    BY <2>1, <2>2, <2>3, <2>4, <2>5, <2>6
    DEF RequestStep, NewRequest, ModernizeSlot, AddRunFails, RevalidateCheck,
        RevalidateSlot, Launch, ApproveLoad, ApproveVerify, DownloadLoad,
        DownloadRead
<1>3. CASE \E x \in Runs : DiskChange(x)
  BY <1>b, <1>3 DEF DiskChange
<1>4. CASE Restart
  BY <1>a, <1>b, <1>4
  DEF Restart, mark_interrupted_runs, KeepsSeal, RunRecords
<1>5. CASE UNCHANGED vars
  BY <1>b, <1>5 DEF vars
<1> QED BY <1>1, <1>2, <1>3, <1>4, <1>5 DEF Next, OtherProcessStarts

\* A sign-off names the generation and the seal of the row it approves.
LEMMA SignedStep ==
  ASSUME TypeOK, CertificationInvariant, [Next]_vars, NEW s \in signed' \ signed
  PROVE  /\ s.run \in Runs /\ s.gen = db[s.run].gen
         /\ db[s.run].verdict = "VERIFIED" /\ db[s.run].seal = s.content
<1>1. CASE \E c \in Clients : ApproveWrite(c)
  <2>1. PICK c \in Clients : ApproveWrite(c)
    BY <1>1
  <2>2. /\ req[c].kind = "decide" /\ req[c].gen = db[req[c].run].gen
        /\ s = [run |-> req[c].run, gen |-> req[c].gen,
                content |-> req[c].seal]
    BY <2>1 DEF ApproveWrite, bound_write_accepts
  <2>3. req[c].run \in Runs
    BY <2>2 DEF TypeOK, Requests
  <2>4. db[req[c].run].verdict = "VERIFIED" /\ db[req[c].run].seal = req[c].seal
    BY <2>2, <2>3 DEF CertificationInvariant, RequestKnowledge, Relies
  <2> QED BY <2>2, <2>3, <2>4
<1>2. CASE UNCHANGED signed
  BY <1>2
<1>3. ASSUME NEW a \in Attempts, WorkerStep(a) PROVE UNCHANGED signed
  BY <1>3
  DEF WorkerStep, Load, GenerationPhase, GenerationDone, InterimSeal,
      RecordBundle, ExecuteOracle, StartBuild, Build, Compare, DeriveVerdict,
      ProveAndSeal, StoreSeal, SaveVerdict, PipelineRaises, PersistFinal,
      Release
<1>4. ASSUME NEW c \in Clients, RequestStep(c) \/ NewRequest(c),
             ~ApproveWrite(c)
      PROVE  UNCHANGED signed
  BY <1>4
  DEF RequestStep, NewRequest, ModernizeSlot, AddRun, AddRunFails,
      RevalidateCheck, RevalidateSlot, Reset, Launch, ApproveLoad,
      ApproveVerify, RejectRun, DownloadLoad, DownloadRead
<1> QED
  BY <1>1, <1>2, <1>3, <1>4
  DEF Next, DiskChange, Restart, OtherProcessStarts, vars

\* At most one tree is signed off per attempt, and it is the sealed one.
LEMMA SignedOnceStep ==
  ASSUME TypeOK, TypeOK', CertificationInvariant, SignedOnce, ~SecondProcess,
         [Next]_vars
  PROVE  SignedOnce'
<1> SUFFICES ASSUME NEW s \in signed'
             PROVE  /\ s.gen <= db'[s.run].gen
                    /\ s.gen = db'[s.run].gen =>
                         /\ db'[s.run].verdict = "VERIFIED"
                         /\ db'[s.run].seal = s.content
  BY DEF SignedOnce
<1>1. /\ s.run \in Runs /\ s.gen \in Int
      /\ db[s.run].gen \in Int
  BY BoundsAssumption DEF TypeOK, Artifacts, RunRecords, Gens
<1>2. /\ s.gen <= db[s.run].gen
      /\ s.gen = db[s.run].gen =>
           db[s.run].verdict = "VERIFIED" /\ db[s.run].seal = s.content
  <2>1. CASE s \in signed
    BY <2>1 DEF SignedOnce
  <2>2. CASE s \notin signed
    BY <1>1, <2>2, SignedStep
  <2> QED BY <2>1, <2>2
<1>3. KeepsSeal(s.run)
  BY <1>1, SealStep
<1> QED BY <1>1, <1>2, <1>3 DEF KeepsSeal

\* A row that changes nothing the customer is promised.
KeepsPromise(r) ==
  /\ Status(r)' = Status(r)
  /\ db'[r].gen = db[r].gen
  /\ db'[r].verdict = db[r].verdict
  /\ db'[r].approval = db[r].approval

\* A step that keeps every row and both histories is a stutter of the abstract
\* run.
LEMMA CertifiedStutter ==
  ASSUME \A r \in Runs : db'[r] = db[r] \/ KeepsPromise(r),
         UNCHANGED <<signed, exported>>
  PROVE  UNCHANGED CE!certifiedVars
<1>1. \A r \in Runs : KeepsPromise(r)
  BY DEF KeepsPromise, Status, Exists, Terminal
<1> QED BY <1>1 DEF KeepsPromise, CE!certifiedVars

\* A worker in flight takes its attempt further or ends it, and never replaces
\* a verdict.
LEMMA CertifiedWork ==
  ASSUME NEW r \in Runs, Status(r) = "working",
         Status(r)' \in {"working", "ended"},
         db'[r].verdict \in {"none", "VERIFIED", "OTHER"},
         db[r].verdict \in {"none", db'[r].verdict},
         db'[r].gen = db[r].gen, db'[r].approval = db[r].approval,
         \A x \in Runs \ {r} : db'[x] = db[x],
         UNCHANGED <<signed, exported>>
  PROVE  CE!Next
<1>1. \A x \in Runs \ {r} : KeepsPromise(x)
  BY DEF KeepsPromise, Status, Exists, Terminal
<1>2. PICK s \in {"working", "ended"} : s = Status(r)'
  OBVIOUS
<1>3. PICK v \in {"none", "VERIFIED", "OTHER"} : v = db'[r].verdict
  OBVIOUS
<1>4. CE!Work(r, s, v)
  BY <1>1, <1>2, <1>3 DEF CE!Work, KeepsPromise
<1> QED BY <1>4 DEF CE!Next

\* Every step of a worker is a step of the abstract attempt, or none.
LEMMA CertifiedWorker ==
  ASSUME TypeOK, TypeOK', CertificationInvariant, NEW a \in Attempts,
         WorkerStep(a)
  PROVE  CE!Next \/ UNCHANGED CE!certifiedVars
<1>1. CASE pc[a] = "releasing"
  <2>1. Release(a)
    BY <1>1 DEF WorkerStep, Load, GenerationPhase, GenerationDone,
       InterimSeal, RecordBundle, ExecuteOracle, StartBuild, Build, Compare,
       DeriveVerdict, ProveAndSeal, StoreSeal, SaveVerdict, PipelineRaises,
       PersistFinal
  <2>2. UNCHANGED <<db, signed, exported>>
    BY <2>1 DEF Release
  <2> QED BY <2>2, CertifiedStutter
<1>2. CASE pc[a] # "releasing"
  <2> DEFINE r == a[1]
  <2>1. r \in Runs
    BY DEF Attempts
  <2>2. pc[a] \in Writing /\ WorkerPost(a)
    BY <1>2, WorkerStepPost
  <2>3. Status(r) = "working"
    BY <2>2 DEF CertificationInvariant, SingleFlight, Status
  <2>4. Status(r)' \in {"working", "ended"}
    BY <2>2 DEF WorkerPost, Status, Exists
  <2>5. /\ db'[r].gen = db[r].gen /\ db'[r].approval = db[r].approval
        /\ \A x \in Runs \ {r} : db'[x] = db[x]
        /\ UNCHANGED <<signed, exported>>
        /\ db[r].verdict \in {"none", db'[r].verdict}
    BY <2>2 DEF WorkerPost
  <2>6. db'[r].verdict \in {"none", "VERIFIED", "OTHER"}
    BY <2>1 DEF TypeOK, RunRecords, Verdicts
  <2> HIDE DEF r
  <2> QED BY <2>1, <2>3, <2>4, <2>5, <2>6, CertifiedWork
<1> QED BY <1>1, <1>2

\* modernize starts the first attempt of a run and revalidate the next one.
LEMMA CertifiedStart ==
  ASSUME TypeOK, CertificationInvariant, NEW c \in Clients,
         (\E r \in Runs : AddRun(c, r)) \/ Reset(c)
  PROVE  CE!Next \/ UNCHANGED CE!certifiedVars
<1>a. "CREATED" # "none" /\ "CREATED" \notin TERMINAL_STAGES
  BY DEF TERMINAL_STAGES
<1>b. \A x \in Runs : db[x] \in RunRecords
  BY DEF TypeOK
<1>1. CASE \E r \in Runs : AddRun(c, r)
  <2>1. PICK r \in Runs : AddRun(c, r)
    BY <1>1
  <2>2. /\ db'[r].stage = "CREATED" /\ db'[r].gen = db[r].gen
        /\ db'[r].verdict = db[r].verdict /\ db'[r].approval = db[r].approval
        /\ \A x \in Runs \ {r} : db'[x] = db[x]
        /\ UNCHANGED <<signed, exported>>
    BY <1>b, <2>1 DEF AddRun, TypeOK, RunRecords
  <2>3. Status(r) = "absent" /\ Status(r)' = "working"
    BY <1>a, <2>1, <2>2 DEF AddRun, Status, Exists, Terminal
  <2>4. \A x \in Runs \ {r} : KeepsPromise(x)
    BY <2>2 DEF KeepsPromise, Status, Exists, Terminal
  <2>5. CE!Start(r)
    BY <2>2, <2>3, <2>4 DEF CE!Start, KeepsPromise
  <2> QED BY <2>5 DEF CE!Next
<1>2. CASE Reset(c)
  <2>0. PICK r \in Runs : r = req[c].run
    BY <1>2 DEF Reset, TypeOK, Requests
  <2>1. UNCHANGED <<signed, exported>>
    BY <1>2 DEF Reset
  <2>2. CASE UNCHANGED db
    BY <2>1, <2>2, CertifiedStutter
  <2>3. CASE Terminal(r) /\ db[r].gen < MaxGeneration /\ begin_revalidation(r)
    <3>1. /\ db'[r].stage = "CREATED" /\ db'[r].gen = db[r].gen + 1
          /\ db'[r].verdict = "none" /\ db'[r].approval = "PENDING"
          /\ \A x \in Runs \ {r} : db'[x] = db[x]
      BY <1>b, <2>3 DEF begin_revalidation, TypeOK, RunRecords
    <3>2. Status(r) = "ended" /\ Status(r)' = "working"
      BY <1>a, <2>3, <3>1 DEF Status, Exists, Terminal, TERMINAL_STAGES
    <3>3. \A x \in Runs \ {r} : KeepsPromise(x)
      BY <3>1 DEF KeepsPromise, Status, Exists, Terminal
    <3>4. CE!Retry(r)
      BY <2>1, <2>3, <3>1, <3>2, <3>3 DEF CE!Retry, KeepsPromise
    <3> QED BY <3>4 DEF CE!Next
  <2> QED BY <1>2, <2>0, <2>2, <2>3 DEF Reset
<1> QED BY <1>1, <1>2

\* What a customer decides on and what a download hands out is what the
\* abstract run allows: the gates of the requests still hold when they act.
LEMMA CertifiedDecision ==
  ASSUME TypeOK, CertificationInvariant, SignedOnce, NEW c \in Clients,
         \/ ApproveWrite(c) \/ DownloadRead(c)
         \/ \E r \in Runs : RejectRun(c, r)
  PROVE  CE!Next \/ UNCHANGED CE!certifiedVars
<1>b. \A x \in Runs : db[x] \in RunRecords
  BY DEF TypeOK
<1>1. CASE ApproveWrite(c)
  <2>0. req[c].kind = "decide" /\ UNCHANGED exported
    BY <1>1 DEF ApproveWrite
  <2>1. CASE UNCHANGED <<db, signed>>
    BY <2>0, <2>1, CertifiedStutter
  <2>2. CASE /\ bound_write_accepts(req[c].run, req[c].gen)
             /\ db' = [db EXCEPT ![req[c].run].approval = "APPROVED",
                                 ![req[c].run].event = "APPROVED"]
             /\ signed' = signed \cup
                  {[run |-> req[c].run, gen |-> req[c].gen,
                    content |-> req[c].seal]}
    <3>1. PICK r \in Runs : r = req[c].run
      BY <2>0 DEF TypeOK, Requests
    <3>2. /\ req[c].gen = db[r].gen /\ db[r].verdict = "VERIFIED"
          /\ db[r].seal = req[c].seal /\ req[c].seal \in TreesOf(req[c].gen)
      BY <2>0, <2>2, <3>1
      DEF CertificationInvariant, RequestKnowledge, Relies, bound_write_accepts
    <3>3. /\ db'[r].stage = db[r].stage /\ db'[r].gen = db[r].gen
          /\ db'[r].verdict = db[r].verdict /\ db'[r].approval = "APPROVED"
          /\ \A x \in Runs \ {r} : db'[x] = db[x]
      BY <1>b, <2>2, <3>1 DEF TypeOK, RunRecords
    <3>4. /\ Status(r)' = Status(r)
          /\ \A x \in Runs \ {r} : KeepsPromise(x)
      BY <3>3 DEF KeepsPromise, Status, Exists, Terminal
    <3>5. signed' = signed \cup
            {[run |-> r, gen |-> db[r].gen, content |-> db[r].seal]}
      BY <2>2, <3>1, <3>2
    <3>6. /\ db[r].gen \in Gens
          /\ db[r].seal \in [g \in Gens |-> TreesOf(g)][db[r].gen]
      BY <1>b, <3>2 DEF RunRecords
    <3>7. \A s \in signed : s.run = r /\ s.gen = db[r].gen =>
                             s.content = db[r].seal
      BY DEF SignedOnce
    <3>8. CE!Approve(r)
      BY <2>0, <3>2, <3>3, <3>4, <3>5, <3>6, <3>7 DEF CE!Approve, KeepsPromise
    <3> QED BY <3>8 DEF CE!Next
  <2> QED BY <1>1, <2>1, <2>2 DEF ApproveWrite
<1>2. CASE \E r \in Runs : RejectRun(c, r)
  <2>1. PICK r \in Runs : RejectRun(c, r)
    BY <1>2
  <2>2. /\ db'[r].stage = db[r].stage /\ db'[r].gen = db[r].gen
        /\ db'[r].verdict = db[r].verdict /\ db'[r].approval = "REJECTED"
        /\ \A x \in Runs \ {r} : db'[x] = db[x]
        /\ UNCHANGED <<signed, exported>> /\ Exists(r)
    BY <1>b, <2>1 DEF RejectRun, TypeOK, RunRecords
  <2>3. /\ Status(r)' = Status(r) /\ Status(r) # "absent"
        /\ \A x \in Runs \ {r} : KeepsPromise(x)
    BY <2>2 DEF KeepsPromise, Status, Exists, Terminal
  <2>4. CE!Reject(r)
    BY <2>2, <2>3 DEF CE!Reject, KeepsPromise
  <2> QED BY <2>4 DEF CE!Next
<1>3. CASE DownloadRead(c)
  <2>1. UNCHANGED <<db, signed>> /\ req[c].kind = "download"
    BY <1>3 DEF DownloadRead
  <2>2. CASE UNCHANGED exported
    BY <2>1, <2>2, CertifiedStutter
  <2>3. CASE /\ bundle[req[c].run] = req[c].seal
             /\ exported' = exported \cup
                  {[run |-> req[c].run, gen |-> req[c].gen,
                    content |-> bundle[req[c].run]]}
    <3> DEFINE tree == [run |-> req[c].run, gen |-> req[c].gen,
                        content |-> req[c].seal]
    <3>1. tree \in signed
      BY <2>1 DEF CertificationInvariant, RequestKnowledge, Relies
    <3>2. exported' = exported \cup {tree}
      BY <2>3
    <3> HIDE DEF tree
    <3>3. \A x \in Runs : KeepsPromise(x)
      BY <2>1 DEF KeepsPromise, Status, Exists, Terminal
    <3>4. CE!Export(tree)
      BY <2>1, <3>1, <3>2, <3>3 DEF CE!Export, KeepsPromise
    <3> QED BY <3>1, <3>4 DEF CE!Next
  <2> QED BY <1>3, <2>2, <2>3 DEF DownloadRead
<1> QED BY <1>1, <1>2, <1>3

\* A restart ends the attempts in progress, or finds the store locked and
\* leaves every run as it was.
LEMMA CertifiedRestart ==
  ASSUME TypeOK, Restart
  PROVE  CE!Next \/ UNCHANGED CE!certifiedVars
<1>1. UNCHANGED <<signed, exported>>
  BY DEF Restart
<1>2. CASE UNCHANGED db
  BY <1>1, <1>2, CertifiedStutter
<1>3. CASE mark_interrupted_runs
  <2>1. \A x \in Runs : db[x] \in RunRecords
    BY DEF TypeOK
  <2>2. ASSUME NEW x \in Runs
        PROVE  /\ Status(x)' = IF Status(x) = "working" THEN "ended"
                               ELSE Status(x)
               /\ db'[x].gen = db[x].gen /\ db'[x].verdict = db[x].verdict
               /\ db'[x].approval = db[x].approval
    <3>1. CASE Exists(x) /\ ~Terminal(x)
      BY <1>3, <2>1, <3>1
      DEF mark_interrupted_runs, Status, Exists, Terminal, RunRecords,
          TERMINAL_STAGES
    <3>2. CASE ~(Exists(x) /\ ~Terminal(x))
      <4>1. db'[x] = db[x]
        BY <1>3, <3>2 DEF mark_interrupted_runs
      <4> QED BY <3>2, <4>1 DEF Status, Exists, Terminal
    <3> QED BY <3>1, <3>2
  <2>3. CE!Interrupt
    BY <1>1, <2>2 DEF CE!Interrupt
  <2> QED BY <2>3 DEF CE!Next
<1> QED BY <1>2, <1>3 DEF Restart

\* Every step of a single process is a step of the abstract run, or none.
LEMMA CertifiedStep ==
  ASSUME TypeOK, TypeOK', CertificationInvariant, SignedOnce, [Next]_vars,
         ~SecondProcess
  PROVE  CE!Next \/ UNCHANGED CE!certifiedVars
<1>1. CASE UNCHANGED <<db, signed, exported>>
  BY <1>1, CertifiedStutter
<1>2. ASSUME NEW c \in Clients, RequestStep(c) \/ NewRequest(c)
      PROVE  CE!Next \/ UNCHANGED CE!certifiedVars
  BY <1>1, <1>2, CertifiedStart, CertifiedDecision
  DEF RequestStep, NewRequest, ModernizeSlot, AddRunFails, RevalidateCheck,
      RevalidateSlot, Launch, ApproveLoad, ApproveVerify, DownloadLoad
<1> QED
  BY <1>1, <1>2, CertifiedWorker, CertifiedRestart
  DEF Next, DiskChange, OtherProcessStarts, vars

\* In a single process the control plane implements what the customer is
\* promised, for any number of runs, attempts, clients and slots: one verdict
\* per attempt, sign-off of VERIFIED attempts only and of one tree of their own,
\* and no export without sign-off (store.py, service.py, app.py).
THEOREM RefinesCertifiedExport ==
  ASSUME ~SecondProcess
  PROVE  Spec => CertifiedExportSpec
<1>1. Init => CE!Init
  <2> SUFFICES ASSUME Init PROVE CE!Init
    OBVIOUS
  <2>1. \A r \in Runs : db[r] = NoRun
    BY DEF Init
  <2>2. \A r \in Runs : Status(r) = "absent"
    BY <2>1 DEF NoRun, Status, Exists
  <2> QED BY <2>1, <2>2 DEF Init, NoRun, CE!Init
<1>2. TypeOK /\ TypeOK' /\ CertificationInvariant /\ SignedOnce
        /\ [Next]_vars => [CE!Next]_(CE!certifiedVars)
  BY CertifiedStep
<1>3. Init => SignedOnce
  BY DEF Init, SignedOnce
<1>4. TypeOK /\ TypeOK' /\ CertificationInvariant /\ SignedOnce
        /\ [Next]_vars => SignedOnce'
  BY SignedOnceStep
<1> QED
  BY <1>1, <1>2, <1>3, <1>4, TypeCorrect, CertificationHolds, PTL
  DEF Spec, CertifiedExportSpec, CE!Spec

-----------------------------------------------------------------------------
(* A completed run is whole in a single process.                           *)

\* What the views need of a row or of a worker's copy that becomes one.
ReadyToServe(m) ==
  /\ m.verdict # "none"
  /\ m.proof = IF m.report THEN m.gen ELSE NONE
  /\ m.seal # NONE
  /\ m.verdict = "VERIFIED" => m.seal \in TreesOf(m.gen)

\* A proof is only there beside the report of the generation it proves.
ProofNeedsReport(m) == m.report \/ m.proof = NONE

\* A copy that is about to be saved, or that completed its run, is whole; the
\* seal of a completed one is already in the table.
Finished(a) ==
  /\ pc[a] \in {"storing", "saving"} => ReadyToServe(mem[a])
  /\ mem[a].stage = "COMPLETED" =>
       /\ pc[a] = "finishing"
       /\ ReadyToServe(mem[a])
       /\ db[a[1]].seal = mem[a].seal

\* Strengthening of CompletedIsWhole: the workers' copies.
WholeInvariant ==
  /\ \A r \in Runs : /\ ProofNeedsReport(db[r])
                     /\ db[r].stage = "COMPLETED" => ReadyToServe(db[r])
  /\ \A a \in Attempts : ProofNeedsReport(mem[a]) /\ Finished(a)

\* A worker whose copy, program counter and row are in order preserves the
\* invariant: nobody else works on its run.
LEMMA WholeFrame ==
  ASSUME TypeOK, CertificationInvariant, WholeInvariant,
         NEW a \in Attempts, pc[a] \in Writing, NEW n, NEW l,
         \A x \in Runs \ {a[1]} : db'[x] = db[x],
         \A b \in Attempts : /\ mem'[b] = IF b = a THEN n ELSE mem[b]
                             /\ pc'[b] = IF b = a THEN l ELSE pc[b],
         ProofNeedsReport(n),
         l \in {"storing", "saving"} => ReadyToServe(n),
         n.stage = "COMPLETED" =>
           l = "finishing" /\ ReadyToServe(n) /\ db'[a[1]].seal = n.seal,
         ProofNeedsReport(db'[a[1]]),
         db'[a[1]].stage = "COMPLETED" => ReadyToServe(db'[a[1]])
  PROVE  WholeInvariant'
<1>1. \A b \in Attempts \ {a} : b[1] = a[1] => pc[b] \notin Writing
  BY OneThread DEF CertificationInvariant
<1>2. \A b \in Attempts : b[1] \in Runs
  BY DEF Attempts
<1>3. ASSUME NEW b \in Attempts PROVE Finished(b)'
  <2>1. CASE b = a
    BY <2>1 DEF Finished
  <2>2. CASE b # a /\ b[1] # a[1]
    BY <1>2, <2>2 DEF WholeInvariant, Finished
  <2>3. CASE b # a /\ b[1] = a[1]
    BY <1>1, <2>3 DEF WholeInvariant, Finished, Writing
  <2> QED BY <2>1, <2>2, <2>3
<1>4. \A b \in Attempts : ProofNeedsReport(mem[b])'
  BY DEF WholeInvariant, ProofNeedsReport
<1>5. ASSUME NEW x \in Runs
      PROVE  /\ ProofNeedsReport(db[x])'
             /\ (db[x].stage = "COMPLETED" => ReadyToServe(db[x]))'
  BY DEF WholeInvariant, ProofNeedsReport, ReadyToServe
<1> QED BY <1>3, <1>4, <1>5 DEF WholeInvariant

\* Every step of a worker keeps completed runs whole.
LEMMA WholeWorker ==
  ASSUME TypeOK, CertificationInvariant, WholeInvariant,
         NEW a \in Attempts, WorkerStep(a)
  PROVE  WholeInvariant'
<1> DEFINE r == a[1]
           m == mem[a]
           Copied(n) == \A b \in Attempts :
                          mem'[b] = IF b = a THEN n ELSE mem[b]
           At(l) == \A b \in Attempts :
                      pc'[b] = IF b = a THEN l ELSE pc[b]
           RowInOrder == /\ \A x \in Runs \ {r} : db'[x] = db[x]
                         /\ ProofNeedsReport(db'[r])
                         /\ db'[r].stage = "COMPLETED" =>
                              ReadyToServe(db'[r])
<1>a. r \in Runs /\ m \in Copies /\ db[r] \in RunRecords
  BY DEF TypeOK, Attempts
<1>b. ProofNeedsReport(m) /\ ProofNeedsReport(db[r]) /\ Finished(a)
  BY <1>a DEF WholeInvariant
<1>c. pc[a] \in Writing => /\ db[r].stage # "COMPLETED"
                           /\ db[r].gen = a[2]
  BY DEF CertificationInvariant, SingleFlight, Terminal, TERMINAL_STAGES
<1>d. ASSUME NEW n, mem' = [mem EXCEPT ![a] = n] PROVE Copied(n)
  BY <1>d DEF TypeOK
<1>e. ASSUME NEW l, Goto(a, l) PROVE At(l)
  BY <1>e DEF Goto, TypeOK
<1>f. UNCHANGED mem => Copied(m)
  OBVIOUS
<1>g. UNCHANGED pc => At(pc[a])
  OBVIOUS
<1>h. ASSUME pc[a] \in Writing, UNCHANGED db PROVE RowInOrder
  BY <1>b, <1>c, <1>h
<1>i. ASSUME pc[a] \in Writing,
             \/ \E s : db' = [db EXCEPT ![r].seal = s]
             \/ db' = [db EXCEPT ![r].recorded = TRUE]
      PROVE  RowInOrder
  <2>1. /\ db'[r].stage = db[r].stage /\ db'[r].proof = db[r].proof
        /\ db'[r].report = db[r].report
        /\ \A x \in Runs \ {r} : db'[x] = db[x]
    <3>1. CASE \E s : db' = [db EXCEPT ![r].seal = s]
      BY <1>a, <3>1 DEF TypeOK, RunRecords
    <3>2. CASE db' = [db EXCEPT ![r].recorded = TRUE]
      BY <1>a, <3>2 DEF TypeOK, RunRecords
    <3> QED BY <1>i, <3>1, <3>2
  <2> QED BY <1>b, <1>c, <1>i, <2>1 DEF ProofNeedsReport
<1>j. ASSUME NEW n, pc[a] \in Writing, update_run(r, n),
             ProofNeedsReport(n),
             n.stage = "COMPLETED" =>
               /\ ReadyToServe(n) /\ n.gen = db[r].gen
               /\ db[r].seal = n.seal
      PROVE  RowInOrder
  <2>1. /\ db'[r].stage = n.stage /\ db'[r].verdict = n.verdict
        /\ db'[r].proof = n.proof /\ db'[r].report = n.report
        /\ db'[r].gen = db[r].gen /\ db'[r].seal = db[r].seal
        /\ \A x \in Runs \ {r} : db'[x] = db[x]
    BY <1>a, <1>j DEF update_run, TypeOK, RunRecords
  <2> QED BY <1>j, <2>1 DEF ProofNeedsReport, ReadyToServe
<1>k. ASSUME NEW n, pc[a] \in Writing, Progress(a, n), n.stage # "COMPLETED",
             ProofNeedsReport(n)
      PROVE  Copied(n) /\ RowInOrder
  BY <1>d, <1>h, <1>j, <1>k DEF Progress
<1>l. ASSUME NEW n, NEW l, pc[a] \in Writing, Copied(n), At(l), RowInOrder,
             ProofNeedsReport(n), l \in {"storing", "saving"} => ReadyToServe(n),
             n.stage = "COMPLETED" =>
               l = "finishing" /\ ReadyToServe(n) /\ db'[r].seal = n.seal
      PROVE  WholeInvariant'
  BY <1>l, WholeFrame
<1>m. \A s : /\ [m EXCEPT !.stage = s].stage = s
             /\ ProofNeedsReport([m EXCEPT !.stage = s])
             /\ ReadyToServe(m) => ReadyToServe([m EXCEPT !.stage = s])
             /\ [m EXCEPT !.stage = s].seal = m.seal
  BY <1>a, <1>b DEF Copies, ProofNeedsReport, ReadyToServe
<1>n. pc[a] \in Writing \ {"finishing"} => m.stage # "COMPLETED"
  BY <1>b DEF Finished
<1> HIDE DEF Copied, At, RowInOrder
<1>o. ASSUME pc[a] \in Writing, Raise(a), UNCHANGED db PROVE WholeInvariant'
  <2> DEFINE n == [m EXCEPT !.stage = "FAILED"]
  <2>1. Copied(n) /\ At("finishing")
    BY <1>o, <1>d, <1>e DEF Raise
  <2>2. ProofNeedsReport(n) /\ n.stage # "COMPLETED"
    BY <1>m
  <2> HIDE DEF n
  <2> QED BY <2>1, <2>2, <1>h, <1>l, <1>o
<1>p. ASSUME NEW s, NEW l, pc[a] \in Writing, At(l),
             Progress(a, [m EXCEPT !.stage = s]), s # "COMPLETED",
             l \notin {"storing", "saving"}
      PROVE  WholeInvariant'
  <2> DEFINE n == [m EXCEPT !.stage = s]
  <2>1. ProofNeedsReport(n) /\ n.stage # "COMPLETED"
    BY <1>m, <1>p
  <2>2. Progress(a, n)
    BY <1>p
  <2> HIDE DEF n
  <2> QED BY <1>k, <1>l, <1>p, <2>1, <2>2
<1>1. CASE Load(a)
  <2> DEFINE copy == [NoMem EXCEPT !.gen = db[r].gen,
               !.verdict = db[r].verdict, !.evidence = db[r].evidence,
               !.proof = db[r].proof, !.report = db[r].report,
               !.seal = db[r].seal]
             late == [copy EXCEPT !.stage = "FAILED"]
  <2>1. /\ ProofNeedsReport(copy) /\ copy.stage # "COMPLETED"
        /\ ProofNeedsReport(late) /\ late.stage # "COMPLETED"
    BY <1>b DEF NoMem, ProofNeedsReport
  <2>2. /\ UNCHANGED db /\ pc[a] = "launched"
        /\ \/ mem' = [mem EXCEPT ![a] = copy]
           \/ mem' = [mem EXCEPT ![a] = late]
           \/ UNCHANGED mem
        /\ \E l \in {"generating", "validating", "finishing", "releasing"} :
             Goto(a, l)
    BY <1>1 DEF Load
  <2>3. pc[a] \in Writing /\ m.stage # "COMPLETED"
    BY <2>2, <1>n DEF Writing
  <2> HIDE DEF copy, late
  <2>4. PICK l \in {"generating", "validating", "finishing", "releasing"} : At(l)
    BY <2>2, <1>e
  <2>5. PICK n \in {copy, late, m} : Copied(n)
    BY <2>2, <1>d, <1>f
  <2> QED BY <1>b, <1>h, <1>l, <2>1, <2>2, <2>3, <2>4, <2>5
<1>2. CASE GenerationPhase(a)
  <2>1. PICK s \in Phases : Progress(a, [m EXCEPT !.stage = s])
    BY <1>2 DEF GenerationPhase, Ahead
  <2>2. s # "COMPLETED"
    BY BoundsAssumption DEF GENERATION_PHASES
  <2>3. pc[a] = "generating" /\ At(pc[a])
    BY <1>2, <1>g DEF GenerationPhase
  <2> QED BY <1>p, <2>1, <2>2, <2>3 DEF Writing
<1>3. CASE GenerationDone(a)
  <2> DEFINE n == [m EXCEPT !.report = TRUE]
             o == [m EXCEPT !.report = TRUE, !.stage = "FAILED"]
  <2>1. /\ ProofNeedsReport(n) /\ n.stage = m.stage
        /\ ProofNeedsReport(o) /\ o.stage = "FAILED"
    BY <1>a DEF Copies, ProofNeedsReport
  <2>2. /\ UNCHANGED db /\ pc[a] = "generating"
        /\ mem' = [mem EXCEPT ![a] = n] \/ mem' = [mem EXCEPT ![a] = o]
        /\ Goto(a, "sealing") \/ Goto(a, "finishing")
    BY <1>3 DEF GenerationDone
  <2>3. pc[a] \in Writing /\ m.stage # "COMPLETED"
    BY <2>2, <1>n DEF Writing
  <2> HIDE DEF n, o
  <2>4. PICK l \in {"sealing", "finishing"} : At(l)
    BY <2>2, <1>e
  <2>5. PICK x \in {n, o} : Copied(x)
    BY <2>2, <1>d
  <2> QED BY <1>h, <1>l, <2>1, <2>2, <2>3, <2>4, <2>5
<1>4. CASE InterimSeal(a)
  <2>1. pc[a] \in Writing /\ m.stage # "COMPLETED"
    BY <1>4, <1>n DEF InterimSeal, Writing
  <2>2. CASE /\ db' = [db EXCEPT ![r].seal = bundle[r]]
             /\ mem' = [mem EXCEPT ![a].seal = bundle[r]]
             /\ Goto(a, "recording")
    <3> DEFINE n == [m EXCEPT !.seal = bundle[r]]
    <3>1. ProofNeedsReport(n) /\ n.stage = m.stage
      BY <1>a, <1>b DEF Copies, ProofNeedsReport
    <3>2. Copied(n) /\ At("recording") /\ RowInOrder
      BY <2>1, <2>2, <1>d, <1>e, <1>i
    <3> HIDE DEF n
    <3> QED BY <1>l, <2>1, <3>1, <3>2
  <2> QED BY <1>4, <1>o, <2>1, <2>2 DEF InterimSeal
<1>5. CASE RecordBundle(a)
  <2>1. pc[a] \in Writing /\ m.stage # "COMPLETED"
    BY <1>5, <1>n DEF RecordBundle, Writing
  <2>2. CASE /\ db' = [db EXCEPT ![r].recorded = TRUE] /\ UNCHANGED mem
             /\ Goto(a, "validating")
    BY <1>b, <1>e, <1>f, <1>i, <1>l, <2>1, <2>2
  <2> QED BY <1>5, <1>o, <2>1, <2>2 DEF RecordBundle
<1>6. CASE ExecuteOracle(a)
  BY <1>6, <1>e, <1>p DEF ExecuteOracle, Writing
<1>7. CASE StartBuild(a)
  BY <1>7, <1>e, <1>p DEF StartBuild, Writing
<1>8. CASE Build(a)
  <2> DEFINE n == [m EXCEPT !.stage = "EXECUTING_GENERATED", !.built = TRUE]
  <2>1. ProofNeedsReport(n) /\ n.stage # "COMPLETED"
    BY <1>a, <1>b DEF Copies, ProofNeedsReport
  <2>2. Progress(a, n) \/ UNCHANGED <<db, mem>>
    BY <1>8 DEF Build
  <2>3. pc[a] \in Writing /\ m.stage # "COMPLETED" /\ At("comparing")
    BY <1>8, <1>e, <1>n DEF Build, Writing
  <2> HIDE DEF n
  <2> QED BY <1>b, <1>f, <1>h, <1>k, <1>l, <2>1, <2>2, <2>3
<1>9. CASE Compare(a)
  BY <1>9, <1>e, <1>p DEF Compare, Writing
<1>10. CASE DeriveVerdict(a)
  BY <1>10, <1>e, <1>p DEF DeriveVerdict, Writing
<1>11. CASE ProveAndSeal(a)
  <2>1. PICK v \in {"VERIFIED", "OTHER"}, p \in {m.proof, stamped_proof(m)} :
          /\ v = "VERIFIED" => m.built
          /\ \/ /\ bundle[r] # Absent
                /\ p = stamped_proof(m)
                /\ mem' = [mem EXCEPT ![a] = [m EXCEPT !.verdict = v,
                     !.evidence = m.gen, !.proof = p, !.seal = bundle[r]]]
                /\ Goto(a, "storing")
             \/ /\ mem' = [mem EXCEPT ![a] = [m EXCEPT !.verdict = v,
                     !.evidence = m.gen, !.proof = p, !.stage = "FAILED"]]
                /\ Goto(a, "finishing")
    BY <1>11 DEF ProveAndSeal
  <2>2. pc[a] = "proving" /\ UNCHANGED db
    BY <1>11 DEF ProveAndSeal
  <2>3. pc[a] \in Writing /\ m.stage # "COMPLETED"
    BY <2>2, <1>n DEF Writing
  <2>4. /\ m.gen = a[2]
        /\ m.built => bundle[r] \in TreesOf(a[2]) \cup {Absent}
    BY <2>2 DEF CertificationInvariant, WorkerKnowledge, Knows, Writing
  <2>5. bundle[r] # NONE
    BY <1>a, ContentFacts DEF TypeOK
  <2> DEFINE n == [m EXCEPT !.verdict = v, !.evidence = m.gen, !.proof = p,
                            !.seal = bundle[r]]
             o == [m EXCEPT !.verdict = v, !.evidence = m.gen, !.proof = p,
                            !.stage = "FAILED"]
  <2>6. /\ ProofNeedsReport(n) /\ n.stage = m.stage
        /\ ProofNeedsReport(o) /\ o.stage = "FAILED"
    BY <1>a, <1>b DEF Copies, ProofNeedsReport, stamped_proof
  <2>7. p = stamped_proof(m) /\ bundle[r] # Absent => ReadyToServe(n)
    <3>1. /\ n.verdict = v /\ n.proof = p /\ n.seal = bundle[r]
          /\ n.report = m.report /\ n.gen = m.gen
      BY <1>a DEF Copies
    <3> HIDE DEF n
    <3> QED BY <1>b, <2>1, <2>4, <2>5, <3>1
            DEF ReadyToServe, ProofNeedsReport, stamped_proof
  <2> HIDE DEF n, o
  <2>8. CASE /\ p = stamped_proof(m) /\ bundle[r] # Absent
             /\ Copied(n) /\ At("storing")
    BY <1>h, <1>l, <2>2, <2>3, <2>6, <2>7, <2>8
  <2>9. CASE Copied(o) /\ At("finishing")
    BY <1>h, <1>l, <2>2, <2>3, <2>6, <2>9
  <2> QED BY <1>d, <1>e, <2>1, <2>8, <2>9 DEF n, o
<1>12. CASE StoreSeal(a)
  <2>1. pc[a] \in Writing /\ m.stage # "COMPLETED" /\ ReadyToServe(m)
    BY <1>12, <1>b, <1>n DEF StoreSeal, Writing, Finished
  <2>2. CASE /\ db' = [db EXCEPT ![r].seal = m.seal] /\ UNCHANGED mem
             /\ Goto(a, "saving")
    <3>1. Copied(m) /\ At("saving") /\ RowInOrder
      BY <1>e, <1>f, <1>i, <2>1, <2>2
    <3> QED BY <1>b, <1>l, <2>1, <3>1
  <2> QED BY <1>12, <1>o, <2>1, <2>2 DEF StoreSeal
<1>13. CASE SaveVerdict(a)
  <2>1. /\ pc[a] \in Writing /\ m.stage # "COMPLETED" /\ ReadyToServe(m)
        /\ db[r].seal = m.seal
    <3>1. pc[a] = "saving"
      BY <1>13 DEF SaveVerdict
    <3>2. Knows(a)
      BY DEF CertificationInvariant, WorkerKnowledge
    <3> QED BY <3>1, <3>2, <1>b, <1>n DEF Writing, Finished, Knows
  <2>2. CASE /\ update_run(r, m)
             /\ mem' = [mem EXCEPT ![a].stage = "COMPLETED"]
             /\ Goto(a, "finishing")
    <3> DEFINE n == [m EXCEPT !.stage = "COMPLETED"]
    <3>1. Copied(n) /\ At("finishing") /\ RowInOrder
      BY <1>b, <1>d, <1>e, <1>j, <2>1, <2>2
    <3>2. db'[r].seal = db[r].seal
      BY <1>a, <2>2, UpdateRunPost
    <3>3. ProofNeedsReport(n) /\ ReadyToServe(n) /\ n.seal = m.seal
      BY <1>m, <2>1
    <3> HIDE DEF n
    <3> QED BY <1>l, <2>1, <3>1, <3>2, <3>3
  <2> QED BY <1>13, <1>o, <2>1, <2>2 DEF SaveVerdict
<1>14. CASE PipelineRaises(a)
  BY <1>14, <1>o DEF PipelineRaises, Writing
<1>15. CASE PersistFinal(a)
  <2>1. /\ pc[a] \in Writing /\ pc[a] \in {"finishing", "abandoned"}
        /\ m.stage = "COMPLETED" =>
             pc[a] = "finishing" /\ ReadyToServe(m) /\ db[r].seal = m.seal
    BY <1>15, <1>b DEF PersistFinal, Writing, Finished
  <2>2. ProofNeedsReport(NoMem) /\ NoMem.stage # "COMPLETED"
    BY DEF NoMem, ProofNeedsReport
  <2>3. CASE /\ \/ update_run_accepts(r, m) /\ update_run(r, m)
                \/ UNCHANGED db
             /\ mem' = [mem EXCEPT ![a] = NoMem]
             /\ Goto(a, "releasing") \/ Goto(a, "ended")
    <3>1. PICK l \in {"releasing", "ended"} : At(l)
      BY <1>e, <2>3
    <3>2. Copied(NoMem) /\ RowInOrder
      BY <1>b, <1>d, <1>h, <1>j, <2>1, <2>3 DEF update_run_accepts
    <3> HIDE DEF NoMem
    <3> QED BY <1>l, <2>1, <2>2, <3>1, <3>2
  <2>4. CASE /\ UNCHANGED <<db, pc>>
             /\ mem' = [mem EXCEPT ![a].tries = @ + 1]
    <3> DEFINE n == [m EXCEPT !.tries = m.tries + 1]
    <3>1. /\ ProofNeedsReport(n) /\ n.stage = m.stage /\ n.seal = m.seal
          /\ ReadyToServe(m) => ReadyToServe(n)
      BY <1>a, <1>b DEF Copies, ProofNeedsReport, ReadyToServe
    <3>2. Copied(n) /\ At(pc[a]) /\ RowInOrder /\ db'[r].seal = db[r].seal
      BY <1>d, <1>g, <1>h, <2>1, <2>4
    <3> HIDE DEF n
    <3> QED BY <1>l, <2>1, <3>1, <3>2
  <2> QED BY <1>15, <2>3, <2>4 DEF PersistFinal
<1>16. CASE Release(a)
  <2>1. \A b \in Attempts : pc'[b] = IF b = a THEN "ended" ELSE pc[b]
    BY <1>16, <1>e DEF Release, At
  <2>2. m.stage # "COMPLETED" /\ UNCHANGED <<db, mem>>
    BY <1>16, <1>b DEF Release, Finished
  <2>3. \A b \in Attempts : Finished(b)'
    BY <2>1, <2>2 DEF WholeInvariant, Finished
  <2> QED BY <2>2, <2>3 DEF WholeInvariant, ProofNeedsReport, ReadyToServe
<1> QED
  BY <1>1, <1>2, <1>3, <1>4, <1>5, <1>6, <1>7, <1>8, <1>9, <1>10, <1>11,
     <1>12, <1>13, <1>14, <1>15, <1>16 DEF WorkerStep

\* Requests write a decision or start a new attempt; a restart stops the
\* attempts in progress; the disk holds no rows.
LEMMA WholeOthers ==
  ASSUME TypeOK, CertificationInvariant, WholeInvariant,
         \/ \E c \in Clients : RequestStep(c) \/ NewRequest(c)
         \/ \E r \in Runs : DiskChange(r)
         \/ Restart
  PROVE  WholeInvariant'
<1>a. \A x \in Runs : db[x] \in RunRecords
  BY DEF TypeOK
<1>b. \A b \in Attempts : b[1] \in Runs
  BY DEF Attempts
<1>c. ASSUME \A x \in Runs : /\ ProofNeedsReport(db'[x])
                             /\ db'[x].stage = "COMPLETED" =>
                                  ReadyToServe(db'[x])
                             /\ db'[x].seal = db[x].seal,
             UNCHANGED <<pc, mem>>
      PROVE  WholeInvariant'
  BY <1>b, <1>c DEF WholeInvariant, ProofNeedsReport, ReadyToServe, Finished
<1>d. ASSUME UNCHANGED <<db, pc, mem>> PROVE WholeInvariant'
  BY <1>d DEF WholeInvariant, ProofNeedsReport, ReadyToServe, Finished
<1>e. ASSUME UNCHANGED <<pc, mem>>,
             \A x \in Runs : /\ db'[x].gen = db[x].gen
                             /\ db'[x].verdict = db[x].verdict
                             /\ db'[x].proof = db[x].proof
                             /\ db'[x].report = db[x].report
                             /\ db'[x].seal = db[x].seal
                             /\ db'[x].stage \in {db[x].stage, "CREATED"}
      PROVE  WholeInvariant'
  BY <1>c, <1>e DEF WholeInvariant, ProofNeedsReport, ReadyToServe
<1>1. ASSUME NEW c \in Clients, RequestStep(c) \/ NewRequest(c)
      PROVE  WholeInvariant'
  <2>1. CASE \E r \in Runs : AddRun(c, r)
    BY <1>a, <1>e, <2>1 DEF AddRun, TypeOK, RunRecords
  <2>2. CASE Reset(c)
    <3> DEFINE r == req[c].run
    <3>1. r \in Runs
      BY <2>2 DEF Reset, TypeOK, Requests
    <3>2. CASE Terminal(r) /\ begin_revalidation(r) /\ UNCHANGED <<pc, mem>>
      <4>1. /\ db'[r].stage = "CREATED" /\ db'[r].proof = db[r].proof
            /\ db'[r].report = db[r].report
            /\ \A x \in Runs \ {r} : db'[x] = db[x]
        BY <1>a, <3>1, <3>2 DEF begin_revalidation, TypeOK, RunRecords
      <4>2. \A b \in Attempts : b[1] = r => pc[b] \notin Writing
        BY <3>2 DEF CertificationInvariant, SingleFlight
      <4>3. \A b \in Attempts : Finished(b)'
        BY <1>b, <3>2, <4>1, <4>2 DEF WholeInvariant, Finished, Writing
      <4>4. ASSUME NEW x \in Runs
            PROVE  /\ ProofNeedsReport(db[x])'
                   /\ (db[x].stage = "COMPLETED" => ReadyToServe(db[x]))'
        BY <4>1 DEF WholeInvariant, ProofNeedsReport, ReadyToServe
      <4> QED BY <3>2, <4>3, <4>4 DEF WholeInvariant, ProofNeedsReport
    <3> QED BY <2>2, <1>d, <3>2 DEF Reset
  <2>3. CASE Launch(c)
    <3> DEFINE a == <<req[c].run, req[c].gen>>
               n == [NoMem EXCEPT !.gen = req[c].gen, !.stage = "FAILED",
                                  !.proof = db[req[c].run].proof,
                                  !.report = db[req[c].run].report]
    <3>1. a \in Attempts /\ a[1] = req[c].run /\ req[c].run \in Runs
      BY <2>3 DEF Launch, TypeOK, Requests, Attempts
    <3>2. pc[a] \notin Writing
      BY <2>3, <3>1 DEF Launch, CertificationInvariant, SingleFlight,
         Launching, Attempts
    <3>3. mem[a].stage # "COMPLETED"
      BY <3>1, <3>2 DEF WholeInvariant, Finished, Writing
    <3>4. ProofNeedsReport(n) /\ n.stage # "COMPLETED"
      BY <3>1 DEF NoMem, WholeInvariant, ProofNeedsReport
    <3>5. /\ UNCHANGED db
          /\ \/ pc' = [pc EXCEPT ![a] = "launched"] /\ UNCHANGED mem
             \/ /\ pc' = [pc EXCEPT ![a] = "abandoned"]
                /\ mem' = [mem EXCEPT ![a] = n]
      BY <2>3 DEF Launch
    <3> HIDE DEF a, n
    <3>6. /\ \A b \in Attempts \ {a} : pc'[b] = pc[b] /\ mem'[b] = mem[b]
          /\ pc'[a] \in {"launched", "abandoned"}
          /\ mem'[a] = mem[a] \/ mem'[a] = n
      BY <3>1, <3>5 DEF TypeOK
    <3>7. ASSUME NEW b \in Attempts
          PROVE  Finished(b)' /\ ProofNeedsReport(mem[b])'
      <4>1. CASE b = a
        BY <3>1, <3>3, <3>4, <3>6, <4>1
        DEF WholeInvariant, Finished, ProofNeedsReport
      <4>2. CASE b # a
        BY <3>5, <3>6, <4>2 DEF WholeInvariant, Finished, ProofNeedsReport
      <4> QED BY <4>1, <4>2
    <3> QED BY <3>5, <3>7 DEF WholeInvariant, ProofNeedsReport, ReadyToServe
  <2>4. CASE ApproveWrite(c)
    <3>1. req[c].run \in Runs
      BY <2>4 DEF ApproveWrite, TypeOK, Requests
    <3>2. CASE db' = [db EXCEPT ![req[c].run].approval = "APPROVED",
                                ![req[c].run].event = "APPROVED"]
      BY <1>a, <1>e, <2>4, <3>1, <3>2 DEF ApproveWrite, TypeOK, RunRecords
    <3> QED BY <1>d, <2>4, <3>2 DEF ApproveWrite
  <2>5. CASE \E r \in Runs : RejectRun(c, r)
    BY <1>a, <1>e, <2>5 DEF RejectRun, TypeOK, RunRecords
  <2>6. CASE UNCHANGED <<db, pc, mem>>
    BY <1>d, <2>6
  <2> QED
    BY <1>1, <2>1, <2>2, <2>3, <2>4, <2>5, <2>6
    DEF RequestStep, NewRequest, ModernizeSlot, AddRunFails, RevalidateCheck,
        RevalidateSlot, ApproveLoad, ApproveVerify, DownloadLoad, DownloadRead
<1>2. CASE \E r \in Runs : DiskChange(r)
  BY <1>d, <1>2 DEF DiskChange
<1>3. CASE Restart
  <2>1. \A x \in Runs : /\ db'[x].proof = db[x].proof
                        /\ db'[x].report = db[x].report
                        /\ db'[x] = db[x] \/ db'[x].stage = "FAILED"
    BY <1>a, <1>3 DEF Restart, mark_interrupted_runs, RunRecords
  <2>2. \A b \in Attempts : mem'[b] = NoMem /\ pc'[b] \notin Writing
    <3> HIDE DEF NoMem
    <3> QED BY <1>3 DEF Restart, Writing, TypeOK
  <2>3. \A b \in Attempts : Finished(b)' /\ ProofNeedsReport(mem[b])'
    BY <2>2 DEF Finished, NoMem, Writing, ProofNeedsReport
  <2>4. ASSUME NEW x \in Runs
        PROVE  /\ ProofNeedsReport(db[x])'
               /\ (db[x].stage = "COMPLETED" => ReadyToServe(db[x]))'
    <3>1. ProofNeedsReport(db'[x])
      BY <2>1 DEF WholeInvariant, ProofNeedsReport
    <3>2. CASE db'[x] = db[x]
      BY <3>1, <3>2 DEF WholeInvariant, ProofNeedsReport, ReadyToServe
    <3>3. CASE db'[x].stage = "FAILED"
      BY <3>1, <3>3 DEF ProofNeedsReport
    <3> QED BY <2>1, <3>2, <3>3
  <2> QED BY <2>3, <2>4 DEF WholeInvariant
<1> QED BY <1>1, <1>2, <1>3

\* A COMPLETED run has everything the views serve (the order of the writes of
\* _run_validation: seal, verdict, terminal stage), whatever writes fail.
THEOREM CompletedRunsAreWhole ==
  ASSUME ~SecondProcess
  PROVE  Spec => []CompletedIsWhole
<1>1. Init => WholeInvariant
  <2> SUFFICES ASSUME Init PROVE WholeInvariant
    OBVIOUS
  <2>1. /\ \A r \in Runs : db[r] = NoRun
        /\ \A a \in Attempts : mem[a] = NoMem /\ pc[a] = "idle"
    BY DEF Init
  <2> QED BY <2>1 DEF NoRun, NoMem, WholeInvariant, ProofNeedsReport, Finished
<1>2. WholeInvariant /\ CertificationInvariant /\ TypeOK /\ [Next]_vars =>
        WholeInvariant'
  <2> SUFFICES ASSUME WholeInvariant, CertificationInvariant, TypeOK, [Next]_vars
               PROVE  WholeInvariant'
    OBVIOUS
  <2>1. CASE UNCHANGED vars
    BY <2>1 DEF vars, WholeInvariant, ProofNeedsReport, ReadyToServe, Finished
  <2> QED BY <2>1, WholeWorker, WholeOthers DEF Next, OtherProcessStarts
<1>3. WholeInvariant => CompletedIsWhole
  BY DEF WholeInvariant, CompletedIsWhole, ReadyToServe
<1> QED BY TypeCorrect, CertificationHolds, <1>1, <1>2, <1>3, PTL DEF Spec

-----------------------------------------------------------------------------
(* The slot counter, whatever processes share the store.                   *)

\* The threads that hold a slot: workers, and requests on their way to one.
Held == {a \in Attempts : pc[a] \in Working}
Asked == {c \in Clients : req[c].kind \in {"modernize", "reset", "launch"}}

\* Attempts nobody has started yet, and launches that are about to start one:
\* two requests never launch the same attempt.
Unstarted ==
  \A a \in Attempts :
    a[2] > db[a[1]].gen \/ ~Exists(a[1]) => pc[a] = "idle"

UnknownRuns == \A r \in Runs : ~Exists(r) => db[r].gen = 0

StartsNewAttempt(c) ==
  req[c].kind = "launch" =>
    /\ pc[<<req[c].run, req[c].gen>>] = "idle"
    /\ Exists(req[c].run) /\ req[c].gen <= db[req[c].run].gen
    /\ \A d \in Clients \ {c} :
         ~(/\ req[d].kind = "launch" /\ req[d].run = req[c].run
           /\ req[d].gen = req[c].gen)

\* Strengthening of SlotsMatchThreads: no thread is started twice.
SlotsInvariant ==
  /\ SlotsMatchThreads
  /\ Unstarted
  /\ UnknownRuns
  /\ \A c \in Clients : StartsNewAttempt(c)

FinitelyMany == IsFiniteSet(Runs) /\ IsFiniteSet(Clients)

\* The counter in terms of the two sets.
LEMMA CountedThreads ==
  SlotsMatchThreads <=>
    jobs <= JobLimit /\ jobs = Cardinality(Held) + Cardinality(Asked)
BY DEF SlotsMatchThreads, Held, Asked

\* Both sets are finite, before and after a step.
LEMMA CountsAreFinite ==
  ASSUME FinitelyMany
  PROVE  /\ IsFiniteSet(Held) /\ IsFiniteSet(Held')
         /\ IsFiniteSet(Asked) /\ IsFiniteSet(Asked')
         /\ Cardinality(Held) \in Nat /\ Cardinality(Asked) \in Nat
<1>1. IsFiniteSet(Gens)
  BY BoundsAssumption, FS_Interval DEF Gens
<1>2. IsFiniteSet(Attempts)
  BY <1>1, FS_Product DEF FinitelyMany, Attempts
<1>3. /\ Held \in SUBSET Attempts /\ Held' \in SUBSET Attempts
      /\ Asked \in SUBSET Clients /\ Asked' \in SUBSET Clients
  BY DEF Held, Asked, Attempts
<1>4. /\ IsFiniteSet(Held) /\ IsFiniteSet(Held')
      /\ IsFiniteSet(Asked) /\ IsFiniteSet(Asked')
  BY <1>2, <1>3, FS_Subset DEF FinitelyMany
<1> QED BY <1>4, FS_CardinalityType

\* The step of worker a moves a alone; it keeps its slot or returns it, and
\* runs neither vanish nor get another generation.
LEMMA SlotWorker ==
  ASSUME TypeOK, NEW a \in Attempts, WorkerStep(a)
  PROVE  /\ pc[a] # "idle" /\ UNCHANGED req
         /\ \A b \in Attempts \ {a} : pc'[b] = pc[b]
         /\ \/ jobs' = jobs /\ (pc'[a] \in Working <=> pc[a] \in Working)
            \/ jobs' = jobs - 1 /\ pc[a] \in Working /\ pc'[a] \notin Working
         /\ \A x \in Runs : /\ db'[x].gen = db[x].gen
                            /\ Exists(x) => Exists(x)'
<1> DEFINE r == a[1]
           m == mem[a]
           RowStays == \A x \in Runs : /\ db'[x].gen = db[x].gen
                                       /\ Exists(x) => Exists(x)'
           Moves == /\ \A b \in Attempts \ {a} : pc'[b] = pc[b]
                    /\ pc'[a] \in Working
<1>a. /\ r \in Runs /\ m \in Copies
      /\ \A x \in Runs : db[x] \in RunRecords
  BY DEF TypeOK, Attempts
<1>b. ASSUME UNCHANGED db PROVE RowStays
  BY <1>b DEF Exists
<1>c. ASSUME NEW n, n.stage \in Stages, update_run(r, n) PROVE RowStays
  <2>1. /\ db'[r].gen = db[r].gen /\ db'[r].stage = n.stage
        /\ \A x \in Runs \ {r} : db'[x] = db[x]
    BY <1>a, <1>c DEF update_run, TypeOK, RunRecords
  <2> QED BY <1>c, <2>1, StageFacts DEF Exists
<1>d. ASSUME NEW n, n.stage \in Stages, Progress(a, n) PROVE RowStays
  BY <1>b, <1>c, <1>d DEF Progress
<1>e. ASSUME NEW s \in Stages PROVE [m EXCEPT !.stage = s].stage \in Stages
  BY <1>a DEF Copies
<1>f. m.stage \in Stages
  BY <1>a DEF Copies
<1>g. ASSUME NEW l \in Working, Goto(a, l) PROVE Moves
  BY <1>g DEF Goto, TypeOK
<1> HIDE DEF RowStays, Moves, m
<1>1. CASE GenerationPhase(a)
  <2>1. PICK s \in Phases : Progress(a, [m EXCEPT !.stage = s])
    BY <1>1 DEF GenerationPhase, Ahead, m
  <2>2. RowStays
    BY <2>1, <1>d, <1>e, BoundsAssumption, StageFacts
  <2> QED BY <1>1, <2>2 DEF GenerationPhase, RowStays
<1>2. CASE ExecuteOracle(a) \/ StartBuild(a) \/ Compare(a) \/ DeriveVerdict(a)
  <2>1. RowStays
    BY <1>2, <1>d, <1>e, StageFacts
    DEF ExecuteOracle, StartBuild, Compare, DeriveVerdict, m
  <2>2. Moves /\ pc[a] \in Working \ {"idle"} /\ UNCHANGED <<jobs, req>>
    BY <1>2, <1>g
    DEF ExecuteOracle, StartBuild, Compare, DeriveVerdict, Working, Writing
  <2> QED BY <2>1, <2>2 DEF RowStays, Moves
<1>3. CASE Build(a)
  <2>1. [m EXCEPT !.stage = "EXECUTING_GENERATED", !.built = TRUE].stage \in Stages
    BY <1>a, StageFacts DEF Copies
  <2>2. RowStays
    BY <1>3, <1>b, <1>d, <2>1 DEF Build, m
  <2>3. Moves /\ pc[a] \in Working \ {"idle"} /\ UNCHANGED <<jobs, req>>
    BY <1>3, <1>g DEF Build, Working, Writing
  <2> QED BY <2>2, <2>3 DEF RowStays, Moves
<1>4. CASE InterimSeal(a) \/ RecordBundle(a) \/ StoreSeal(a)
  <2>1. ASSUME NEW s, db' = [db EXCEPT ![r].seal = s] PROVE RowStays
    <3>1. \A x \in Runs : /\ db'[x].gen = db[x].gen
                          /\ db'[x].stage = db[x].stage
      BY <1>a, <2>1 DEF TypeOK, RunRecords
    <3> QED BY <3>1 DEF RowStays, Exists
  <2>2. ASSUME db' = [db EXCEPT ![r].recorded = TRUE] PROVE RowStays
    <3>1. \A x \in Runs : /\ db'[x].gen = db[x].gen
                          /\ db'[x].stage = db[x].stage
      BY <1>a, <2>2 DEF TypeOK, RunRecords
    <3> QED BY <3>1 DEF RowStays, Exists
  <2>3. RowStays
    <3>1. CASE InterimSeal(a) \/ StoreSeal(a)
      BY <3>1, <1>b, <2>1 DEF InterimSeal, StoreSeal
    <3>2. CASE RecordBundle(a)
      BY <3>2, <1>b, <2>2 DEF RecordBundle
    <3> QED BY <1>4, <3>1, <3>2
  <2>4. Moves /\ pc[a] \in Working \ {"idle"} /\ UNCHANGED <<jobs, req>>
    BY <1>4, <1>g
    DEF InterimSeal, RecordBundle, StoreSeal, Raise, Working, Writing
  <2> QED BY <2>3, <2>4 DEF RowStays, Moves
<1>5. CASE SaveVerdict(a)
  <2>1. RowStays
    BY <1>5, <1>b, <1>c, <1>f DEF SaveVerdict, m
  <2>2. Moves /\ pc[a] \in Working \ {"idle"} /\ UNCHANGED <<jobs, req>>
    BY <1>5, <1>g DEF SaveVerdict, Raise, Working, Writing
  <2> QED BY <2>1, <2>2 DEF RowStays, Moves
<1>6. CASE PersistFinal(a)
  <2>1. RowStays
    BY <1>6, <1>b, <1>c, <1>f DEF PersistFinal, m
  <2>2. /\ UNCHANGED <<jobs, req>>
        /\ \/ UNCHANGED pc
           \/ pc[a] = "finishing" /\ Goto(a, "releasing")
           \/ pc[a] = "abandoned" /\ Goto(a, "ended")
    BY <1>6 DEF PersistFinal
  <2>3. pc[a] \in {"finishing", "abandoned"}
    BY <1>6 DEF PersistFinal
  <2>4. /\ \A b \in Attempts \ {a} : pc'[b] = pc[b]
        /\ pc'[a] \in Working <=> pc[a] \in Working
    BY <2>2, <2>3 DEF Goto, TypeOK, Working, Writing
  <2> QED BY <2>1, <2>2, <2>3, <2>4 DEF RowStays
<1>7. CASE Load(a) \/ GenerationDone(a) \/ ProveAndSeal(a) \/ PipelineRaises(a)
  <2>1. RowStays
    BY <1>7, <1>b DEF Load, GenerationDone, ProveAndSeal, PipelineRaises
  <2>2. Moves /\ pc[a] \in Working \ {"idle"} /\ UNCHANGED <<jobs, req>>
    BY <1>7, <1>g
    DEF Load, GenerationDone, ProveAndSeal, PipelineRaises, Raise, Working,
        Writing
  <2> QED BY <2>1, <2>2 DEF RowStays, Moves
<1>8. CASE Release(a)
  <2>1. RowStays
    BY <1>8, <1>b DEF Release
  <2>2. /\ pc[a] = "releasing" /\ jobs' = jobs - 1 /\ UNCHANGED req
        /\ \A b \in Attempts \ {a} : pc'[b] = pc[b]
        /\ pc'[a] = "ended"
    BY <1>8 DEF Release, Goto, TypeOK
  <2> QED BY <2>1, <2>2 DEF RowStays, Working, Writing
<1> QED
  BY <1>1, <1>2, <1>3, <1>4, <1>5, <1>6, <1>7, <1>8 DEF WorkerStep

\* A worker's step keeps the counter right.
LEMMA SlotWorkerStep ==
  ASSUME TypeOK, FinitelyMany, SlotsInvariant, NEW a \in Attempts, WorkerStep(a)
  PROVE  SlotsInvariant'
<1>a. /\ jobs <= JobLimit
      /\ jobs = Cardinality(Held) + Cardinality(Asked)
  BY CountedThreads DEF SlotsInvariant
<1>b. /\ \A b \in Attempts : b[1] \in Runs /\ b[2] \in Gens
      /\ \A x \in Runs : db[x].gen \in Gens
      /\ \A c \in Clients : req[c].kind = "launch" => req[c].run \in Runs
  BY DEF TypeOK, Attempts, RunRecords, Requests
<1>1. Asked' = Asked
  BY SlotWorker DEF Asked
<1>2. SlotsMatchThreads'
  <2>1. CASE jobs' = jobs /\ (pc'[a] \in Working <=> pc[a] \in Working)
    <3>1. Held' = Held
      BY <2>1, SlotWorker DEF Held
    <3> QED BY <1>a, <1>1, <2>1, <3>1 DEF SlotsMatchThreads, Held, Asked
  <2>2. CASE jobs' = jobs - 1 /\ pc[a] \in Working /\ pc'[a] \notin Working
    <3>1. Held' = Held \ {a} /\ a \in Held
      BY <2>2, SlotWorker DEF Held
    <3>2. Cardinality(Held') = Cardinality(Held) - 1
      BY <3>1, FS_RemoveElement, CountsAreFinite
    <3>3. jobs' <= JobLimit /\ jobs' = Cardinality(Held') + Cardinality(Asked')
      BY <1>a, <1>1, <2>2, <3>2, CountsAreFinite, BoundsAssumption DEF TypeOK
    <3> QED BY <3>3 DEF SlotsMatchThreads, Held, Asked
  <2> QED BY <2>1, <2>2, SlotWorker
<1>3. Exists(a[1]) /\ a[2] <= db[a[1]].gen
  BY <1>b, SlotWorker, BoundsAssumption DEF SlotsInvariant, Unstarted, Gens
<1>4. Unstarted'
  <2> SUFFICES ASSUME NEW b \in Attempts,
                      b[2] > db'[b[1]].gen \/ ~Exists(b[1])'
               PROVE  pc'[b] = "idle"
    BY DEF Unstarted
  <2>1. b[2] > db[b[1]].gen \/ ~Exists(b[1])
    BY <1>b, SlotWorker
  <2>2. b # a
    BY <1>3, <1>b, <2>1, BoundsAssumption DEF Gens
  <2> QED BY <2>1, <2>2, SlotWorker DEF SlotsInvariant, Unstarted
<1>5. ASSUME NEW c \in Clients PROVE StartsNewAttempt(c)'
  <2> SUFFICES ASSUME req[c].kind = "launch" PROVE StartsNewAttempt(c)'
    BY SlotWorker DEF StartsNewAttempt
  <2>1. <<req[c].run, req[c].gen>> \in Attempts
    BY DEF TypeOK, Requests, Attempts
  <2>2. StartsNewAttempt(c)
    BY DEF SlotsInvariant
  <2>3. <<req[c].run, req[c].gen>> # a
    BY <2>2, SlotWorker DEF StartsNewAttempt
  <2> QED BY <1>b, <2>1, <2>2, <2>3, SlotWorker DEF StartsNewAttempt
<1>6. UnknownRuns'
  BY SlotWorker DEF SlotsInvariant, UnknownRuns
<1> QED BY <1>2, <1>4, <1>5, <1>6 DEF SlotsInvariant

\* A request that starts no worker: the counter follows the request alone.
LEMMA SlotRequestFrame ==
  ASSUME TypeOK, FinitelyMany, SlotsInvariant, NEW c \in Clients, NEW q,
         req' = [req EXCEPT ![c] = q], UNCHANGED pc,
         \A x \in Runs : db'[x].gen = db[x].gen /\ (Exists(x) => Exists(x)'),
         q.kind # "launch",
         \/ /\ req[c].kind \in {"modernize", "reset", "launch"} <=>
                q.kind \in {"modernize", "reset", "launch"}
            /\ jobs' = jobs
         \/ /\ req[c].kind \notin {"modernize", "reset", "launch"}
            /\ q.kind \in {"modernize", "reset", "launch"}
            /\ acquire_job_slot
         \/ /\ req[c].kind \in {"modernize", "reset", "launch"}
            /\ q.kind \notin {"modernize", "reset", "launch"}
            /\ jobs' = jobs - 1
  PROVE  SlotsInvariant'
<1> DEFINE K == {"modernize", "reset", "launch"}
<1>a. /\ jobs <= JobLimit
      /\ jobs = Cardinality(Held) + Cardinality(Asked)
  BY CountedThreads DEF SlotsInvariant
<1>b. /\ \A b \in Attempts : b[1] \in Runs /\ b[2] \in Gens
      /\ \A x \in Runs : db[x].gen \in Gens
  BY DEF TypeOK, Attempts, RunRecords
<1>c. \A d \in Clients : req'[d] = IF d = c THEN q ELSE req[d]
  BY DEF TypeOK
<1>1. Held' = Held
  BY DEF Held
<1>2. SlotsMatchThreads'
  <2>1. CASE (req[c].kind \in K <=> q.kind \in K) /\ jobs' = jobs
    <3>1. Asked' = Asked
      BY <1>c, <2>1 DEF Asked
    <3> QED BY <1>a, <1>1, <2>1, <3>1 DEF SlotsMatchThreads, Held, Asked
  <2>2. CASE req[c].kind \notin K /\ q.kind \in K /\ acquire_job_slot
    <3>1. Asked' = Asked \cup {c} /\ c \notin Asked
      BY <1>c, <2>2 DEF Asked
    <3>2. Cardinality(Asked') = Cardinality(Asked) + 1
      BY <3>1, FS_AddElement, CountsAreFinite
    <3>3. jobs' <= JobLimit /\ jobs' = Cardinality(Held') + Cardinality(Asked')
      BY <1>a, <1>1, <2>2, <3>2, CountsAreFinite, BoundsAssumption
      DEF TypeOK, acquire_job_slot
    <3> QED BY <3>3 DEF SlotsMatchThreads, Held, Asked
  <2>3. CASE req[c].kind \in K /\ q.kind \notin K /\ jobs' = jobs - 1
    <3>1. Asked' = Asked \ {c} /\ c \in Asked
      BY <1>c, <2>3 DEF Asked
    <3>2. Cardinality(Asked') = Cardinality(Asked) - 1
      BY <3>1, FS_RemoveElement, CountsAreFinite
    <3>3. jobs' <= JobLimit /\ jobs' = Cardinality(Held') + Cardinality(Asked')
      BY <1>a, <1>1, <2>3, <3>2, CountsAreFinite, BoundsAssumption DEF TypeOK
    <3> QED BY <3>3 DEF SlotsMatchThreads, Held, Asked
  <2> QED BY <2>1, <2>2, <2>3
<1>3. Unstarted'
  <2> SUFFICES ASSUME NEW b \in Attempts,
                      b[2] > db'[b[1]].gen \/ ~Exists(b[1])'
               PROVE  pc[b] = "idle"
    BY DEF Unstarted
  <2>1. b[2] > db[b[1]].gen \/ ~Exists(b[1])
    BY <1>b, BoundsAssumption DEF Gens
  <2> QED BY <2>1 DEF SlotsInvariant, Unstarted
<1>4. ASSUME NEW d \in Clients, req'[d].kind = "launch"
      PROVE  StartsNewAttempt(d)'
  <2>1. d # c /\ req'[d] = req[d]
    BY <1>4, <1>c
  <2>2. StartsNewAttempt(d)
    BY DEF SlotsInvariant
  <2>3. req[d].run \in Runs /\ req[d].gen \in Gens
    BY <1>4, <2>1 DEF TypeOK, Requests
  <2>4. req[d].gen <= db'[req[d].run].gen
    BY <1>4, <1>b, <2>1, <2>2, <2>3, BoundsAssumption
    DEF StartsNewAttempt, Gens
  <2> QED BY <1>4, <1>c, <2>1, <2>2, <2>3, <2>4 DEF StartsNewAttempt
<1>5. UnknownRuns'
  BY DEF SlotsInvariant, UnknownRuns
<1> QED BY <1>2, <1>3, <1>4, <1>5 DEF SlotsInvariant, StartsNewAttempt

\* A request that is about to start attempt g of run r: the attempt is new,
\* so no other request starts it and no thread runs it.
LEMMA SlotNewLaunch ==
  ASSUME TypeOK, FinitelyMany, SlotsInvariant, NEW c \in Clients,
         NEW r \in Runs, NEW g \in Gens,
         req[c].kind \in {"modernize", "reset"},
         req' = [req EXCEPT ![c] = [kind |-> "launch", run |-> r, gen |-> g]],
         UNCHANGED <<pc, jobs>>,
         g > db[r].gen \/ ~Exists(r),
         db'[r].gen = g, db'[r].stage # "none", db[r].gen <= g,
         \A x \in Runs \ {r} : db'[x] = db[x]
  PROVE  SlotsInvariant'
<1>a. /\ jobs <= JobLimit
      /\ jobs = Cardinality(Held) + Cardinality(Asked)
  BY CountedThreads DEF SlotsInvariant
<1>b. /\ \A b \in Attempts : b[1] \in Runs /\ b[2] \in Gens
      /\ \A x \in Runs : db[x].gen \in Gens
  BY DEF TypeOK, Attempts, RunRecords
<1>c. \A d \in Clients :
        req'[d] = IF d = c THEN [kind |-> "launch", run |-> r, gen |-> g]
                  ELSE req[d]
  BY DEF TypeOK
<1>1. SlotsMatchThreads'
  <2>1. Held' = Held /\ Asked' = Asked
    BY <1>c DEF Held, Asked
  <2> QED BY <1>a, <2>1 DEF SlotsMatchThreads, Held, Asked
<1>2. Unstarted'
  <2> SUFFICES ASSUME NEW b \in Attempts,
                      b[2] > db'[b[1]].gen \/ ~Exists(b[1])'
               PROVE  pc[b] = "idle"
    BY DEF Unstarted
  <2>1. b[2] > db[b[1]].gen \/ ~Exists(b[1])
    BY <1>b, BoundsAssumption DEF Gens, Exists
  <2> QED BY <2>1 DEF SlotsInvariant, Unstarted
<1>3. /\ <<r, g>> \in Attempts
      /\ pc[<<r, g>>] = "idle"
  <2>1. <<r, g>> \in Attempts
    BY DEF Attempts
  <2> QED BY <2>1 DEF SlotsInvariant, Unstarted
<1>4. ASSUME NEW d \in Clients, d # c, req[d].kind = "launch"
      PROVE  /\ req[d].run \in Runs /\ req[d].gen \in Gens
             /\ Exists(req[d].run) /\ req[d].gen <= db[req[d].run].gen
             /\ ~(req[d].run = r /\ req[d].gen = g)
  <2>1. req[d].run \in Runs /\ req[d].gen \in Gens
    BY <1>4 DEF TypeOK, Requests
  <2>2. StartsNewAttempt(d)
    BY DEF SlotsInvariant
  <2> QED BY <1>b, <1>4, <2>1, <2>2, BoundsAssumption
          DEF StartsNewAttempt, Gens
<1>5. StartsNewAttempt(c)'
  BY <1>3, <1>4, <1>b, <1>c, BoundsAssumption
  DEF StartsNewAttempt, Exists, Gens
<1>6. ASSUME NEW d \in Clients, d # c, req'[d].kind = "launch"
      PROVE  StartsNewAttempt(d)'
  <2>1. req'[d] = req[d] /\ StartsNewAttempt(d)
    BY <1>6, <1>c DEF SlotsInvariant
  <2>2. /\ Exists(req[d].run)'
        /\ req[d].gen <= db'[req[d].run].gen
    BY <1>4, <1>6, <1>b, <2>1, BoundsAssumption DEF Exists, Gens
  <2> QED BY <1>4, <1>6, <1>c, <2>1, <2>2 DEF StartsNewAttempt
<1>7. UnknownRuns'
  BY DEF SlotsInvariant, UnknownRuns, Exists
<1> QED BY <1>1, <1>2, <1>5, <1>6, <1>7 DEF SlotsInvariant, StartsNewAttempt

\* _launch hands the slot of the request to the thread it starts, or gives it
\* back.
LEMMA SlotLaunch ==
  ASSUME TypeOK, FinitelyMany, SlotsInvariant, NEW c \in Clients, Launch(c)
  PROVE  SlotsInvariant'
<1> DEFINE a == <<req[c].run, req[c].gen>>
<1>a. /\ jobs <= JobLimit
      /\ jobs = Cardinality(Held) + Cardinality(Asked)
  BY CountedThreads DEF SlotsInvariant
<1>b. /\ a \in Attempts /\ a[1] = req[c].run /\ a[2] = req[c].gen
      /\ req[c].kind = "launch"
  BY DEF Launch, TypeOK, Requests, Attempts
<1>c. /\ pc[a] = "idle" /\ Exists(a[1]) /\ a[2] <= db[a[1]].gen
      /\ a[1] \in Runs /\ a[2] \in Gens /\ db[a[1]].gen \in Gens
      /\ \A d \in Clients \ {c} :
           ~(/\ req[d].kind = "launch" /\ req[d].run = a[1]
             /\ req[d].gen = a[2])
  BY <1>b DEF SlotsInvariant, StartsNewAttempt, TypeOK, RunRecords, Attempts
<1>d. /\ UNCHANGED db
      /\ \/ pc' = [pc EXCEPT ![a] = "launched"] /\ jobs' = jobs
         \/ pc' = [pc EXCEPT ![a] = "abandoned"] /\ jobs' = jobs - 1
  BY DEF Launch
<1> HIDE DEF a
<1>e. /\ \A b \in Attempts \ {a} : pc'[b] = pc[b]
      /\ \/ pc'[a] = "launched" /\ jobs' = jobs
         \/ pc'[a] = "abandoned" /\ jobs' = jobs - 1
  BY <1>b, <1>d DEF TypeOK
<1>f. \A d \in Clients : req'[d] = IF d = c THEN Idle ELSE req[d]
  BY DEF Launch, Finish, TypeOK
<1>1. SlotsMatchThreads'
  <2>1. Asked' = Asked \ {c} /\ c \in Asked
    BY <1>b, <1>f DEF Asked, Idle
  <2>2. Cardinality(Asked') = Cardinality(Asked) - 1
    BY <2>1, FS_RemoveElement, CountsAreFinite
  <2>3. CASE pc'[a] = "launched" /\ jobs' = jobs
    <3>1. Held' = Held \cup {a} /\ a \notin Held
      BY <1>b, <1>c, <1>e, <2>3 DEF Held, Working, Writing
    <3>2. Cardinality(Held') = Cardinality(Held) + 1
      BY <3>1, FS_AddElement, CountsAreFinite
    <3>3. jobs' <= JobLimit /\ jobs' = Cardinality(Held') + Cardinality(Asked')
      BY <1>a, <2>2, <2>3, <3>2, CountsAreFinite, BoundsAssumption DEF TypeOK
    <3> QED BY <3>3 DEF SlotsMatchThreads, Held, Asked
  <2>4. CASE pc'[a] = "abandoned" /\ jobs' = jobs - 1
    <3>1. Held' = Held
      BY <1>b, <1>c, <1>e, <2>4 DEF Held, Working, Writing
    <3>2. jobs' <= JobLimit /\ jobs' = Cardinality(Held') + Cardinality(Asked')
      BY <1>a, <2>2, <2>4, <3>1, CountsAreFinite, BoundsAssumption DEF TypeOK
    <3> QED BY <3>2 DEF SlotsMatchThreads, Held, Asked
  <2> QED BY <1>e, <2>3, <2>4
<1>2. Unstarted'
  <2> SUFFICES ASSUME NEW b \in Attempts,
                      b[2] > db[b[1]].gen \/ ~Exists(b[1])
               PROVE  pc'[b] = "idle"
    BY <1>d DEF Unstarted, Exists
  <2>1. b # a
    BY <1>c, BoundsAssumption DEF Gens
  <2> QED BY <1>e, <2>1 DEF SlotsInvariant, Unstarted
<1>3. ASSUME NEW d \in Clients, req'[d].kind = "launch"
      PROVE  StartsNewAttempt(d)'
  <2>1. d # c /\ req'[d] = req[d] /\ StartsNewAttempt(d)
    BY <1>3, <1>f DEF Idle, SlotsInvariant
  <2>2. /\ <<req[d].run, req[d].gen>> \in Attempts
        /\ <<req[d].run, req[d].gen>> # a
    BY <1>3, <1>c, <2>1 DEF TypeOK, Requests, Attempts
  <2> QED BY <1>3, <1>d, <1>e, <1>f, <2>1, <2>2
          DEF StartsNewAttempt, Exists, Idle
<1>4. UnknownRuns'
  BY <1>d DEF SlotsInvariant, UnknownRuns, Exists
<1> QED BY <1>1, <1>2, <1>3, <1>4 DEF SlotsInvariant, StartsNewAttempt

\* Every request keeps the counter right.
LEMMA SlotRequest ==
  ASSUME TypeOK, FinitelyMany, SlotsInvariant, NEW c \in Clients,
         RequestStep(c) \/ NewRequest(c)
  PROVE  SlotsInvariant'
<1>a. /\ \A x \in Runs : db[x] \in RunRecords /\ db[x].gen \in Gens
      /\ Idle.kind = "idle"
  BY BoundsAssumption DEF TypeOK, RunRecords, Gens, Idle
<1>b. ASSUME \A x \in Runs : db'[x].gen = db[x].gen /\ db'[x].stage = db[x].stage
      PROVE  \A x \in Runs : db'[x].gen = db[x].gen /\ (Exists(x) => Exists(x)')
  BY <1>b DEF Exists
<1>c. ASSUME UNCHANGED db
      PROVE  \A x \in Runs : db'[x].gen = db[x].gen /\ (Exists(x) => Exists(x)')
  BY <1>b, <1>c
<1>1. CASE ModernizeSlot(c)
  <2> DEFINE q == [kind |-> "modernize"]
  <2>1. /\ req[c].kind = "idle" /\ q.kind = "modernize" /\ acquire_job_slot
        /\ UNCHANGED <<db, pc>>
        /\ req' = [req EXCEPT ![c] = q]
    BY <1>1, <1>a DEF ModernizeSlot
  <2> HIDE DEF q
  <2> QED BY <1>c, <2>1, SlotRequestFrame
<1>2. CASE AddRunFails(c)
  BY <1>2, <1>a, <1>b, SlotRequestFrame DEF AddRunFails, Finish
<1>3. CASE \E r \in Runs : RevalidateCheck(c, r)
  <2>1. PICK r \in Runs : RevalidateCheck(c, r)
    BY <1>3
  <2> DEFINE q == [kind |-> "revalidate", run |-> r]
  <2>2. /\ req[c].kind = "idle" /\ q.kind = "revalidate"
        /\ UNCHANGED <<db, pc, jobs>>
        /\ req' = [req EXCEPT ![c] = q]
    BY <2>1, <1>a DEF RevalidateCheck
  <2> HIDE DEF q
  <2> QED BY <1>c, <2>2, SlotRequestFrame
<1>4. CASE RevalidateSlot(c)
  BY <1>4, <1>a, <1>b, SlotRequestFrame DEF RevalidateSlot, Finish
<1>5. CASE \E r \in Runs : AddRun(c, r)
  <2>1. PICK r \in Runs : AddRun(c, r)
    BY <1>5
  <2>2. /\ db'[r].gen = db[r].gen /\ db'[r].stage = "CREATED"
        /\ \A x \in Runs \ {r} : db'[x] = db[x]
    BY <1>a, <2>1 DEF AddRun, TypeOK
  <2>3. req[c].kind = "modernize" /\ ~Exists(r) /\ UNCHANGED <<pc, jobs>>
    BY <2>1 DEF AddRun
  <2>4. req' = [req EXCEPT ![c] = [kind |-> "launch", run |-> r, gen |-> 0]]
    BY <2>1 DEF AddRun
  <2>5. 0 \in Gens
    BY BoundsAssumption DEF Gens
  <2>6. db[r].gen = 0
    BY <2>3 DEF SlotsInvariant, UnknownRuns
  <2>7. PICK g \in Gens : g = 0
    BY <2>5
  <2>8. db[r].gen <= g /\ db'[r].gen = g /\ db'[r].stage # "none"
    BY <2>2, <2>6, <2>7
  <2>9. req' = [req EXCEPT ![c] = [kind |-> "launch", run |-> r, gen |-> g]]
    BY <2>4, <2>7
  <2> QED BY <2>2, <2>3, <2>8, <2>9, SlotNewLaunch
<1>6. CASE Reset(c)
  <2> DEFINE r == req[c].run
  <2>1. r \in Runs /\ req[c].kind = "reset"
    BY <1>6 DEF Reset, TypeOK, Requests
  <2>2. CASE /\ db[r].gen < MaxGeneration /\ begin_revalidation(r)
             /\ req' = [req EXCEPT ![c] =
                   [kind |-> "launch", run |-> r, gen |-> db[r].gen + 1]]
             /\ UNCHANGED <<pc, jobs>>
    <3>1. /\ db'[r].gen = db[r].gen + 1 /\ db'[r].stage = "CREATED"
          /\ \A x \in Runs \ {r} : db'[x] = db[x]
      BY <1>a, <2>1, <2>2 DEF begin_revalidation, TypeOK, RunRecords
    <3>2. /\ db[r].gen + 1 \in Gens /\ db[r].gen <= db[r].gen + 1
          /\ db[r].gen + 1 > db[r].gen
      BY <1>a, <2>1, <2>2, BoundsAssumption DEF Gens
    <3> HIDE DEF r
    <3> QED BY <2>1, <2>2, <3>1, <3>2, SlotNewLaunch
  <2>3. CASE UNCHANGED <<db, pc>> /\ jobs' = jobs - 1 /\ Finish(c)
    BY <1>a, <1>b, <2>1, <2>3, SlotRequestFrame DEF Finish
  <2> QED BY <1>6, <2>2, <2>3 DEF Reset
<1>7. CASE Launch(c)
  BY <1>7, SlotLaunch
<1>8. CASE ApproveVerify(c)
  <2>1. req[c].kind = "approve" /\ UNCHANGED <<db, pc, jobs>>
    BY <1>8 DEF ApproveVerify
  <2>2. [req[c] EXCEPT !.kind = "decide"].kind = "decide"
    BY <2>1 DEF TypeOK, Requests
  <2>3. PICK q \in {[req[c] EXCEPT !.kind = "decide"], Idle} :
          req' = [req EXCEPT ![c] = q]
    BY <1>8 DEF ApproveVerify
  <2>4. q.kind \in {"decide", "idle"}
    BY <1>a, <2>2, <2>3
  <2> QED BY <1>c, <2>1, <2>3, <2>4, SlotRequestFrame
<1>9. CASE ApproveWrite(c)
  <2>1. \A x \in Runs : db'[x].gen = db[x].gen /\ db'[x].stage = db[x].stage
    BY <1>9, <1>a DEF ApproveWrite, TypeOK, RunRecords
  <2>2. /\ req[c].kind = "decide" /\ Finish(c) /\ UNCHANGED <<pc, jobs>>
    BY <1>9 DEF ApproveWrite
  <2> QED BY <1>a, <1>b, <2>1, <2>2, SlotRequestFrame DEF Finish
<1>10. CASE \E r \in Runs : RejectRun(c, r)
  <2>1. \A x \in Runs : db'[x].gen = db[x].gen /\ db'[x].stage = db[x].stage
    BY <1>10, <1>a DEF RejectRun, TypeOK, RunRecords
  <2>2. req[c] = Idle /\ UNCHANGED <<pc, jobs, req>>
    BY <1>10 DEF RejectRun
  <2>3. req' = [req EXCEPT ![c] = Idle]
    BY <2>2 DEF TypeOK
  <2> QED BY <1>a, <1>b, <2>1, <2>2, <2>3, SlotRequestFrame
<1>11. CASE DownloadRead(c)
  BY <1>11, <1>a, <1>b, SlotRequestFrame DEF DownloadRead, Finish
<1>12. CASE \E r \in Runs : ApproveLoad(c, r) \/ DownloadLoad(c, r)
  BY <1>12, <1>a, <1>b, SlotRequestFrame DEF ApproveLoad, DownloadLoad
<1> QED
  BY <1>1, <1>2, <1>3, <1>4, <1>5, <1>6, <1>7, <1>8, <1>9, <1>10, <1>11,
     <1>12 DEF RequestStep, NewRequest

\* A restart forgets every thread and every slot; another process and the disk
\* touch neither.
LEMMA SlotEnvironment ==
  ASSUME TypeOK, FinitelyMany, SlotsInvariant,
         Restart \/ OtherProcessStarts \/ \E r \in Runs : DiskChange(r)
  PROVE  SlotsInvariant'
<1>a. /\ \A x \in Runs : db[x] \in RunRecords
      /\ \A b \in Attempts : b[1] \in Runs
      /\ \A c \in Clients : req[c].kind = "launch" => req[c].run \in Runs
  BY DEF TypeOK, Attempts, Requests
<1>b. \A x \in Runs : db'[x].gen = db[x].gen /\ (Exists(x)' <=> Exists(x))
  BY <1>a DEF Restart, OtherProcessStarts, DiskChange, mark_interrupted_runs,
     Exists, RunRecords
<1>1. CASE Restart
  <2>1. /\ jobs' = 0
        /\ \A c \in Clients : req'[c] = Idle
        /\ \A b \in Attempts : /\ pc'[b] \notin Working
                               /\ pc[b] = "idle" => pc'[b] = "idle"
    BY <1>1 DEF Restart, TypeOK, Working, Writing
  <2>2. Held' = {} /\ Asked' = {}
    BY <2>1 DEF Held, Asked, Idle
  <2>3. SlotsMatchThreads'
    <3>1. Cardinality(Held') = 0 /\ Cardinality(Asked') = 0
      BY <2>2, FS_EmptySet
    <3>2. /\ jobs' <= JobLimit
          /\ jobs' = Cardinality(Held') + Cardinality(Asked')
      BY <2>1, <3>1, BoundsAssumption
    <3> QED BY <3>2 DEF SlotsMatchThreads, Held, Asked
  <2>4. Unstarted'
    BY <1>a, <1>b, <2>1 DEF SlotsInvariant, Unstarted
  <2>5. UnknownRuns'
    BY <1>b DEF SlotsInvariant, UnknownRuns
  <2> QED BY <2>1, <2>3, <2>4, <2>5 DEF SlotsInvariant, StartsNewAttempt, Idle
<1>2. CASE UNCHANGED <<pc, jobs, req>>
  <2>1. SlotsMatchThreads'
    BY <1>2 DEF SlotsInvariant, SlotsMatchThreads
  <2>2. Unstarted'
    BY <1>a, <1>b, <1>2 DEF SlotsInvariant, Unstarted
  <2>3. ASSUME NEW c \in Clients PROVE StartsNewAttempt(c)'
    BY <1>a, <1>b, <1>2 DEF SlotsInvariant, StartsNewAttempt
  <2>4. UnknownRuns'
    BY <1>b DEF SlotsInvariant, UnknownRuns
  <2> QED BY <2>1, <2>2, <2>3, <2>4 DEF SlotsInvariant
<1> QED BY <1>1, <1>2 DEF OtherProcessStarts, DiskChange

\* The slot counter equals the threads that hold a slot, whatever fails and
\* however many processes share the store: no path of modernize, revalidate,
\* _launch or a worker leaks a slot or returns it twice.
THEOREM SlotsAreCounted ==
  ASSUME IsFiniteSet(Runs), IsFiniteSet(Clients)
  PROVE  Spec => []SlotsMatchThreads
<1>0. FinitelyMany
  BY DEF FinitelyMany
<1>1. Init => SlotsInvariant
  <2> SUFFICES ASSUME Init PROVE SlotsInvariant
    OBVIOUS
  <2>1. /\ \A a \in Attempts : pc[a] = "idle"
        /\ \A c \in Clients : req[c] = Idle
        /\ jobs = 0
    BY DEF Init
  <2>2. Held = {} /\ Asked = {}
    BY <2>1 DEF Held, Asked, Working, Writing, Idle
  <2>3. SlotsMatchThreads
    <3>1. Cardinality(Held) = 0 /\ Cardinality(Asked) = 0
      BY <2>2, FS_EmptySet
    <3>2. /\ jobs <= JobLimit
          /\ jobs = Cardinality(Held) + Cardinality(Asked)
      BY <2>1, <3>1, BoundsAssumption
    <3> QED BY <3>2 DEF SlotsMatchThreads, Held, Asked
  <2>4. UnknownRuns
    BY DEF Init, UnknownRuns, NoRun
  <2> QED BY <2>1, <2>3, <2>4
          DEF SlotsInvariant, Unstarted, StartsNewAttempt, Idle
<1>2. SlotsInvariant /\ TypeOK /\ [Next]_vars => SlotsInvariant'
  <2> SUFFICES ASSUME SlotsInvariant, TypeOK, [Next]_vars
               PROVE  SlotsInvariant'
    OBVIOUS
  <2>1. CASE UNCHANGED vars
    BY <2>1 DEF vars, SlotsInvariant, SlotsMatchThreads, Unstarted,
       UnknownRuns, StartsNewAttempt, Exists
  <2> QED BY <1>0, <2>1, SlotWorkerStep, SlotRequest, SlotEnvironment DEF Next
<1>3. SlotsInvariant => SlotsMatchThreads
  BY DEF SlotsInvariant
<1> QED BY TypeCorrect, <1>1, <1>2, <1>3, PTL DEF Spec
============================================================================
