---------------------------- MODULE RunLifecycle ----------------------------
(***************************************************************************)
(* The stages of a run and the transitions the run store accepts           *)
(* (api/store.py).  Pure definitions, shared by the modules that move runs *)
(* through their stages.                                                   *)
(***************************************************************************)
EXTENDS Naturals, Sequences

\* Forward order of the stages; FAILED is outside it.
STAGE_ORDER ==
  << "CREATED", "INGESTING", "DISCOVERING", "DISCOVERY_COMPLETED",
     "ANALYZING", "ANALYSIS_COMPLETED", "PLANNING", "PLAN_COMPLETED",
     "TRANSFORMING", "GENERATING", "ASSEMBLING", "ASSEMBLY_COMPLETED",
     "EXECUTING_ORACLE", "BUILDING", "EXECUTING_GENERATED", "COMPARING",
     "VALIDATING_EVIDENCE", "COMPLETED" >>

Ordered == {STAGE_ORDER[i] : i \in 1..Len(STAGE_ORDER)}

Stages == Ordered \cup {"FAILED"}

TERMINAL_STAGES == {"COMPLETED", "FAILED"}

StageIndex(s) == CHOOSE i \in 1..Len(STAGE_ORDER) : STAGE_ORDER[i] = s

\* What Store.update_run checks of the persisted stage and the new one.
is_valid_transition(current, target) ==
  \/ current = target
  \/ /\ current \notin TERMINAL_STAGES
     /\ \/ target \in TERMINAL_STAGES
        \/ /\ target \notin TERMINAL_STAGES
           /\ StageIndex(target) >= StageIndex(current)

\* Stages emitted by the progress callbacks of the two pipelines, in order.
GENERATION_PHASES ==
  {"DISCOVERING", "DISCOVERY_COMPLETED", "ANALYZING", "ANALYSIS_COMPLETED",
   "PLANNING", "PLAN_COMPLETED", "TRANSFORMING", "ASSEMBLING",
   "ASSEMBLY_COMPLETED"}

VALIDATION_PHASES ==
  {"EXECUTING_ORACLE", "BUILDING", "EXECUTING_GENERATED", "COMPARING",
   "VALIDATING_EVIDENCE"}

\* The stage the stepper of the user interface anchors on: the last stage
\* before the run stopped.
last_stage_anchor(stage, previous) ==
  IF stage \in TERMINAL_STAGES THEN previous ELSE stage
=============================================================================
