----------------------------- MODULE BatchJobs -----------------------------
(***************************************************************************)
(* The JCL lane: a member is parsed into jobs, steps and DDs (JclParser),  *)
(* built into a semantic model with diagnostics (JclSemanticBuilder) and   *)
(* mapped to Spring Batch jobs (JclSpringBatchMapper); modernize_jcl says  *)
(* whether that profile is FULL.  The parser skips what it does not know:  *)
(* a second reading of the raw text must notice everything it skipped.     *)
(***************************************************************************)
EXTENDS Naturals, Sequences, FiniteSets

CONSTANTS
  Cards,        \* JCL statements: [stmt, name, of, as]
  Temporary,    \* datasets whose name begins with &&
  MaxCards      \* bound on the statements of a member

\* of is the program of an EXEC or the dataset of a DD; as is the COND of an
\* EXEC and the DISP of a DD, or what stands there instead.  stmt is what the
\* line means to JES: a line of the data of a DD DATA is "data", and may begin
\* with // and look like the statement that as then names.  A DLM= of its own
\* and the /* that ends the data are left out.
ASSUME CardsAssumption ==
  /\ \A c \in Cards : DOMAIN c = {"stmt", "name", "of", "as"}
  /\ \E c \in Cards : c.stmt = "JOB"
  /\ MaxCards \in Nat

VARIABLES
  member,       \* the statements of the member
  parser,       \* the state of the parser after these lines
  undecodable,  \* is there another member that is not UTF-8?
  profile       \* what modernize_jcl_workload returned for them

batchVars == <<member, parser, undecodable, profile>>

Among(s) == {s[i] : i \in DOMAIN s}

-----------------------------------------------------------------------------
(* JclParser.                                                              *)

\* What a line looks like to who does not keep track of in-stream data.
Seen(c) == IF c.stmt = "data" /\ c.as # "" THEN c.as ELSE c.stmt
Operand(c) == IF c.stmt = "data" THEN "none" ELSE c.as

\* The parser looks for " JOB ", " EXEC " or " DD " in the line: an operand
\* must follow.
Says(c, keyword) == Seen(c) = keyword /\ c.as # "bare"

\* A DD without a name (a concatenation) does not match the DD pattern.
parse_dd(c) == IF c.name = "" THEN [name |-> "UNKNOWN", of |-> "", as |-> "none"]
               ELSE [name |-> c.name, of |-> c.of, as |-> Operand(c)]

\* Nor does an EXEC without a name: a step UNKNOWN that executes nothing.
parse_exec(c) ==
  IF c.name = "" THEN [name |-> "UNKNOWN", program |-> "", cond |-> "none", dds |-> <<>>]
  ELSE [name |-> c.name, program |-> c.of, cond |-> Operand(c), dds |-> <<>>]

NoJob == [name |-> "", steps |-> <<>>, dds |-> <<>>]
Parsing == [jobs |-> <<>>, job |-> NoJob, seen |-> FALSE]

\* Mutant of add_dd: a DD before the first EXEC of a job is dropped.
add_dd_of_step(job, dd) ==
  IF job.steps = <<>> THEN job
  ELSE [job EXCEPT !.steps[Len(job.steps)].dds = Append(@, dd)]

\* A DD belongs to the last step, or to the job before its first step.
add_dd(job, dd) ==
  IF job.steps = <<>> THEN [job EXCEPT !.dds = Append(@, dd)]
  ELSE [job EXCEPT !.steps[Len(job.steps)].dds = Append(@, dd)]

\* A JOB ends the job before it; what was read before the first JOB is its own.
begin_job(p, c) ==
  LET job == IF p.seen THEN NoJob ELSE p.job
  IN [jobs |-> IF p.seen THEN Append(p.jobs, p.job) ELSE p.jobs, seen |-> TRUE,
      job |-> [name |-> c.name, steps |-> job.steps, dds |-> job.dds]]
add_exec(p, c) == [p EXCEPT !.job.steps = Append(@, parse_exec(c))]

parse_line(p, c) ==
  CASE Says(c, "JOB") -> begin_job(p, c)
    [] Says(c, "EXEC") -> add_exec(p, c)
    [] Says(c, "DD") -> [p EXCEPT !.job = add_dd(@, parse_dd(c))]
    [] OTHER -> p

parse_jobs(p) == IF p.seen \/ p.job # NoJob THEN Append(p.jobs, p.job) ELSE p.jobs

-----------------------------------------------------------------------------
(* JclSemanticBuilder: errors, and what the mapper makes of the model.     *)

\* The raw text is read again for what the parser skips.
Known == {"JOB", "EXEC", "DD", "SET", "comment", "data"}
scan_unsupported(cards) ==
  {CASE Seen(c) = "continuation" -> "UNSUPPORTED_CONTINUATION"
     [] Seen(c) \in {"IF", "ELSE", "ENDIF"} -> "UNSUPPORTED_CONTROL_BLOCK"
     [] Seen(c) \in {"PROC", "PEND"} -> "UNSUPPORTED_PROCEDURE"
     [] OTHER -> "UNSUPPORTED_STATEMENT" :
     c \in {d \in Among(cards) : Seen(d) \notin Known}}

Steps(jobs) == UNION {Among(j.steps) : j \in Among(jobs)}

\* _build_exec: PGM= steps only.
build_exec(jobs) ==
  {IF s.cond = "PROC" THEN "UNSUPPORTED_PROCEDURE" ELSE "STEP_NO_EXEC" :
     s \in {t \in Steps(jobs) : t.program = ""}}

job_level_dds(jobs) ==
  IF \E j \in Among(jobs) : j.dds # <<>> THEN {"JOB_LEVEL_DD"} ELSE {}

\* _build_resource, _dataset_use, _resource_type.
resource_type(dd) ==
  CASE dd.as = "SYSOUT" -> "SYSOUT_LOG"
    [] dd.as \in {"inline", "DATA"} -> "INLINE_PARAMS"
    [] dd.of \in Temporary -> "TEMP"
    [] dd.of # "" /\ dd.as \in {"NEW", "MOD"} -> "OUTPUT"
    [] dd.of # "" /\ dd.as \in {"OLD", "SHR"} -> "INPUT"
    [] OTHER -> "UNKNOWN"

\* _build_control and _ACTIVATION_BY_CONTROL_KIND.
activation(cond) ==
  CASE cond \in {"none", "PROC"} -> "SUCCESS"
    [] cond = "EVEN" -> "*"
    [] cond = "ONLY" -> "FAILED"
    [] cond = "codes" -> "CONDITIONAL"
    [] OTHER -> "UNKNOWN"

map_step(s) ==
  [name |-> s.name, program |-> s.program, activation |-> activation(s.cond),
   resources |-> [i \in DOMAIN s.dds |->
     [name |-> s.dds[i].name, dsn |-> s.dds[i].of, type |-> resource_type(s.dds[i])]]]

build_flow_edges(steps) ==
  [i \in 1..(Len(steps) - 1) |->
     [source |-> steps[i].name, target |-> steps[i + 1].name,
      on_status |-> activation(steps[i + 1].cond)]]

map_job(j) ==
  [name |-> j.name, start_step |-> IF j.steps = <<>> THEN "" ELSE j.steps[1].name,
   steps |-> [i \in DOMAIN j.steps |-> map_step(j.steps[i])],
   flows |-> build_flow_edges(j.steps)]

modernize_jcl(p, cards, lost) ==
  LET jobs == parse_jobs(p)
      errors == scan_unsupported(cards) \cup build_exec(jobs) \cup job_level_dds(jobs)
                  \cup (IF lost THEN {"SOURCE_DECODE_FAILED"} ELSE {})
  IN [jobs |-> [i \in DOMAIN jobs |-> map_job(jobs[i])],
      status |-> IF jobs = <<>> THEN "EMPTY" ELSE IF errors # {} THEN "PARTIAL" ELSE "FULL"]

-----------------------------------------------------------------------------
\* A member begins with a JOB statement; comment fields are left out.
BatchInit ==
  /\ member \in {<<c>> : c \in {d \in Cards : d.stmt = "JOB"}}
  /\ parser = parse_line(Parsing, member[1])
  /\ undecodable \in BOOLEAN
  /\ profile = modernize_jcl(parser, member, undecodable)

\* Data that looks like a statement can only follow a DD DATA.
InStream(m) == \E k \in DOMAIN m : /\ m[k].stmt = "DD" /\ m[k].as = "DATA"
                                  /\ \A j \in (k + 1)..Len(m) : m[j].stmt = "data"

AddCard ==
  /\ Len(member) < MaxCards
  /\ \E c \in Cards : /\ Seen(c) # c.stmt => InStream(member)
                     /\ member' = Append(member, c)
                     /\ parser' = parse_line(parser, c)
  /\ profile' = modernize_jcl(parser', member', undecodable)
  /\ UNCHANGED undecodable

BatchNext == AddCard
BatchSpec == BatchInit /\ [][BatchNext]_batchVars

-----------------------------------------------------------------------------
(* What the JCL m means: an EXEC belongs to the JOB that stands last before *)
(* it, a DD to the EXEC of its job that does.                              *)
Under(m, i, owners, stmt) ==
  {k \in DOMAIN m : /\ m[k].stmt = stmt /\ i < k
                    /\ \A j \in (i + 1)..k : m[j].stmt \notin owners}
At(m, stmt) == {k \in DOMAIN m : m[k].stmt = stmt}
StepsAt(m, i) == Under(m, i, {"JOB"}, "EXEC")
DDsAt(m, i) == Under(m, i, {"JOB", "EXEC"}, "DD")

\* The positions of a set, in order.
Nth(S, n) == CHOOSE k \in {i \in S : Cardinality({j \in S : j <= i}) = n} : TRUE
InOrder(S) == [n \in 1..Cardinality(S) |-> Nth(S, n)]

DDsOf(m, i) ==
  LET ks == InOrder(DDsAt(m, i))
  IN [n \in DOMAIN ks |-> [name |-> m[ks[n]].name, dsn |-> m[ks[n]].of,
                           type |-> resource_type(m[ks[n]])]]
StepsOf(m, i) ==
  LET ks == InOrder(StepsAt(m, i))
  IN [n \in DOMAIN ks |-> [name |-> m[ks[n]].name, program |-> m[ks[n]].of,
                           activation |-> activation(m[ks[n]].as),
                           resources |-> DDsOf(m, ks[n])]]

\* One Spring Batch step per EXEC, entered from the one before it under its
\* own COND.
JobOf(name, steps) ==
  [name |-> name, steps |-> steps,
   start_step |-> IF steps = <<>> THEN "" ELSE steps[1].name,
   flows |-> [k \in 1..(Len(steps) - 1) |->
                [source |-> steps[k].name, target |-> steps[k + 1].name,
                 on_status |-> steps[k + 1].activation]]]
JobsWritten(m) ==
  LET js == InOrder(At(m, "JOB"))
  IN [n \in DOMAIN js |-> JobOf(m[js[n]].name, StepsOf(m, js[n]))]

\* Lines the lane misreads.  Without a diagnostic: a JOB without operands is
\* skipped, and its steps join the job before it (so would an EXEC or a DD); a
\* concatenated DD loses its dataset; a JOB without a name is a job; and data of
\* a DD DATA that looks like a JOB, an EXEC or a DD becomes one, where any other
\* statement it looks like is reported as unsupported.
Misread(c) ==
  \/ c.stmt \in {"JOB", "EXEC", "DD"} /\ c.as = "bare"
  \/ c.stmt \in {"JOB", "DD"} /\ c.name = ""
  \/ c.stmt = "data" /\ Seen(c) \notin {"SET", "comment", "data"}

\* The supported subset, statement by statement.
Supported(m, i) ==
  CASE m[i].stmt = "EXEC" -> m[i].of # "" /\ m[i].name # ""
    [] m[i].stmt = "DD" -> \E k \in At(m, "EXEC") : i \in DDsAt(m, k)
    [] OTHER -> m[i].stmt \in {"JOB", "SET", "comment", "data"}

\* A profile is FULL exactly when every statement of every member is in the
\* supported subset, and then the Spring Batch jobs are the jobs as written:
\* nothing merged, moved to another job or step, or dropped by the parser
\* unnoticed (JclParser against _scan_unsupported, modernize_jcl).
FullIsFaithful ==
  (\A i \in DOMAIN member : ~Misread(member[i])) =>
    /\ profile.status = "FULL"
         <=> (\A i \in DOMAIN member : Supported(member, i)) /\ ~undecodable
    /\ profile.status = "FULL" => profile.jobs = JobsWritten(member)
=============================================================================
