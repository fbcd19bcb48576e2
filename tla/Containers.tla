------------------------------ MODULE Containers ------------------------------
(***************************************************************************)
(* The containers of one validation: the COBOL oracle, the build of the    *)
(* candidate and its execution (engine/oracle/docker_adapter.py,           *)
(* engine/candidate/docker_*_adapter.py, engine/execution/).               *)
(*                                                                         *)
(* Everything outside the adapters moves on its own: tags are rebuilt, the *)
(* daemon refuses or loses a client, programs end or are killed, and the   *)
(* process that waits for them may die.  The model keeps what a container  *)
(* really did (box) beside what the adapter reports of it (result).        *)
(* StageOracle .. ExecuteCandidate of ValidationPipeline are these lanes   *)
(* seen from outside.                                                      *)
(***************************************************************************)
EXTENDS Integers, FiniteSets

CONSTANTS
  Images,           \* immutable identities
  RepoDigests,      \* those Docker reports a registry digest for
  Version,          \* the cobc version in each image
  DeclaredVersion,
  Pin,              \* declared digest of the oracle image, or NoImage
  BuildIdentity,    \* provisioned identity of the build image
  RuntimeDigest,    \* provisioned digest of the runtime image
  NoImage,
  ProgramExits,     \* exit codes a program or compiler ends with
  FirstTag,         \* the image the tags name at the start
  MaxRetags         \* bound on the changes of the tags

ASSUME ContainersAssumption ==
  /\ RepoDigests \subseteq Images /\ NoImage \notin Images
  /\ Pin \in Images \cup {NoImage}
  /\ FirstTag \in Images \cup {NoImage}
  /\ ProgramExits \subseteq 0..136 /\ 0 \in ProgramExits

VARIABLES
  kind,       \* "spring": Maven and java -jar, "java": javac and java
  sets,       \* does the COBOL source set RETURN-CODE?
  tag,        \* the image each tag names now
  retags,
  adapter,    \* identities observed by the candidate adapter's constructor
  compilers,  \* _OBSERVED_COMPILER_VERSIONS
  lane, step, \* where the validating thread is
  ref,        \* the image reference it runs next
  client,     \* how docker run ended for it
  box,        \* the container of each lane
  result      \* what the adapter reported of each lane

containerVars == <<kind, sets, tag, retags, adapter, compilers, lane, step, ref,
                 client, box, result>>

Lanes == {"oracle", "build", "exec"}
Roles == {"oracle", "build", "runtime"}
KILLED == 137
NoStatus == -1

NoBox == [state |-> "none", image |-> NoImage, by |-> "none", exit |-> NoStatus,
          wrote |-> "part", marks |-> {}]
NoResult == [how |-> "none", exit |-> NoStatus, image |-> NoImage, seen |-> "nothing"]
NoClient == [how |-> "none", code |-> NoStatus]

Report(how, exit, image, seen) ==
  [how |-> how, exit |-> exit, image |-> image, seen |-> seen]

ContainersInit ==
  /\ kind \in {"spring", "java"} /\ sets \in BOOLEAN
  /\ tag = [r \in Roles |-> FirstTag] /\ retags = 0
  /\ adapter = [build |-> NoImage, runtime |-> NoImage, available |-> FALSE]
  /\ compilers = {}
  /\ lane = "none" /\ step = "construct"
  /\ ref = NoImage /\ client = NoClient
  /\ box = [l \in Lanes |-> NoBox] /\ result = [l \in Lanes |-> NoResult]

-----------------------------------------------------------------------------
(* Images.                                                                 *)

\* Somebody rebuilds, pulls or removes a tag that is still to be read.
Retag ==
  /\ retags < MaxRetags
  /\ \E r \in Roles, i \in Images \cup {NoImage} :
       /\ i # tag[r] /\ lane \in (IF r = "oracle" THEN {"none", "oracle"} ELSE {"none", "oracle", "build"})
       /\ tag' = [tag EXCEPT ![r] = i]
  /\ retags' = retags + 1
  /\ UNCHANGED <<kind, sets, adapter, compilers, lane, step, ref, client, box, result>>

\* resolve_docker_image_identity: the tag's identity, or none when the daemon
\* or the inspection fails.
Observed(role) == {NoImage, tag[role]}

verify_image_identity(expected, observed, require_repo_digest) ==
  /\ observed # NoImage
  /\ require_repo_digest => observed \in RepoDigests
  /\ observed = expected

\* A candidate lane is available only on verified images: the Spring Boot lane
\* on the provisioned ones, the plain Java lane on any registry digest.
SpringAvailable(b, r) ==
  /\ verify_image_identity(BuildIdentity, b, FALSE)
  /\ verify_image_identity(RuntimeDigest, r, TRUE)
JavaAvailable(r) == r \in RepoDigests

\* The adapter constructors.
Construct ==
  /\ step = "construct"
  /\ \E b \in Observed("build"), r \in Observed("runtime") :
       adapter' = [build |-> b, runtime |-> r,
                   available |->
                     IF kind = "spring" THEN SpringAvailable(b, r) ELSE JavaAvailable(r)]
  /\ lane' = "oracle" /\ step' = "resolve"
  /\ UNCHANGED <<kind, sets, tag, retags, compilers, ref, client, box, result>>

-----------------------------------------------------------------------------
(* The validating thread.                                                  *)

NextLane(l, how) == IF l = "oracle" THEN "build"
                    ELSE IF l = "build" /\ how = "built" THEN "exec" ELSE "done"

\* A lane returns its result.
Return(r) ==
  /\ result' = [result EXCEPT ![lane] = r]
  /\ lane' = NextLane(lane, r.how)
  /\ step' = IF lane' = "done" THEN "done" ELSE "resolve"
  /\ client' = NoClient /\ ref' = NoImage

Unable(image) ==
  Return(Report(IF lane = "build" THEN "infrastructure" ELSE "error", NoStatus, image, "nothing"))

\* DockerOracleAdapter.execute: the image that will run, against the pin.
ResolveOracle ==
  /\ lane = "oracle" /\ step = "resolve"
  /\ \E id \in Observed("oracle") :
       IF id = NoImage \/ (Pin # NoImage /\ Pin # id)
       THEN Unable(id)
       ELSE /\ ref' = id /\ step' = "compiler"
            /\ UNCHANGED <<lane, client, result>>
  /\ UNCHANGED <<kind, sets, tag, retags, adapter, compilers, box>>

\* _observed_compiler_version: cobc --version in that image, once per identity.
CheckCompiler ==
  /\ step = "compiler"
  /\ \E answered \in BOOLEAN :
       LET known == ref \in compilers \/ answered
       IN /\ compilers' = IF known THEN compilers \cup {ref} ELSE compilers
          /\ IF known /\ Version[ref] = DeclaredVersion
             THEN /\ step' = "stage"
                  /\ UNCHANGED <<lane, ref, client, result>>
             ELSE Unable(ref)
  /\ UNCHANGED <<kind, sets, tag, retags, adapter, box>>

\* Mutant of run_ref: the tag is run, whatever it names by now.
run_ref_by_tag(role, id, verified) ==
  IF id = NoImage THEN verified ELSE id

\* _fresh_build_ref, _fresh_runtime_ref: a probe that fails leaves the verified
\* identity, one that finds another image refuses.
run_ref(role, id, verified) ==
  IF id \in {NoImage, verified} THEN verified ELSE NoImage

Stage(image) ==
  /\ ref' = image /\ step' = "stage"
  /\ UNCHANGED <<lane, client, result>>

\* The Spring Boot adapter asks for the tag's identity again before each run.
ResolveSpring ==
  /\ kind = "spring" /\ lane \in {"build", "exec"} /\ step = "resolve"
  /\ LET role == IF lane = "build" THEN "build" ELSE "runtime"
     IN \E id \in Observed(role) :
          LET image == run_ref(role, id, adapter[role])
          IN IF ~adapter.available \/ image = NoImage THEN Unable(NoImage) ELSE Stage(image)
  /\ UNCHANGED <<kind, sets, tag, retags, adapter, compilers, box>>

\* The plain Java adapter runs the digest it found when it was constructed.
ResolveJava ==
  /\ kind = "java" /\ lane \in {"build", "exec"} /\ step = "resolve"
  /\ IF adapter.available THEN Stage(adapter.runtime) ELSE Unable(NoImage)
  /\ UNCHANGED <<kind, sets, tag, retags, adapter, compilers, box>>

\* The staging root or a copy fails, programs span several directories or no
\* entry module can be proven; or the source holds no program at all.
StageOracleFails ==
  /\ lane = "oracle" /\ step = "stage"
  /\ Unable(ref) \/ Return(Report("nonzero_exit", 1, ref, "nothing"))
  /\ UNCHANGED <<kind, sets, tag, retags, adapter, compilers, box>>

\* The project cannot be copied; or, for javac, it names no Java file.
StageBuildFails ==
  /\ lane = "build" /\ step = "stage"
  /\ \/ Unable(ref)
     \/ kind = "java" /\ Return(Report("failed", 1, ref, "no source"))
  /\ UNCHANGED <<kind, sets, tag, retags, adapter, compilers, box>>

\* The compiled program or its inputs cannot be copied; or there is no jar, or
\* another beside the one the build left.
StageExecFails ==
  /\ lane = "exec" /\ step = "stage"
  /\ Unable(ref)
  /\ UNCHANGED <<kind, sets, tag, retags, adapter, compilers, box>>

\* docker run: the container starts, the daemon refuses it, or the client
\* cannot be started at all.
DockerRun ==
  /\ step = "stage"
  /\ \/ /\ box' = [box EXCEPT ![lane] = [NoBox EXCEPT !.image = ref,
                     !.state = IF lane = "oracle" THEN "compile" ELSE "run"]]
        /\ step' = "wait" /\ UNCHANGED client
     \/ /\ \E c \in 125..127 : client' = [how |-> "refused", code |-> c]
        /\ step' = "collect" /\ UNCHANGED box
     \/ /\ client' = [how |-> "raised", code |-> NoStatus]
        /\ step' = "collect" /\ UNCHANGED box
  /\ UNCHANGED <<kind, sets, tag, retags, adapter, compilers, lane, ref, result>>

\* subprocess.run: the container ended, the host's limit ran out, or the client
\* lost the daemon, with a message of the daemon ("refused") or one of its own
\* ("lost": "error waiting for container: unexpected EOF").
ClientReturns ==
  /\ step = "wait"
  /\ \/ /\ box[lane].state = "ended"
        /\ client' = [how |-> "exit", code |-> box[lane].exit] /\ step' = "collect"
     \/ /\ \E how \in {"refused", "lost"} : client' = [how |-> how, code |-> 125]
        /\ step' = "collect"
     \/ client' = [how |-> "timeout", code |-> NoStatus] /\ step' = "cleanup"
  /\ UNCHANGED <<kind, sets, tag, retags, adapter, compilers, lane, ref, box, result>>

Live(l) == box[l].state \in {"compile", "run"}

Ended(l, by, exit) ==
  box' = [box EXCEPT ![l].state = "ended", ![l].by = by, ![l].exit = exit]

\* cleanup_container: docker stop and docker rm -f, each of which may fail.
Cleanup ==
  /\ step = "cleanup"
  /\ \/ Live(lane) /\ Ended(lane, "docker", KILLED)
     \/ UNCHANGED box
  /\ step' = "collect"
  /\ UNCHANGED <<kind, sets, tag, retags, adapter, compilers, lane, ref, client, result>>

-----------------------------------------------------------------------------
(* Results.                                                                *)

\* is_docker_infrastructure_exit: a build never exits 125..127; of a program's
\* end only a message that begins with "docker:" or names the daemon tells.
is_docker_infrastructure_exit(build) ==
  client.code \in 125..127 /\ (build \/ client.how = "refused")

\* classify_oracle_termination: the exit code is the program's own only if it
\* compiled, sets RETURN-CODE and libcob reported no error.
classify_termination(b) ==
  IF client.code = 0 THEN "normal"
  ELSE IF "compiled" \in b.marks /\ sets /\ b.by # "libcob" THEN "return_code"
  ELSE "nonzero_exit"

\* Mutant of oracle_timeout: the markers of the watchdogs are not looked at.
oracle_timeout_by_client(b) == client.how = "timeout"

\* The host's limit, or a marker one of the watchdogs left.
oracle_timeout(b) ==
  client.how = "timeout" \/ {"compile_timeout", "run_timeout"} \cap b.marks # {}

OracleReport(b) ==
  IF oracle_timeout(b) THEN Report("timeout", NoStatus, ref, b.wrote)
  ELSE Report(classify_termination(b), client.code, ref, b.wrote)

\* A build that could not finish is an infrastructure error, one that failed is
\* the candidate's.
Unbuilt ==
  Report(IF client.how = "timeout" \/ is_docker_infrastructure_exit(TRUE)
         THEN "infrastructure" ELSE "failed", 1, ref, "nothing")
BuildSucceeded == client.how # "timeout" /\ client.code = 0

\* Maven has to leave exactly one jar, javac at least one class file.
MavenReport(b, jars) ==
  IF ~BuildSucceeded THEN Unbuilt
  ELSE Report(IF jars = "one" THEN "built" ELSE "failed", 1, ref, b.wrote)
JavacReport(b, classes) ==
  IF ~BuildSucceeded THEN Unbuilt
  ELSE Report(IF classes # "none" THEN "built" ELSE "failed", 1, ref, b.wrote)

\* run_container.
ExecReport(b) ==
  IF client.how = "timeout" \/ is_docker_infrastructure_exit(FALSE)
  THEN Report(IF client.how = "timeout" THEN "timeout" ELSE "error", NoStatus, ref, b.wrote)
  ELSE Report(IF client.code = 0 THEN "normal" ELSE "nonzero_exit", client.code, ref, b.wrote)

\* What the lane left is read and classified.  A link, a special file, too much
\* output (read_sandbox_file, collect_generated_files) or a staging directory
\* that cannot be removed raises: an error, never a result without it.
Collect ==
  /\ step = "collect"
  /\ \/ Unable(ref)
     \/ /\ client.how # "raised"
        /\ \/ lane = "oracle" /\ Return(OracleReport(box[lane]))
           \/ /\ lane = "build"
              /\ \E files \in {"none", "one", "several"} :
                   Return(IF kind = "spring" THEN MavenReport(box[lane], files)
                                             ELSE JavacReport(box[lane], files))
           \/ lane = "exec" /\ Return(ExecReport(box[lane]))
  /\ UNCHANGED <<kind, sets, tag, retags, adapter, compilers, box>>

\* The process dies; nothing restarts the thread, and no container is told.
ProcessDies ==
  /\ step \notin {"construct", "done"}
  /\ lane' = "done" /\ step' = "done" /\ ref' = NoImage /\ client' = NoClient
  /\ UNCHANGED <<kind, sets, tag, retags, adapter, compilers, box, result>>

-----------------------------------------------------------------------------
(* The containers: oracle_shell_command, and any program.                  *)

BoxStep == UNCHANGED <<kind, sets, tag, retags, adapter, compilers, lane, step, ref,
                       client, result>>

\* cobc ends: the program is exec'd, or its exit status is the container's.
CompileEnds ==
  /\ box["oracle"].state = "compile"
  /\ \/ box' = [box EXCEPT !["oracle"].state = "run", !["oracle"].marks = {"compiled"}]
     \/ \E e \in ProgramExits \ {0} : Ended("oracle", "compiler", e)
  /\ BoxStep

\* Mutant of CompileExpires: cobc is bounded by the host's limit alone.
CompileExpires_by_host ==
  /\ box["oracle"].state = "compile" /\ lane = "oracle" /\ step = "cleanup"
  /\ Ended("oracle", "watchdog", KILLED)
  /\ BoxStep

\* timeout -s KILL cobc.
CompileExpires ==
  /\ box["oracle"].state = "compile"
  /\ box' = [box EXCEPT !["oracle"] =
       [@ EXCEPT !.state = "ended", !.by = "watchdog", !.exit = KILLED,
                 !.marks = {"compile_timeout"}]]
  /\ BoxStep

\* The watchdog sleeps, marks and kills; the program may end in between.
WatchdogMarks ==
  /\ box["oracle"].state = "run" /\ "run_timeout" \notin box["oracle"].marks
  /\ box' = [box EXCEPT !["oracle"].marks = @ \cup {"run_timeout"}]
  /\ BoxStep

WatchdogKills ==
  /\ box["oracle"].state = "run" /\ "run_timeout" \in box["oracle"].marks
  /\ Ended("oracle", "watchdog", KILLED)
  /\ BoxStep

\* A program ends, having written everything; libcob ends it; the kernel kills
\* it.
ProgramRuns ==
  /\ \E l \in Lanes :
       /\ box[l].state = "run"
       /\ \/ \E e \in ProgramExits :
               box' = [box EXCEPT ![l] = [@ EXCEPT !.state = "ended", !.by = "itself",
                                                   !.exit = e, !.wrote = "whole"]]
          \/ l = "oracle" /\ Ended(l, "libcob", 1)
          \/ Ended(l, "kernel", KILLED)
  /\ BoxStep

ContainersNext ==
  \/ Retag \/ Construct
  \/ ResolveOracle \/ CheckCompiler \/ ResolveSpring \/ ResolveJava
  \/ StageOracleFails \/ StageBuildFails \/ StageExecFails
  \/ DockerRun \/ ClientReturns \/ Cleanup \/ Collect
  \/ ProcessDies
  \/ CompileEnds \/ CompileExpires \/ WatchdogMarks \/ WatchdogKills \/ ProgramRuns

\* The watchdogs are processes of the container and run whatever happens to
\* the host's.
WatchdogFairness ==
  /\ WF_containerVars(CompileExpires)
  /\ WF_containerVars(WatchdogMarks)
  /\ WF_containerVars(WatchdogKills)

ContainersSpec == ContainersInit /\ [][ContainersNext]_containerVars /\ WatchdogFairness

-----------------------------------------------------------------------------
(* Properties.                                                             *)

\* Three ends the adapters cannot tell from the program's own: the kernel's
\* SIGKILL (out of memory) is an exit code of 137, an oracle whose client loses
\* the daemon reports Docker's 125 as a RETURN-CODE, and an execution whose
\* client does so without naming the daemon reports it as the program's.
Indistinct(l) ==
  \/ box[l].by = "kernel"
  \/ l = "oracle" /\ result[l].how = "return_code" /\ result[l].exit = 125
  \/ l = "exec" /\ result[l].how = "nonzero_exit" /\ result[l].exit = 125

\* The results the verdict treats as behaviour of a program.
Comparable(l) ==
  result[l].how \in IF l = "oracle" THEN {"normal", "return_code"}
                    ELSE IF l = "build" THEN {"built", "failed"}
                    ELSE {"normal", "nonzero_exit"}

\* What is compared is a whole execution: the program ended by itself, with
\* that exit code, everything it wrote was read, and the build the candidate
\* is blamed for ran to its end (oracle_shell_command, run_container and
\* compile against timeouts, refusals and lost clients: "a build that could
\* not finish says nothing about the program's behaviour").
ComparedIsWhole ==
  \A l \in Lanes : Comparable(l) /\ ~Indistinct(l) /\ result[l].seen # "no source" =>
    /\ box[l].state = "ended" /\ box[l].by = "itself"
    /\ result[l].how # "failed" => result[l].seen = "whole"
    /\ l # "build" => result[l].exit = box[l].exit

\* The images a lane may run: of the declared compiler and pin; as provisioned;
\* the runtime found by its registry digest.
Verified(l, image) ==
  IF l = "oracle" THEN /\ Version[image] = DeclaredVersion
                       /\ Pin # NoImage => image = Pin
  ELSE IF l = "build" /\ kind = "spring" THEN image = BuildIdentity
  ELSE /\ image = adapter.runtime /\ image \in RepoDigests
       /\ kind = "spring" => image = RuntimeDigest

\* Every container runs the image that was verified, and the evidence names
\* it, although tags move between the check, the version probe and the run
\* (_resolve_image_identity, _fresh_build_ref, _fresh_runtime_ref).
VerifiedImagesRan ==
  \A l \in Lanes : box[l].state # "none" =>
    /\ Verified(l, box[l].image)
    /\ Comparable(l) => result[l].image = box[l].image

\* The oracle's container ends whatever becomes of the client and of this
\* process (the watchdogs of oracle_shell_command).
OracleContainerEnds == Live("oracle") ~> ~Live("oracle")
=============================================================================
