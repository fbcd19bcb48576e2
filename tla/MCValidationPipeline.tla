----------------------- MODULE MCValidationPipeline -----------------------
(* Contracts and programs, container images and tags for TLC.  A behaviour *)
(* is about the artifacts of a validation or about its containers.         *)
EXTENDS ValidationPipeline, Containers

VARIABLE about

Stream(t, exact) ==
  [type |-> t, path |-> <<"process", "stream">>, exact |-> exact,
   on_missing |-> "UNAVAILABLE"]

File(t, path, exact, on_missing) ==
  [type |-> t, path |-> path, exact |-> exact, on_missing |-> on_missing]

Rules(artifacts, invariants) ==
  [artifacts |-> artifacts, invariants |-> invariants]

\* The default contract, one that declares a lenient stdout, and one with
\* business rules.
MCStreamContracts ==
  {Rules({Stream("STDOUT", TRUE), Stream("EXIT_STATUS", TRUE)}, FALSE),
   Rules({Stream("STDOUT", FALSE)}, FALSE),
   Rules({Stream("EXIT_STATUS", TRUE)}, TRUE)}

\* Contracts that name no file, a plain file once or twice, and the file of a
\* keyed SELECT.
MCFileContracts ==
  {Rules({Stream("STDOUT", TRUE)}, FALSE),
   Rules({File("TEXT_FILE", <<"report", "data">>, FALSE, "UNAVAILABLE")}, FALSE),
   Rules({File("TEXT_FILE", <<"report", "data">>, FALSE, "UNAVAILABLE"),
          File("FIXED_RECORD", <<"report", "data">>, TRUE, "FAILED")}, FALSE),
   Rules({File("FIXED_RECORD", <<"master", "data">>, TRUE, "FAILED")}, FALSE)}

MCEmpty == <<"a", "lf">>
MCPrograms == [effects : BOOLEAN]
MCContracts == MCStreamContracts \cup MCFileContracts

\* A behaviour is about the streams, in all their forms and with an exit code,
\* or about the files, in one form, with empty streams and exit code 0.
About(x) ==
  /\ contract \in MCStreamContracts => x.files = NoFiles
  /\ contract \in MCFileContracts =>
       /\ x.exit \in {0, NoExit} \/ x.phase = "BUILD"
       /\ {x.stdout, x.stderr} \subseteq {Empty, Missing}
       /\ \A n \in FileNames : x.files[n] # Missing => x.files[n][2] = "lf"
MCVersion == [i \in Images |-> IF i = "good" THEN "3.2" ELSE "3.1"]
ArtifactsIdle == Init /\ program.effects /\ contract = CHOOSE k \in Contracts : TRUE
ContainersIdle == ContainersInit /\ kind = "java" /\ sets
MCInit == \/ about = "artifacts" /\ Init /\ ContainersIdle
          \/ about = "containers" /\ ContainersInit /\ ArtifactsIdle
MCNext == \/ /\ about = "artifacts" /\ Next /\ About(oracle') /\ About(candidate')
             /\ UNCHANGED <<containerVars, about>>
          \/ about = "containers" /\ ContainersNext /\ UNCHANGED <<vars, about>>
MCSpec == MCInit /\ [][MCNext]_<<vars, containerVars, about>> /\ WatchdogFairness
=============================================================================
