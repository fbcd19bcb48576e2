------------------------ MODULE SourceWorkspace_proofs ------------------------
(***************************************************************************)
(* Proofs about applications and their sources, for any number of          *)
(* applications, request threads and directories.  Overlapping uploads and *)
(* ingests never delete a source that a row points at or is about to point *)
(* at, as long as a failed write leaves no trace.  Requests that do not    *)
(* overlap give every application a name of its own and leave a run in     *)
(* progress its source.                                                    *)
(***************************************************************************)
EXTENDS SourceWorkspace, FiniteSetTheorems, WellFoundedInduction, TLAPS

\* The requests that hold the previous source, and those that hold a directory
\* no row points at.
Holding == {"loaded", "discover", "update", "cleanup"}
Pending == {"discover", "update", "discard"}

\* Rows and requests are functions, requests are records.
Shape ==
  /\ app = [a \in Apps |-> app[a]]
  /\ req = [c \in Clients |-> req[c]]
  /\ \A c \in Clients :
       req[c] = [pc |-> req[c].pc, op |-> req[c].op, app |-> req[c].app,
                 run |-> req[c].run, previous |-> req[c].previous,
                 dir |-> req[c].dir, name |-> req[c].name]
  /\ \A c \in Clients :
       req[c].pc \in Pending \cup Holding \cup {"checked"} => req[c].app \in Apps

Directories == disk \subseteq used /\ used \subseteq Dirs

\* Rows point at directories of their own application that are on disk.
RowsPointAtDisk ==
  \A a \in Apps :
    app[a].source # None => app[a].source \in disk /\ app[a].source[1] = a

\* A directory that is not recorded yet belongs to one request alone.
PendingIsPrivate ==
  \A c \in Clients : req[c].pc \in Pending =>
    /\ req[c].dir \in used /\ req[c].dir[1] = req[c].app
    /\ req[c].pc # "discard" => req[c].dir \in disk
    /\ \A a \in Apps : app[a].source # req[c].dir
    /\ \A e \in Clients \ {c} : req[e].pc \in Pending => req[e].dir # req[c].dir

\* What a request will clean up was a source of its application.
PreviousWasRecorded ==
  \A c \in Clients : req[c].pc \in Holding =>
    /\ req[c].previous # None =>
         req[c].previous \in used /\ req[c].previous[1] = req[c].app
    /\ \A e \in Clients : req[e].pc \in Pending => req[e].dir # req[c].previous
    /\ req[c].pc = "cleanup" => \A a \in Apps :
         app[a].source # None => app[a].source # req[c].previous

\* The inductive invariant.
WorkspaceInvariant ==
  /\ Shape
  /\ Directories
  /\ RowsPointAtDisk
  /\ PendingIsPrivate
  /\ PreviousWasRecorded

-----------------------------------------------------------------------------
(* Steps of one request.                                                   *)

\* Setting a request leaves the other requests alone.
LEMMA SetRequest ==
  ASSUME Shape, NEW c \in Clients, NEW v, req' = [req EXCEPT ![c] = v]
  PROVE  /\ req'[c] = v
         /\ \A e \in Clients \ {c} : req'[e] = req[e]
         /\ req' = [e \in Clients |-> req'[e]]
BY DEF Shape

\* A request that ends, or starts without holding anything, keeps the invariant.
LEMMA RequestWithoutDirectory ==
  ASSUME WorkspaceInvariant, NEW c \in Clients, NEW v,
         req' = [req EXCEPT ![c] = v], UNCHANGED <<app, disk, used>>,
         v = [pc |-> v.pc, op |-> v.op, app |-> v.app, run |-> v.run,
              previous |-> v.previous, dir |-> v.dir, name |-> v.name],
         v.pc \notin Pending \cup Holding,
         v.pc = "checked" => v.app \in Apps
  PROVE  WorkspaceInvariant'
<1>s. Shape BY DEF WorkspaceInvariant
<1>1. /\ req'[c] = v
      /\ \A e \in Clients \ {c} : req'[e] = req[e]
      /\ req' = [e \in Clients |-> req'[e]]
  BY <1>s, SetRequest
<1>2. Shape' BY <1>1, <1>s DEF Shape
<1>3. Directories' BY DEF WorkspaceInvariant, Directories
<1>4. RowsPointAtDisk' BY DEF WorkspaceInvariant, RowsPointAtDisk
<1>5. PendingIsPrivate'
  BY <1>1 DEF WorkspaceInvariant, PendingIsPrivate
<1>6. PreviousWasRecorded'
  BY <1>1 DEF WorkspaceInvariant, PreviousWasRecorded
<1> QED BY <1>2, <1>3, <1>4, <1>5, <1>6 DEF WorkspaceInvariant

\* Idle is a request without directories.
LEMMA IdleRequest ==
  /\ Idle = [pc |-> Idle.pc, op |-> Idle.op, app |-> Idle.app, run |-> Idle.run,
             previous |-> Idle.previous, dir |-> Idle.dir, name |-> Idle.name]
  /\ Idle.pc = "idle"
BY DEF Idle

-----------------------------------------------------------------------------
(* One lemma per kind of step.                                             *)

\* Loading the row: previous is the source the row points at.
LEMMA LoadKeeps ==
  ASSUME WorkspaceInvariant, NEW c \in Clients, LoadApplication(c)
  PROVE  WorkspaceInvariant'
<1>s. Shape BY DEF WorkspaceInvariant
<1> DEFINE a == req[c].app
           v == [pc |-> "loaded", op |-> req[c].op, app |-> a, run |-> None,
                 previous |-> app[a].source, dir |-> None, name |-> app[a].name]
<1>1. /\ req[c].pc = "checked" /\ a \in Apps
      /\ req' = [req EXCEPT ![c] = v]
      /\ UNCHANGED <<app, disk, used>>
  BY <1>s DEF LoadApplication, Proceed, Shape
<1>2. /\ v.pc = "loaded" /\ v.app = a /\ v.previous = app[a].source
      /\ v = [pc |-> v.pc, op |-> v.op, app |-> v.app, run |-> v.run,
              previous |-> v.previous, dir |-> v.dir, name |-> v.name]
  OBVIOUS
<1>3. /\ req'[c] = v
      /\ \A e \in Clients \ {c} : req'[e] = req[e]
      /\ req' = [e \in Clients |-> req'[e]]
  <2> HIDE DEF v
  <2> QED BY <1>s, <1>1, SetRequest
<1> HIDE DEF v
<1>4. Shape' BY <1>1, <1>2, <1>3, <1>s DEF Shape
<1>5. Directories' BY <1>1 DEF WorkspaceInvariant, Directories
<1>6. RowsPointAtDisk' BY <1>1 DEF WorkspaceInvariant, RowsPointAtDisk
<1>7. PendingIsPrivate'
  BY <1>1, <1>2, <1>3 DEF WorkspaceInvariant, PendingIsPrivate, Pending
<1>8. PreviousWasRecorded'
  <2>1. /\ app[a].source # None =>
             app[a].source \in used /\ app[a].source[1] = a
        /\ \A e \in Clients : req[e].pc \in Pending =>
             req[e].dir # app[a].source
    BY <1>1 DEF WorkspaceInvariant, RowsPointAtDisk, Directories,
       PendingIsPrivate
  <2> QED BY <1>1, <1>2, <1>3, <2>1
          DEF WorkspaceInvariant, PreviousWasRecorded, Holding, Pending
<1> QED BY <1>4, <1>5, <1>6, <1>7, <1>8 DEF WorkspaceInvariant

\* Writing the new source: the path was never handed out before.
LEMMA WriteKeeps ==
  ASSUME WorkspaceInvariant, NEW c \in Clients, WriteSource(c)
  PROVE  WorkspaceInvariant'
<1>s. Shape BY DEF WorkspaceInvariant
<1> DEFINE pc == IF req[c].op = "ingest" THEN "discover" ELSE "update"
           name == IF req[c].op = "ingest" THEN req[c].name ELSE None
           v(d) == [pc |-> pc, op |-> req[c].op, app |-> req[c].app,
                    run |-> None, previous |-> req[c].previous, dir |-> d,
                    name |-> name]
<1>1. PICK d \in Dirs \ used :
        /\ req[c].pc = "loaded"
        /\ d[1] = req[c].app
        /\ used' = used \cup {d} /\ disk' = disk \cup {d} /\ app' = app
        /\ req' = [req EXCEPT ![c] = v(d)]
  BY DEF WriteSource, Proceed
<1>2. /\ v(d).pc \in {"discover", "update"} /\ v(d).app = req[c].app
      /\ v(d).dir = d /\ v(d).previous = req[c].previous
      /\ v(d) = [pc |-> v(d).pc, op |-> v(d).op, app |-> v(d).app,
                 run |-> v(d).run, previous |-> v(d).previous,
                 dir |-> v(d).dir, name |-> v(d).name]
  OBVIOUS
<1> DEFINE w == v(d)
<1> HIDE DEF v
<1>3. /\ req'[c] = w
      /\ \A e \in Clients \ {c} : req'[e] = req[e]
      /\ req' = [e \in Clients |-> req'[e]]
  BY <1>s, <1>1, SetRequest
<1>4. /\ w.pc \in {"discover", "update"} /\ w.app = req[c].app
      /\ w.dir = d /\ w.previous = req[c].previous
      /\ w = [pc |-> w.pc, op |-> w.op, app |-> w.app, run |-> w.run,
              previous |-> w.previous, dir |-> w.dir, name |-> w.name]
  BY <1>2
<1> HIDE DEF w
<1>5. Shape' BY <1>1, <1>3, <1>4, <1>s DEF Shape, Holding
<1>6. Directories' BY <1>1 DEF WorkspaceInvariant, Directories
<1>7. RowsPointAtDisk' BY <1>1 DEF WorkspaceInvariant, RowsPointAtDisk
<1>8. PendingIsPrivate'
  <2>1. \A a \in Apps : app[a].source # d
    <3>1. d \notin used /\ d \in Dirs /\ d # None
      BY <1>1, WorkspaceAssumption
    <3> QED BY <3>1 DEF WorkspaceInvariant, RowsPointAtDisk, Directories
  <2>2. \A e \in Clients : req[e].pc \in Pending => req[e].dir # d
    BY <1>1 DEF WorkspaceInvariant, PendingIsPrivate
  <2> QED BY <1>1, <1>3, <1>4, <2>1, <2>2
          DEF WorkspaceInvariant, PendingIsPrivate
<1>9. PreviousWasRecorded'
  <2>1. \A e \in Clients : req[e].pc \in Holding => req[e].previous # d
    BY <1>1, WorkspaceAssumption DEF WorkspaceInvariant, PreviousWasRecorded
  <2>2. req[c].pc \in Holding BY <1>1 DEF Holding
  <2> QED BY <1>1, <1>3, <1>4, <2>1, <2>2
          DEF WorkspaceInvariant, PreviousWasRecorded, Holding, Pending
<1> QED BY <1>5, <1>6, <1>7, <1>8, <1>9 DEF WorkspaceInvariant

\* A request that goes on with the directories it has.
LEMMA ProceedKeeps ==
  ASSUME WorkspaceInvariant, NEW c \in Clients, NEW v,
         req' = [req EXCEPT ![c] = v], UNCHANGED <<app, disk, used>>,
         v = [pc |-> v.pc, op |-> v.op, app |-> v.app, run |-> v.run,
              previous |-> v.previous, dir |-> v.dir, name |-> v.name],
         v.app = req[c].app, v.previous = req[c].previous, v.dir = req[c].dir,
         req[c].pc \in {"discover", "update"}, v.pc \in {"update", "discard"}
  PROVE  WorkspaceInvariant'
<1>s. Shape BY DEF WorkspaceInvariant
<1>1. /\ req'[c] = v
      /\ \A e \in Clients \ {c} : req'[e] = req[e]
      /\ req' = [e \in Clients |-> req'[e]]
  BY <1>s, SetRequest
<1>2. Shape' BY <1>1, <1>s DEF Shape, Holding
<1>3. Directories' BY DEF WorkspaceInvariant, Directories
<1>4. RowsPointAtDisk' BY DEF WorkspaceInvariant, RowsPointAtDisk
<1>5. PendingIsPrivate'
  BY <1>1 DEF WorkspaceInvariant, PendingIsPrivate, Pending
<1>6. PreviousWasRecorded'
  BY <1>1 DEF WorkspaceInvariant, PreviousWasRecorded, Pending, Holding
<1> QED BY <1>2, <1>3, <1>4, <1>5, <1>6 DEF WorkspaceInvariant

\* Recording the new source: the old one becomes a directory to clean up.
LEMMA UpdateKeeps ==
  ASSUME WorkspaceInvariant, NEW c \in Clients, UpdateApplication(c)
  PROVE  WorkspaceInvariant'
<1>s. Shape BY DEF WorkspaceInvariant
<1> DEFINE a == req[c].app
           row == [exists |-> TRUE, source |-> req[c].dir,
                   name |-> IF req[c].name = None THEN app[a].name
                            ELSE req[c].name]
           v == [pc |-> "cleanup", op |-> req[c].op, app |-> a, run |-> None,
                 previous |-> req[c].previous, dir |-> req[c].dir, name |-> None]
<1>1. /\ req[c].pc = "update" /\ a \in Apps
      /\ app' = [app EXCEPT ![a] = row]
      /\ req' = [req EXCEPT ![c] = v]
      /\ UNCHANGED <<disk, used>>
  BY <1>s DEF UpdateApplication, update_application_fields, Proceed, Shape,
              Pending
<1>2. /\ v.pc = "cleanup" /\ v.app = a /\ v.previous = req[c].previous
      /\ v = [pc |-> v.pc, op |-> v.op, app |-> v.app, run |-> v.run,
              previous |-> v.previous, dir |-> v.dir, name |-> v.name]
  OBVIOUS
<1>3. row.source = req[c].dir OBVIOUS
<1> HIDE DEF v, row
<1>4. /\ req'[c] = v
      /\ \A e \in Clients \ {c} : req'[e] = req[e]
      /\ req' = [e \in Clients |-> req'[e]]
  BY <1>s, <1>1, SetRequest
<1>5. /\ app'[a].source = req[c].dir
      /\ \A b \in Apps \ {a} : app'[b] = app[b]
      /\ app' = [b \in Apps |-> app'[b]]
  BY <1>1, <1>3, <1>s DEF Shape
<1>6. /\ req[c].pc \in Pending /\ req[c].pc \in Holding
      /\ req[c].pc # "discard"
  BY <1>1 DEF Pending, Holding
<1>7. /\ req[c].dir \in disk /\ req[c].dir[1] = a
      /\ \A e \in Clients \ {c} : req[e].pc \in Pending => req[e].dir # req[c].dir
  BY <1>6 DEF WorkspaceInvariant, PendingIsPrivate
<1>8. Shape' BY <1>1, <1>2, <1>4, <1>5, <1>s DEF Shape
<1>9. Directories' BY <1>1 DEF WorkspaceInvariant, Directories
<1>10. RowsPointAtDisk'
  BY <1>1, <1>5, <1>7 DEF WorkspaceInvariant, RowsPointAtDisk
<1>11. PendingIsPrivate'
  <2>1. "cleanup" \notin Pending BY DEF Pending
  <2> QED BY <1>1, <1>2, <1>4, <1>5, <1>7, <2>1
          DEF WorkspaceInvariant, PendingIsPrivate
<1>12. PreviousWasRecorded'
  <2>1. \A e \in Clients : req[e].pc \in Holding => req[e].previous # req[c].dir
    BY <1>6 DEF WorkspaceInvariant, PreviousWasRecorded
  <2>2. /\ req[c].previous # None =>
             req[c].previous \in used /\ req[c].previous[1] = a
        /\ \A e \in Clients : req[e].pc \in Pending => req[e].dir # req[c].previous
    BY <1>6 DEF WorkspaceInvariant, PreviousWasRecorded
  <2>3. \A b \in Apps : app'[b].source # None => app'[b].source # req[c].previous
    <3> SUFFICES ASSUME NEW b \in Apps, app'[b].source # None,
                        app'[b].source = req[c].previous
                 PROVE  FALSE
      OBVIOUS
    <3>1. b # a BY <1>5, <1>6, <2>1
    <3>2. app'[b].source[1] = b
      BY <1>5, <3>1 DEF WorkspaceInvariant, RowsPointAtDisk
    <3> QED BY <2>2, <3>1, <3>2
  <2>4. ASSUME NEW e \in Clients \ {c}, req[e].pc \in Holding
        PROVE  /\ req[e].previous # None =>
                    req[e].previous \in used /\ req[e].previous[1] = req[e].app
               /\ \A f \in Clients : req'[f].pc \in Pending =>
                    req'[f].dir # req[e].previous
               /\ req[e].pc = "cleanup" => \A b \in Apps :
                    app'[b].source # None => app'[b].source # req[e].previous
    <3>1. \A f \in Clients : req'[f].pc \in Pending =>
            req[f].pc \in Pending /\ req'[f].dir = req[f].dir
      BY <1>2, <1>4 DEF Pending
    <3>2. req[e].pc = "cleanup" => \A b \in Apps :
            app'[b].source # None => app'[b].source # req[e].previous
      BY <1>5, <2>1, <2>4 DEF WorkspaceInvariant, PreviousWasRecorded
    <3> QED BY <2>4, <3>1, <3>2 DEF WorkspaceInvariant, PreviousWasRecorded
  <2>5. \A f \in Clients : req'[f].pc \in Pending =>
          req'[f].dir # req[c].previous
    BY <1>2, <1>4, <2>2 DEF Pending
  <2> QED BY <1>1, <1>2, <1>4, <2>2, <2>3, <2>4, <2>5 DEF PreviousWasRecorded
<1> QED BY <1>8, <1>9, <1>10, <1>11, <1>12 DEF WorkspaceInvariant

\* Deleting a directory that no row and no pending request has.
LEMMA DeleteKeeps ==
  ASSUME WorkspaceInvariant, NEW c \in Clients, NEW d,
         req' = [req EXCEPT ![c] = Idle], cleanup_temp_dir(d),
         UNCHANGED <<app, used>>,
         \A a \in Apps : app[a].source # None => app[a].source # d,
         \A e \in Clients \ {c} : req[e].pc \in Pending => req[e].dir # d
  PROVE  WorkspaceInvariant'
<1>s. Shape BY DEF WorkspaceInvariant
<1>1. /\ req'[c] = Idle
      /\ \A e \in Clients \ {c} : req'[e] = req[e]
      /\ req' = [e \in Clients |-> req'[e]]
  BY <1>s, SetRequest
<1>2. Idle.pc \notin Pending \cup Holding \cup {"checked"}
  BY IdleRequest DEF Pending, Holding
<1>3. disk' \subseteq disk /\ disk \ {d} \subseteq disk'
  BY DEF cleanup_temp_dir
<1>4. Shape'
  <2>1. req'[c] = [pc |-> req'[c].pc, op |-> req'[c].op, app |-> req'[c].app,
                   run |-> req'[c].run, previous |-> req'[c].previous,
                   dir |-> req'[c].dir, name |-> req'[c].name]
    BY <1>1, IdleRequest
  <2> QED BY <1>1, <1>2, <1>s, <2>1 DEF Shape
<1>5. Directories' BY <1>3 DEF WorkspaceInvariant, Directories
<1>6. RowsPointAtDisk' BY <1>3 DEF WorkspaceInvariant, RowsPointAtDisk
<1>7. PendingIsPrivate'
  BY <1>1, <1>2, <1>3 DEF WorkspaceInvariant, PendingIsPrivate
<1>8. PreviousWasRecorded'
  BY <1>1, <1>2 DEF WorkspaceInvariant, PreviousWasRecorded
<1> QED BY <1>4, <1>5, <1>6, <1>7, <1>8 DEF WorkspaceInvariant

\* A directory that was made and abandoned.
LEMMA FailedWriteKeeps ==
  ASSUME WorkspaceInvariant, NEW c \in Clients, WriteFails(c)
  PROVE  WorkspaceInvariant'
<1>s. Shape BY DEF WorkspaceInvariant
<1>1. PICK d \in Dirs \ used :
        /\ used' = used \cup {d}
        /\ disk' \in {disk, disk \cup {d}}
        /\ req' = [req EXCEPT ![c] = Idle]
        /\ app' = app
  BY DEF WriteFails
<1>2. /\ req'[c] = Idle
      /\ \A e \in Clients \ {c} : req'[e] = req[e]
      /\ req' = [e \in Clients |-> req'[e]]
  BY <1>1, <1>s, SetRequest
<1>3. Idle.pc \notin Pending \cup Holding \cup {"checked"}
  BY IdleRequest DEF Pending, Holding
<1>4. Shape'
  <2>1. req'[c] = [pc |-> req'[c].pc, op |-> req'[c].op, app |-> req'[c].app,
                   run |-> req'[c].run, previous |-> req'[c].previous,
                   dir |-> req'[c].dir, name |-> req'[c].name]
    BY <1>2, IdleRequest
  <2> QED BY <1>1, <1>2, <1>3, <1>s, <2>1 DEF Shape
<1>5. Directories' BY <1>1 DEF WorkspaceInvariant, Directories
<1>6. RowsPointAtDisk' BY <1>1 DEF WorkspaceInvariant, RowsPointAtDisk
<1>7. PendingIsPrivate'
  BY <1>1, <1>2, <1>3 DEF WorkspaceInvariant, PendingIsPrivate
<1>8. PreviousWasRecorded'
  BY <1>1, <1>2, <1>3 DEF WorkspaceInvariant, PreviousWasRecorded
<1> QED BY <1>4, <1>5, <1>6, <1>7, <1>8 DEF WorkspaceInvariant

\* A new row has no source.
LEMMA AddKeeps ==
  ASSUME WorkspaceInvariant, NEW c \in Clients, AddApplication(c)
  PROVE  WorkspaceInvariant'
<1>s. Shape BY DEF WorkspaceInvariant
<1> DEFINE a == req[c].app
           row == [exists |-> TRUE, name |-> req[c].name, source |-> None]
<1>1. /\ app' = [app EXCEPT ![a] = row] /\ row.source = None
      /\ req' = [req EXCEPT ![c] = Idle]
      /\ UNCHANGED <<disk, used>>
  BY DEF AddApplication
<1> HIDE DEF row
<1>2. /\ req'[c] = Idle
      /\ \A e \in Clients \ {c} : req'[e] = req[e]
      /\ req' = [e \in Clients |-> req'[e]]
  BY <1>1, <1>s, SetRequest
<1>3. Idle.pc \notin Pending \cup Holding \cup {"checked"}
  BY IdleRequest DEF Pending, Holding
<1>4. /\ \A b \in Apps : app'[b].source = None \/ app'[b] = app[b]
      /\ app' = [b \in Apps |-> app'[b]]
  BY <1>1, <1>s DEF Shape
<1>5. Shape'
  <2>1. req'[c] = [pc |-> req'[c].pc, op |-> req'[c].op, app |-> req'[c].app,
                   run |-> req'[c].run, previous |-> req'[c].previous,
                   dir |-> req'[c].dir, name |-> req'[c].name]
    BY <1>2, IdleRequest
  <2> QED BY <1>2, <1>3, <1>4, <1>s, <2>1 DEF Shape
<1>6. Directories' BY <1>1 DEF WorkspaceInvariant, Directories
<1>7. RowsPointAtDisk'
  BY <1>1, <1>4 DEF WorkspaceInvariant, RowsPointAtDisk
<1>8. PendingIsPrivate'
  <2>1. \A e \in Clients : req[e].pc \in Pending => req[e].dir # None
    BY WorkspaceAssumption
       DEF WorkspaceInvariant, PendingIsPrivate, Directories
  <2> QED BY <1>1, <1>2, <1>3, <1>4, <2>1
          DEF WorkspaceInvariant, PendingIsPrivate
<1>9. PreviousWasRecorded'
  BY <1>1, <1>2, <1>3, <1>4 DEF WorkspaceInvariant, PreviousWasRecorded
<1> QED BY <1>5, <1>6, <1>7, <1>8, <1>9 DEF WorkspaceInvariant

-----------------------------------------------------------------------------
(* Every step.                                                             *)

\* A new request holds no directory.
LEMMA BeginKeeps ==
  ASSUME WorkspaceInvariant, NEW c \in Clients,
         NEW pc \in {"create", "checked", "start", "reset"}, NEW op, NEW a, NEW r,
         NEW previous, NEW name, pc = "checked" => a \in Apps,
         Begin(c, pc, op, a, r, previous, name), UNCHANGED <<app, disk, used>>
  PROVE  WorkspaceInvariant'
<1> DEFINE v == [pc |-> pc, op |-> op, app |-> a, run |-> r,
                 previous |-> previous, dir |-> None, name |-> name]
<1>1. /\ v = [pc |-> v.pc, op |-> v.op, app |-> v.app, run |-> v.run,
              previous |-> v.previous, dir |-> v.dir, name |-> v.name]
      /\ v.pc = pc /\ v.app = a
  OBVIOUS
<1>2. pc \notin Pending \cup Holding BY DEF Pending, Holding
<1>3. req' = [req EXCEPT ![c] = v] BY DEF Begin
<1> HIDE DEF v
<1> QED BY <1>1, <1>2, <1>3, RequestWithoutDirectory

\* The requests that start.
LEMMA StartKeeps ==
  ASSUME WorkspaceInvariant, NEW c \in Clients,
         \/ CreateName(c) \/ CheckNoActiveRun(c)
         \/ LoadForRun(c) \/ CheckRunSource(c)
  PROVE  WorkspaceInvariant'
<1>1. CASE CreateName(c) BY <1>1, BeginKeeps DEF CreateName
<1>2. CASE CheckNoActiveRun(c) BY <1>2, BeginKeeps DEF CheckNoActiveRun
<1>3. CASE LoadForRun(c) BY <1>3, BeginKeeps DEF LoadForRun
<1>4. CASE CheckRunSource(c) BY <1>4, BeginKeeps DEF CheckRunSource
<1> QED BY <1>1, <1>2, <1>3, <1>4

\* A request that ends without touching a directory.
LEMMA EndKeeps ==
  ASSUME WorkspaceInvariant, NEW c \in Clients,
         req' = [req EXCEPT ![c] = Idle], UNCHANGED <<app, disk, used>>
  PROVE  WorkspaceInvariant'
<1>1. Idle.pc \notin Pending \cup Holding /\ Idle.pc # "checked"
  BY IdleRequest DEF Pending, Holding
<1> DEFINE v == Idle
<1>2. v = [pc |-> v.pc, op |-> v.op, app |-> v.app, run |-> v.run,
           previous |-> v.previous, dir |-> v.dir, name |-> v.name]
  BY IdleRequest
<1> HIDE DEF v
<1>3. req' = [req EXCEPT ![c] = v] /\ v.pc \notin Pending \cup Holding
      /\ v.pc # "checked"
  BY <1>1 DEF v
<1> QED BY <1>2, <1>3, RequestWithoutDirectory

\* The steps between writing the new tree and recording it.
LEMMA ProceedStepKeeps ==
  ASSUME WorkspaceInvariant, NEW c \in Clients,
         req[c].pc \in {"discover", "update"}, UNCHANGED <<app, disk, used>>,
         NEW pc \in {"update", "discard"}, NEW name,
         Proceed(c, pc, req[c].previous, req[c].dir, name)
  PROVE  WorkspaceInvariant'
<1> DEFINE v == [pc |-> pc, op |-> req[c].op, app |-> req[c].app, run |-> None,
                 previous |-> req[c].previous, dir |-> req[c].dir, name |-> name]
<1>1. /\ v = [pc |-> v.pc, op |-> v.op, app |-> v.app, run |-> v.run,
              previous |-> v.previous, dir |-> v.dir, name |-> v.name]
      /\ v.app = req[c].app /\ v.previous = req[c].previous
      /\ v.dir = req[c].dir /\ v.pc \in {"update", "discard"}
  OBVIOUS
<1>2. req' = [req EXCEPT ![c] = v] BY DEF Proceed
<1> HIDE DEF v
<1> QED BY <1>1, <1>2, ProceedKeeps

\* Neither cleanup deletes a directory that is recorded or pending.
LEMMA CleanupKeeps ==
  ASSUME WorkspaceInvariant, NEW c \in Clients,
         CleanupPrevious(c) \/ DiscardWorkspace(c)
  PROVE  WorkspaceInvariant'
<1>1. CASE CleanupPrevious(c)
  <2>1. req[c].pc = "cleanup" /\ req[c].pc \in Holding
    BY <1>1 DEF CleanupPrevious, Holding
  <2>2. /\ \A a \in Apps : app[a].source # None => app[a].source # req[c].previous
        /\ \A e \in Clients : req[e].pc \in Pending => req[e].dir # req[c].previous
    BY <2>1 DEF WorkspaceInvariant, PreviousWasRecorded
  <2> QED BY <1>1, <2>2, DeleteKeeps DEF CleanupPrevious
<1>2. CASE DiscardWorkspace(c)
  <2>1. req[c].pc \in Pending BY <1>2 DEF DiscardWorkspace, Pending
  <2>2. /\ \A a \in Apps : app[a].source # req[c].dir
        /\ \A e \in Clients \ {c} : req[e].pc \in Pending => req[e].dir # req[c].dir
    BY <2>1 DEF WorkspaceInvariant, PendingIsPrivate
  <2> QED BY <1>2, <2>2, DeleteKeeps DEF DiscardWorkspace
<1> QED BY <1>1, <1>2

\* A failed write of the row, when it leaves no trace.
LEMMA UpdateFailsKeeps ==
  ASSUME ~FailedCommitApplies, WorkspaceInvariant, NEW c \in Clients,
         UpdateFails(c)
  PROVE  WorkspaceInvariant'
<1>1. req[c].pc = "update" /\ UNCHANGED <<app, disk, used>>
  BY DEF UpdateFails
<1>2. CASE req[c].op = "ingest"
  BY <1>1, <1>2, ProceedStepKeeps DEF UpdateFails
<1>3. CASE req[c].op # "ingest"
  BY <1>1, <1>3, EndKeeps DEF UpdateFails
<1> QED BY <1>2, <1>3

\* Every step keeps the invariant.
LEMMA NextKeeps ==
  ASSUME ~FailedCommitApplies, WorkspaceInvariant, [Next]_vars
  PROVE  WorkspaceInvariant'
<1>1. ASSUME NEW c \in Clients, CreateName(c) \/ CheckNoActiveRun(c)
                                \/ LoadForRun(c) \/ CheckRunSource(c)
      PROVE  WorkspaceInvariant'
  BY <1>1, StartKeeps
<1>2. ASSUME NEW c \in Clients, AddApplication(c) PROVE WorkspaceInvariant'
  BY <1>2, AddKeeps
<1>3. ASSUME NEW c \in Clients, LoadApplication(c) PROVE WorkspaceInvariant'
  BY <1>3, LoadKeeps
<1>4. ASSUME NEW c \in Clients, WriteSource(c) PROVE WorkspaceInvariant'
  BY <1>4, WriteKeeps
<1>5. ASSUME NEW c \in Clients, WriteFails(c) PROVE WorkspaceInvariant'
  BY <1>5, FailedWriteKeeps
<1>6. ASSUME NEW c \in Clients, Discover(c) PROVE WorkspaceInvariant'
  BY <1>6, ProceedStepKeeps DEF Discover
<1>7. ASSUME NEW c \in Clients, DiscoverFails(c) PROVE WorkspaceInvariant'
  BY <1>7, ProceedStepKeeps DEF DiscoverFails
<1>8. ASSUME NEW c \in Clients, UpdateApplication(c) PROVE WorkspaceInvariant'
  BY <1>8, UpdateKeeps
<1>9. ASSUME NEW c \in Clients, UpdateFails(c) PROVE WorkspaceInvariant'
  BY <1>9, UpdateFailsKeeps
<1>10. ASSUME NEW c \in Clients, CleanupPrevious(c) \/ DiscardWorkspace(c)
       PROVE  WorkspaceInvariant'
  BY <1>10, CleanupKeeps
<1>11. ASSUME NEW c \in Clients, AddRun(c) \/ BeginRevalidation(c)
                                 \/ RequestFails(c)
       PROVE  WorkspaceInvariant'
  BY <1>11, EndKeeps DEF AddRun, BeginRevalidation, RequestFails
<1>12. ASSUME UNCHANGED <<app, disk, used, req>> PROVE WorkspaceInvariant'
  BY <1>12 DEF WorkspaceInvariant, Shape, Directories, RowsPointAtDisk,
               PendingIsPrivate, PreviousWasRecorded
<1> QED BY <1>1, <1>2, <1>3, <1>4, <1>5, <1>6, <1>7, <1>8, <1>9, <1>10, <1>11,
           <1>12 DEF Next, RunEnds, vars

\* The initial state has no rows, no directories and no requests.
LEMMA InitHolds == ASSUME Init PROVE WorkspaceInvariant
<1>1. Idle.pc \notin Pending \cup Holding \cup {"checked"}
  BY IdleRequest DEF Pending, Holding
<1>2. Shape BY <1>1, IdleRequest DEF Init, Shape
<1>3. \A a \in Apps : app[a].source = None BY DEF Init, NoApp
<1>4. \A c \in Clients : req[c].pc \notin Pending \cup Holding
  BY <1>1 DEF Init
<1> QED BY <1>2, <1>3, <1>4 DEF WorkspaceInvariant, Init, Directories,
           RowsPointAtDisk, PendingIsPrivate, PreviousWasRecorded

\* The invariant holds in every reachable state.
LEMMA InvariantHolds ==
  ASSUME ~FailedCommitApplies
  PROVE  Spec => []WorkspaceInvariant
<1>1. Init => WorkspaceInvariant BY InitHolds
<1>2. WorkspaceInvariant /\ [Next]_vars => WorkspaceInvariant'
  BY NextKeeps
<1> QED BY <1>1, <1>2, PTL DEF Spec

\* Overlapping, failing and rejected uploads and ingests never leave a row of
\* an application without its source (the write-then-cleanup order of
\* upload_cobol_source and _ingest_application), if a failed write of the row
\* leaves no trace.
THEOREM SourceIsKept ==
  ASSUME ~FailedCommitApplies
  PROVE  Spec => []RecordedSourceExists
<1>1. WorkspaceInvariant => RecordedSourceExists
  BY DEF WorkspaceInvariant, RowsPointAtDisk, RecordedSourceExists
<1> QED BY <1>1, InvariantHolds, PTL

\* Nor do they delete the directory another request is about to record
\* (_cleanup_temp_dir deletes one directory that was the application's source).
THEOREM PendingIsKept ==
  ASSUME ~FailedCommitApplies
  PROVE  Spec => []PendingSourceExists
<1>1. WorkspaceInvariant => PendingSourceExists
  BY DEF WorkspaceInvariant, PendingIsPrivate, Pending, PendingSourceExists
<1> QED BY <1>1, InvariantHolds, PTL

-----------------------------------------------------------------------------
(* Types, whatever fails.                                                  *)

\* Directories of an application that were handed out, or none.
DirsOf(a) == {None} \cup {d \in used : d[1] = a}

AppsTyped ==
  /\ app = [a \in Apps |-> app[a]]
  /\ \A a \in Apps : app[a].exists \in BOOLEAN /\ app[a].source \in DirsOf(a)

RunsTyped ==
  /\ run = [r \in Runs |-> run[r]]
  /\ \A r \in Runs :
       /\ run[r] = [app |-> run[r].app, source |-> run[r].source,
                    active |-> run[r].active]
       /\ run[r].active \in BOOLEAN
       /\ run[r].source \in used \cup {None}

\* A request past its first check knows its application, a revalidation its run.
RequestTyped(q) ==
  /\ q.app \in Apps \cup {None}
  /\ q.previous \in DirsOf(q.app) /\ q.dir \in DirsOf(q.app)
  /\ q.pc \notin {"idle", "reset"} => q.app \in Apps
  /\ q.pc = "reset" => q.run \in Runs

\* Strengthening of TypeOK: the domains, and what a request knows.
TypeInvariant ==
  /\ AppsTyped
  /\ used \subseteq Dirs /\ disk \subseteq used
  /\ RunsTyped
  /\ req = [c \in Clients |-> req[c]]
  /\ \A c \in Clients : RequestTyped(req[c])

\* A step of one request, which hands out paths but takes none back.
LEMMA TypeFrame ==
  ASSUME TypeInvariant, NEW c \in Clients, NEW v,
         req' = [req EXCEPT ![c] = v], RequestTyped(v)',
         used \subseteq used', used' \subseteq Dirs, disk' \subseteq used',
         app' = app \/ AppsTyped',
         run' = run \/ RunsTyped'
  PROVE  TypeInvariant'
<1>1. \A a : DirsOf(a) \subseteq DirsOf(a)'
  BY DEF DirsOf
<1>2. AppsTyped'
  BY <1>1 DEF TypeInvariant, AppsTyped
<1>3. RunsTyped'
  BY DEF TypeInvariant, RunsTyped
<1>4. /\ req' = [e \in Clients |-> req'[e]]
      /\ \A e \in Clients : req'[e] = IF e = c THEN v ELSE req[e]
  BY DEF TypeInvariant
<1>5. \A e \in Clients : RequestTyped(req[e])'
  BY <1>1, <1>4 DEF TypeInvariant, RequestTyped
<1> QED BY <1>2, <1>3, <1>4, <1>5 DEF TypeInvariant

\* An idle request is well typed.
LEMMA IdleTyped == RequestTyped(Idle)'
BY DEF RequestTyped, Idle, DirsOf

\* What Begin and Proceed leave in the request.
LEMMA BeginTyped ==
  ASSUME TypeInvariant, NEW c \in Clients, NEW pc, NEW op,
         NEW a \in Apps \cup {None}, NEW r, NEW previous \in DirsOf(a), NEW name,
         Begin(c, pc, op, a, r, previous, name),
         pc \notin {"idle", "reset"} => a \in Apps,
         pc = "reset" => r \in Runs,
         UNCHANGED <<app, disk, used, run>>
  PROVE  TypeInvariant'
<1> DEFINE v == [pc |-> pc, op |-> op, app |-> a, run |-> r,
                 previous |-> previous, dir |-> None, name |-> name]
<1>1. /\ v.app = a /\ v.previous = previous /\ v.dir = None
      /\ v.pc = pc /\ v.run = r
  OBVIOUS
<1>2. req' = [req EXCEPT ![c] = v]
  BY DEF Begin
<1> HIDE DEF v
<1>3. RequestTyped(v)'
  BY <1>1 DEF RequestTyped, DirsOf
<1> QED BY <1>2, <1>3, TypeFrame DEF TypeInvariant

LEMMA ProceedTyped ==
  ASSUME TypeInvariant, NEW c \in Clients, NEW pc, NEW previous, NEW dir, NEW name,
         Proceed(c, pc, previous, dir, name),
         NEW a \in Apps, a = req[c].app, pc # "reset",
         \A d \in {previous, dir} : d = None \/ (d \in used' /\ d[1] = a),
         used \subseteq used', used' \subseteq Dirs, disk' \subseteq used',
         app' = app \/ AppsTyped', UNCHANGED run
  PROVE  TypeInvariant'
<1>1. PICK v : /\ req' = [req EXCEPT ![c] = v]
               /\ v.app = a /\ v.previous = previous /\ v.dir = dir
               /\ v.pc = pc
  <2> DEFINE w == [pc |-> pc, op |-> req[c].op, app |-> a, run |-> None,
                   previous |-> previous, dir |-> dir, name |-> name]
  <2>1. w.app = a /\ w.previous = previous /\ w.dir = dir /\ w.pc = pc
    OBVIOUS
  <2>2. req' = [req EXCEPT ![c] = w]
    BY DEF Proceed
  <2> HIDE DEF w
  <2> QED BY <2>1, <2>2
<1>2. RequestTyped(v)'
  BY <1>1 DEF RequestTyped, DirsOf
<1> QED BY <1>1, <1>2, TypeFrame

\* Starting or ending a run changes nothing else of its row.
LEMMA ActiveTyped ==
  ASSUME RunsTyped, NEW r \in Runs, NEW on \in BOOLEAN,
         run' = [run EXCEPT ![r].active = on], UNCHANGED used
  PROVE  RunsTyped'
<1>1. [run[r] EXCEPT !.active = on] =
        [app |-> run[r].app, source |-> run[r].source, active |-> on]
  BY DEF RunsTyped
<1>2. run' = [run EXCEPT ![r] =
                [app |-> run[r].app, source |-> run[r].source, active |-> on]]
  BY <1>1
<1> QED BY <1>2 DEF RunsTyped

\* Every step of a request keeps the types.
LEMMA TypeStep ==
  ASSUME TypeInvariant, NEW c \in Clients,
         \/ CreateName(c) \/ AddApplication(c)
         \/ CheckNoActiveRun(c) \/ LoadApplication(c)
         \/ WriteSource(c) \/ WriteFails(c)
         \/ Discover(c) \/ DiscoverFails(c)
         \/ UpdateApplication(c) \/ UpdateFails(c)
         \/ CleanupPrevious(c) \/ DiscardWorkspace(c)
         \/ LoadForRun(c) \/ AddRun(c)
         \/ CheckRunSource(c) \/ BeginRevalidation(c) \/ RequestFails(c)
  PROVE  TypeInvariant'
<1> DEFINE a == req[c].app
<1>a. /\ RequestTyped(req[c]) /\ AppsTyped /\ RunsTyped
      /\ used \subseteq Dirs /\ disk \subseteq used
  BY DEF TypeInvariant
<1>b. /\ \A d \in {req[c].previous, req[c].dir} :
           d = None \/ (d \in used /\ d[1] = a)
      /\ req[c].pc \notin {"idle", "reset"} => a \in Apps
  BY <1>a DEF RequestTyped, DirsOf
<1>c. None \in DirsOf(None) /\ \A x : None \in DirsOf(x)
  BY DEF DirsOf
<1>d. ASSUME req' = [req EXCEPT ![c] = Idle],
             used \subseteq used', used' \subseteq Dirs, disk' \subseteq used',
             app' = app \/ AppsTyped', run' = run \/ RunsTyped'
      PROVE  TypeInvariant'
  BY <1>d, IdleTyped, TypeFrame
<1>1. CASE CreateName(c)
  BY <1>1, <1>c, BeginTyped DEF CreateName
<1>2. CASE AddApplication(c)
  <2>1. /\ req' = [req EXCEPT ![c] = Idle] /\ UNCHANGED <<disk, used, run>>
        /\ app' = [app EXCEPT ![a] =
                     [exists |-> TRUE, name |-> req[c].name, source |-> None]]
    BY <1>2 DEF AddApplication
  <2>2. AppsTyped'
    BY <1>a, <2>1 DEF AppsTyped, DirsOf
  <2> QED BY <1>a, <1>d, <2>1, <2>2
<1>3. CASE CheckNoActiveRun(c)
  BY <1>3, <1>c, BeginTyped DEF CheckNoActiveRun
<1>4. CASE LoadApplication(c)
  <2>1. /\ Proceed(c, "loaded", app[a].source, None, app[a].name)
        /\ UNCHANGED <<app, disk, used, run>> /\ a \in Apps
    BY <1>4, <1>b DEF LoadApplication
  <2>2. app[a].source = None \/ (app[a].source \in used /\ app[a].source[1] = a)
    BY <1>a, <2>1 DEF AppsTyped, DirsOf
  <2> QED BY <1>a, <2>1, <2>2, ProceedTyped
<1>5. CASE WriteSource(c)
  <2>1. PICK d \in Dirs \ used :
          /\ d[1] = a /\ used' = used \cup {d} /\ disk' = disk \cup {d}
          /\ \/ Proceed(c, "discover", req[c].previous, d, req[c].name)
             \/ Proceed(c, "update", req[c].previous, d, None)
    BY <1>5 DEF WriteSource
  <2>2. a \in Apps /\ UNCHANGED <<app, run>>
    BY <1>5, <1>b DEF WriteSource
  <2> QED BY <1>a, <1>b, <2>1, <2>2, ProceedTyped
<1>6. CASE WriteFails(c)
  BY <1>6, <1>a, <1>d DEF WriteFails
<1>7. CASE Discover(c) \/ DiscoverFails(c)
  <2>1. PICK pc \in {"update", "discard"} : \E name :
          Proceed(c, pc, req[c].previous, req[c].dir, name)
    BY <1>7 DEF Discover, DiscoverFails
  <2>2. a \in Apps /\ UNCHANGED <<app, disk, used, run>>
    BY <1>7, <1>b DEF Discover, DiscoverFails
  <2> QED BY <1>a, <1>b, <2>1, <2>2, ProceedTyped
<1>8. ASSUME update_application_fields(c), UNCHANGED used PROVE AppsTyped'
  <2>1. app' = [app EXCEPT ![a] =
          [exists |-> TRUE, source |-> req[c].dir,
           name |-> IF req[c].name = None THEN app[a].name ELSE req[c].name]]
    BY <1>8 DEF update_application_fields
  <2> QED BY <1>a, <1>b, <1>8, <2>1 DEF AppsTyped, DirsOf
<1>9. CASE UpdateApplication(c)
  BY <1>9, <1>a, <1>b, <1>8, ProceedTyped DEF UpdateApplication
<1>10. CASE UpdateFails(c)
  <2>1. /\ UNCHANGED <<disk, used, run>> /\ a \in Apps
        /\ app' = app \/ AppsTyped'
    BY <1>10, <1>b, <1>8 DEF UpdateFails
  <2>2. CASE Proceed(c, "discard", req[c].previous, req[c].dir, None)
    BY <1>a, <1>b, <2>1, <2>2, ProceedTyped
  <2>3. CASE req' = [req EXCEPT ![c] = Idle]
    BY <1>a, <1>d, <2>1, <2>3
  <2> QED BY <1>10, <2>2, <2>3 DEF UpdateFails
<1>11. CASE CleanupPrevious(c) \/ DiscardWorkspace(c)
  BY <1>11, <1>a, <1>d DEF CleanupPrevious, DiscardWorkspace, cleanup_temp_dir
<1>12. CASE LoadForRun(c)
  <2>1. PICK x \in Apps :
          Begin(c, "start", "modernize", x, None, app[x].source, None)
    BY <1>12 DEF LoadForRun
  <2>2. app[x].source \in DirsOf(x)
    BY <1>a DEF AppsTyped
  <2> QED BY <1>12, <2>1, <2>2, BeginTyped DEF LoadForRun
<1>13. CASE AddRun(c)
  <2>1. PICK r \in Runs :
          run' = [run EXCEPT ![r] = [app |-> a, source |-> req[c].previous,
                                     active |-> TRUE]]
    BY <1>13 DEF AddRun
  <2>2. UNCHANGED <<app, disk, used>> /\ req' = [req EXCEPT ![c] = Idle]
    BY <1>13 DEF AddRun
  <2>3. RunsTyped'
    BY <1>a, <1>b, <2>1, <2>2 DEF RunsTyped
  <2> QED BY <1>a, <1>d, <2>2, <2>3
<1>14. CASE CheckRunSource(c)
  BY <1>14, <1>c, BeginTyped DEF CheckRunSource
<1>15. CASE BeginRevalidation(c)
  <2>1. /\ run' = [run EXCEPT ![req[c].run].active = TRUE]
        /\ UNCHANGED <<app, disk, used>> /\ req' = [req EXCEPT ![c] = Idle]
    BY <1>15 DEF BeginRevalidation
  <2>2. RunsTyped'
    BY <1>a, <1>15, <2>1, ActiveTyped DEF BeginRevalidation, RequestTyped
  <2> QED BY <1>a, <1>d, <2>1, <2>2
<1>16. CASE RequestFails(c)
  BY <1>16, <1>a, <1>d DEF RequestFails
<1> QED BY <1>1, <1>2, <1>3, <1>4, <1>5, <1>6, <1>7, <1>9, <1>10, <1>11,
           <1>12, <1>13, <1>14, <1>15, <1>16

\* Every reachable state is well typed.
LEMMA TypeHolds == Spec => []TypeInvariant
<1>1. Init => TypeInvariant
  <2> SUFFICES ASSUME Init PROVE TypeInvariant
    OBVIOUS
  <2>1. RequestTyped(Idle)
    BY DEF RequestTyped, Idle, DirsOf
  <2>2. AppsTyped
    BY DEF Init, AppsTyped, NoApp, DirsOf
  <2>3. RunsTyped
    BY DEF Init, RunsTyped, NoRun
  <2> QED BY <2>1, <2>2, <2>3 DEF Init, TypeInvariant
<1>2. TypeInvariant /\ [Next]_vars => TypeInvariant'
  <2> SUFFICES ASSUME TypeInvariant, [Next]_vars PROVE TypeInvariant'
    OBVIOUS
  <2>1. CASE UNCHANGED vars
    BY <2>1 DEF vars, TypeInvariant, AppsTyped, RunsTyped, RequestTyped, DirsOf
  <2>2. ASSUME NEW r \in Runs, RunEnds(r) PROVE TypeInvariant'
    <3>1. /\ run' = [run EXCEPT ![r].active = FALSE]
          /\ UNCHANGED <<app, disk, used, req>>
      BY <2>2 DEF RunEnds
    <3>2. RunsTyped'
      BY <3>1, ActiveTyped DEF TypeInvariant
    <3> QED BY <3>1, <3>2 DEF TypeInvariant, AppsTyped, RequestTyped, DirsOf
  <2> QED BY <2>1, <2>2, TypeStep DEF Next
<1> QED BY <1>1, <1>2, PTL DEF Spec

\* Rows, directories and requests stay well typed, also when a failed write
\* stays in the open transaction: a row and a request name only directories
\* that were made for their own application.
THEOREM TypeCorrect == Spec => []TypeOK
<1>1. TypeInvariant => TypeOK
  BY DEF TypeInvariant, AppsTyped, RunsTyped, RequestTyped, DirsOf, TypeOK
<1> QED BY <1>1, TypeHolds, PTL

-----------------------------------------------------------------------------
(* Names.                                                                  *)

Labels == Seq(Names \cup Nat)

\* The name itself and the name with its suffixes.
Suffixed(name, n) == IF n = 1 THEN name ELSE Append(name, n)

\* Different suffixes make different names.
LEMMA SuffixesDiffer ==
  ASSUME NEW name \in Labels, NEW m \in Nat \ {0}, NEW n \in Nat \ {0},
         Suffixed(name, m) = Suffixed(name, n)
  PROVE  m = n
<1>1. ASSUME NEW k \in Nat
      PROVE  /\ Len(Append(name, k)) = Len(name) + 1
             /\ Append(name, k)[Len(name) + 1] = k
             /\ Append(name, k) \in Labels
  BY DEF Labels
<1>2. Len(name) \in Nat BY DEF Labels
<1>3. ASSUME NEW k \in Nat PROVE Append(name, k) # name
  BY <1>1, <1>2
<1>4. CASE m = 1 /\ n # 1 BY <1>3, <1>4 DEF Suffixed
<1>5. CASE m # 1 /\ n = 1 BY <1>3, <1>5 DEF Suffixed
<1>6. CASE m # 1 /\ n # 1 BY <1>1, <1>6 DEF Suffixed
<1> QED BY <1>4, <1>5, <1>6

\* A nonempty set of numbers has a least one.
LEMMA LeastNumber ==
  ASSUME NEW S \in SUBSET Nat, S # {}
  PROVE  \E n \in S : \A m \in S : n <= m
<1>1. PICK n \in S : \A m \in S : <<m, n>> \notin OpToRel(<, Nat)
  BY NatLessThanWellFounded, WFMin
<1>2. \A m \in S : ~(m < n) BY <1>1 DEF OpToRel
<1> QED BY <1>2

\* There are more suffixes than applications: one of them is free, and
\* unique_name finds a name that no application has.
LEMMA UniqueNameIsFree ==
  ASSUME NEW name \in Labels
  PROVE  unique_name(name) \in Labels /\ ~Taken(unique_name(name))
<1> DEFINE size == Cardinality(Apps)
           free == {n \in 2..(size + 1) : ~Taken(Append(name, n))}
           least == CHOOSE n \in free : \A m \in free : n <= m
<1>1. size \in Nat BY WorkspaceAssumption, FS_CardinalityType
<1>2. CASE ~Taken(name) BY <1>2 DEF unique_name
<1>3. CASE Taken(name)
  <2>1. free # {}
    <3> SUFFICES ASSUME \A n \in 2..(size + 1) : Taken(Append(name, n))
                 PROVE  FALSE
      OBVIOUS
    <3>1. ASSUME NEW n \in 1..(size + 1) PROVE Taken(Suffixed(name, n))
      <4>1. n = 1 \/ n \in 2..(size + 1) BY <1>1
      <4> QED BY <1>3, <4>1 DEF Suffixed
    <3>2. \A n \in 1..(size + 1) : \E a \in Apps :
            app[a].name = Suffixed(name, n)
      BY <3>1 DEF Taken
    <3> DEFINE of == [n \in 1..(size + 1) |->
                        CHOOSE a \in Apps : app[a].name = Suffixed(name, n)]
    <3>3. \A n \in 1..(size + 1) :
            of[n] \in Apps /\ app[of[n]].name = Suffixed(name, n)
      BY <3>2
    <3>4. of \in [1..(size + 1) -> Apps] BY <3>3
    <3>5. /\ IsFiniteSet(1..(size + 1))
          /\ Cardinality(1..(size + 1)) = size + 1
      <4>1. 1 \in Int /\ size + 1 \in Int /\ ~(1 > size + 1)
            /\ size + 1 - 1 + 1 = size + 1
        BY <1>1
      <4> HIDE DEF size
      <4> QED BY <4>1, FS_Interval
    <3>6. size < size + 1 BY <1>1
    <3> HIDE DEF of
    <3>7. PICK m \in 1..(size + 1), n \in 1..(size + 1) : m # n /\ of[m] = of[n]
      BY <3>4, <3>5, <3>6, WorkspaceAssumption, FS_PigeonHole
    <3>8. Suffixed(name, m) = Suffixed(name, n) BY <3>3, <3>7
    <3>9. m \in Nat \ {0} /\ n \in Nat \ {0} BY <1>1
    <3> QED BY <3>7, <3>8, <3>9, SuffixesDiffer
  <2>2. free \in SUBSET Nat BY <1>1
  <2>3. least \in free
    <3> HIDE DEF free
    <3> QED BY <2>1, <2>2, LeastNumber
  <2>4. unique_name(name) = Append(name, least)
    BY <1>3 DEF unique_name
  <2>5. ASSUME NEW n \in Nat PROVE Append(name, n) \in Labels
    BY DEF Labels
  <2>6. least \in Nat /\ ~Taken(Append(name, least)) BY <2>2, <2>3
  <2> HIDE DEF least
  <2> QED BY <2>4, <2>5, <2>6
<1> QED BY <1>2, <1>3

-----------------------------------------------------------------------------
(* Requests that do not overlap.                                           *)

\* They are requests, one at a time as long as none overlapped.
TakenInTurns == ~overlapped => OneRequest

LEMMA ObservedIsSpec == ObservedSpec => Spec /\ []TakenInTurns
<1>1. Init => TakenInTurns BY DEF Init, TakenInTurns, OneRequest, Idle
<1>2. TakenInTurns /\ [Next /\ Observe]_<<vars, overlapped>> => TakenInTurns'
  BY DEF TakenInTurns, Observe, OneRequest, vars
<1>3. [Next /\ Observe]_<<vars, overlapped>> => [Next]_vars OBVIOUS
<1> QED BY <1>1, <1>2, <1>3, PTL DEF ObservedSpec, Spec

\* A step after which none overlapped is one of a request alone.
LEMMA NoOverlapSoFar ==
  ASSUME TakenInTurns, [Next /\ Observe]_<<vars, overlapped>>, ~overlapped'
  PROVE  ~overlapped /\ OneRequest
<1>1. CASE UNCHANGED <<vars, overlapped>>
  <2>1. overlapped' = overlapped BY <1>1
  <2>2. ~overlapped BY <2>1, Zenon
  <2> QED BY <2>2 DEF TakenInTurns
<1>2. CASE Observe
  <2>1. ~overlapped BY <1>2, Zenon DEF Observe
  <2> QED BY <2>1 DEF TakenInTurns
<1> QED BY <1>1, <1>2

\* While one request is at work the others are idle.
LEMMA Alone ==
  ASSUME TypeInvariant, OneRequest, OneRequest', NEW c \in Clients, NEW v,
         req' = [req EXCEPT ![c] = v], req[c].pc # "idle" \/ v.pc # "idle"
  PROVE  /\ req'[c] = v
         /\ \A e \in Clients \ {c} : req'[e] = req[e] /\ req[e].pc = "idle"
BY DEF TypeInvariant, OneRequest

\* The rows have names, all different.
RowsNamed ==
  /\ \A a, b \in Apps :
       app[a].exists /\ app[b].exists /\ app[a].name = app[b].name => a = b
  /\ \A a \in Apps : app[a].exists => app[a].name \in Labels

\* A request is about an application that exists, and a name it is about to
\* write is free.
NameKnown(q) ==
  /\ q.pc \in {"checked", "loaded", "discover", "update"} => app[q.app].exists
  /\ q.pc \in {"loaded", "discover"} => q.name \in Labels
  /\ q.pc = "create" => q.name \in Labels /\ ~Taken(q.name)
  /\ q.pc = "update" =>
       q.name = None \/ (q.name \in Labels /\ ~Taken(q.name))

NameInvariant == RowsNamed /\ \A c \in Clients : NameKnown(req[c])

\* What a request leaves behind is known, the others are idle.
LEMMA NameFrame ==
  ASSUME TypeInvariant, OneRequest, OneRequest', NEW c \in Clients, NEW v,
         req' = [req EXCEPT ![c] = v], req[c].pc # "idle" \/ v.pc # "idle",
         RowsNamed', NameKnown(v)'
  PROVE  NameInvariant'
<1>1. /\ req'[c] = v
      /\ \A e \in Clients \ {c} : req'[e] = req[e] /\ req[e].pc = "idle"
  BY Alone
<1>2. ASSUME NEW e \in Clients PROVE NameKnown(req[e])'
  <2>1. CASE e = c BY <1>1, <2>1 DEF NameKnown
  <2>2. CASE e # c BY <1>1, <2>2 DEF NameKnown
  <2> QED BY <2>1, <2>2
<1> QED BY <1>2 DEF NameInvariant

\* A request that ends knows nothing.
LEMMA NameIdle ==
  ASSUME TypeInvariant, OneRequest, OneRequest', NEW c \in Clients,
         req' = [req EXCEPT ![c] = Idle], req[c].pc # "idle", RowsNamed'
  PROVE  NameInvariant'
<1>1. NameKnown(Idle)' BY DEF NameKnown, Idle
<1> QED BY <1>1, NameFrame

\* What Begin and Proceed leave behind.
LEMMA NameBegin ==
  ASSUME TypeInvariant, OneRequest, OneRequest', NameInvariant,
         NEW c \in Clients,
         NEW pc \in {"create", "checked", "start", "reset"},
         NEW op, NEW a, NEW r, NEW previous, NEW name,
         Begin(c, pc, op, a, r, previous, name), UNCHANGED app,
         pc = "checked" => app[a].exists,
         pc = "create" => name \in Labels /\ ~Taken(name)
  PROVE  NameInvariant'
<1> DEFINE v == [pc |-> pc, op |-> op, app |-> a, run |-> r,
                 previous |-> previous, dir |-> None, name |-> name]
<1>1. v.pc = pc /\ v.app = a /\ v.name = name OBVIOUS
<1>2. req' = [req EXCEPT ![c] = v] BY DEF Begin
<1> HIDE DEF v
<1>3. NameKnown(v)' BY <1>1 DEF NameKnown, Taken
<1>4. RowsNamed' BY DEF NameInvariant, RowsNamed
<1> QED BY <1>1, <1>2, <1>3, <1>4, NameFrame

LEMMA NameProceed ==
  ASSUME TypeInvariant, OneRequest, OneRequest',
         NEW c \in Clients,
         NEW pc \in {"loaded", "discover", "update", "cleanup", "discard"},
         NEW previous, NEW dir, NEW name,
         Proceed(c, pc, previous, dir, name), RowsNamed',
         pc \in {"loaded", "discover", "update"} => app'[req[c].app].exists,
         pc \in {"loaded", "discover"} => name \in Labels,
         pc = "update" => name = None \/ (name \in Labels /\ ~Taken(name)')
  PROVE  NameInvariant'
<1>1. PICK v : /\ req' = [req EXCEPT ![c] = v]
               /\ v.pc = pc /\ v.app = req[c].app /\ v.name = name
  <2> DEFINE w == [pc |-> pc, op |-> req[c].op, app |-> req[c].app,
                   run |-> None, previous |-> previous, dir |-> dir,
                   name |-> name]
  <2>1. w.pc = pc /\ w.app = req[c].app /\ w.name = name OBVIOUS
  <2>2. req' = [req EXCEPT ![c] = w] BY DEF Proceed
  <2> HIDE DEF w
  <2> QED BY <2>1, <2>2
<1>2. NameKnown(v)' BY <1>1 DEF NameKnown, Taken
<1> QED BY <1>1, <1>2, NameFrame

\* Every step of a request keeps the names apart.
LEMMA NameStep ==
  ASSUME TypeInvariant, OneRequest, OneRequest', NameInvariant,
         NEW c \in Clients,
         \/ CreateName(c) \/ AddApplication(c)
         \/ CheckNoActiveRun(c) \/ LoadApplication(c)
         \/ WriteSource(c) \/ WriteFails(c)
         \/ Discover(c) \/ DiscoverFails(c)
         \/ UpdateApplication(c) \/ UpdateFails(c)
         \/ CleanupPrevious(c) \/ DiscardWorkspace(c)
         \/ LoadForRun(c) \/ AddRun(c)
         \/ CheckRunSource(c) \/ BeginRevalidation(c) \/ RequestFails(c)
  PROVE  NameInvariant'
<1> DEFINE a == req[c].app
<1>a. /\ NameKnown(req[c]) /\ RowsNamed
      /\ app = [b \in Apps |-> app[b]]
      /\ req[c].pc \notin {"idle", "reset"} => a \in Apps
  BY DEF NameInvariant, TypeInvariant, AppsTyped, RequestTyped
<1>b. UNCHANGED app => RowsNamed' /\ \A n : Taken(n)' = Taken(n)
  BY <1>a DEF RowsNamed, Taken
<1>1. CASE CreateName(c)
  <2>1. PICK b \in Apps, given \in Names :
          Begin(c, "create", "create", b, None, None, unique_name(<<given>>))
    BY <1>1 DEF CreateName
  <2>2. <<given>> \in Labels BY DEF Labels
  <2>3. PICK name : name = unique_name(<<given>>) OBVIOUS
  <2>4. name \in Labels /\ ~Taken(name) BY <2>2, <2>3, UniqueNameIsFree
  <2>5. Begin(c, "create", "create", b, None, None, name) BY <2>1, <2>3
  <2> QED BY <1>1, <2>4, <2>5, NameBegin DEF CreateName
<1>2. CASE AddApplication(c)
  <2>1. /\ req' = [req EXCEPT ![c] = Idle] /\ req[c].pc = "create"
        /\ app' = [app EXCEPT ![a] =
                     [exists |-> TRUE, name |-> req[c].name, source |-> None]]
    BY <1>2 DEF AddApplication
  <2>2. a \in Apps /\ req[c].name \in Labels /\ ~Taken(req[c].name)
    BY <1>a, <2>1 DEF NameKnown
  <2>3. RowsNamed'
    BY <1>a, <2>1, <2>2 DEF RowsNamed, Taken
  <2> QED BY <2>1, <2>3, NameIdle
<1>3. CASE CheckNoActiveRun(c)
  BY <1>3, NameBegin DEF CheckNoActiveRun
<1>4. CASE LoadApplication(c)
  <2>1. /\ Proceed(c, "loaded", app[a].source, None, app[a].name)
        /\ UNCHANGED app /\ a \in Apps /\ app[a].exists
    BY <1>4, <1>a DEF LoadApplication, NameKnown
  <2>2. app[a].name \in Labels BY <1>a, <2>1 DEF RowsNamed
  <2> QED BY <1>b, <2>1, <2>2, NameProceed
<1>5. CASE WriteSource(c)
  <2>1. PICK d :
          \/ Proceed(c, "discover", req[c].previous, d, req[c].name)
          \/ Proceed(c, "update", req[c].previous, d, None)
    BY <1>5 DEF WriteSource
  <2>2. app[a].exists /\ req[c].name \in Labels /\ UNCHANGED app
    BY <1>5, <1>a DEF WriteSource, NameKnown
  <2> QED BY <1>b, <2>1, <2>2, NameProceed
<1>6. CASE Discover(c)
  <2>1. PICK detected \in Names :
          Proceed(c, "update", req[c].previous, req[c].dir,
                  decided_name(a, req[c].name, detected))
    BY <1>6 DEF Discover
  <2>2. app[a].exists /\ req[c].name \in Labels /\ UNCHANGED app
    BY <1>6, <1>a DEF Discover, NameKnown
  <2>3. PICK name : name = decided_name(a, req[c].name, detected) OBVIOUS
  <2>4. name = None \/ (name \in Labels /\ ~Taken(name))
    <3>1. <<detected>> \in Labels BY DEF Labels
    <3>2. name \in {None, unique_name(<<detected>>), unique_name(req[c].name)}
      BY <2>3 DEF decided_name
    <3> QED BY <2>2, <3>1, <3>2, UniqueNameIsFree
  <2>5. Proceed(c, "update", req[c].previous, req[c].dir, name)
    BY <2>1, <2>3
  <2> QED BY <1>b, <2>2, <2>4, <2>5, NameProceed
<1>7. CASE DiscoverFails(c)
  BY <1>7, <1>b, NameProceed DEF DiscoverFails
<1>8. ASSUME req[c].pc = "update", update_application_fields(c)
      PROVE  RowsNamed'
  <2>1. PICK name : name = IF req[c].name = None THEN app[a].name
                           ELSE req[c].name
    OBVIOUS
  <2>2. app' = [app EXCEPT ![a] =
                  [exists |-> TRUE, source |-> req[c].dir, name |-> name]]
    BY <1>8, <2>1 DEF update_application_fields
  <2>3. a \in Apps /\ app[a].exists BY <1>8, <1>a DEF NameKnown
  <2>4. /\ name \in Labels
        /\ \A b \in Apps \ {a} : app[b].exists => app[b].name # name
    BY <1>8, <1>a, <2>1, <2>3 DEF NameKnown, RowsNamed, Taken
  <2>5. /\ app'[a].name = name
        /\ \A b \in Apps \ {a} : app'[b] = app[b]
    BY <1>a, <2>2, <2>3
  <2> QED BY <1>a, <2>3, <2>4, <2>5 DEF RowsNamed
<1>9. CASE UpdateApplication(c)
  BY <1>9, <1>8, NameProceed DEF UpdateApplication
<1>10. CASE UpdateFails(c)
  <2>1. req[c].pc = "update" /\ RowsNamed'
    BY <1>10, <1>8, <1>b DEF UpdateFails
  <2>2. CASE Proceed(c, "discard", req[c].previous, req[c].dir, None)
    BY <2>1, <2>2, NameProceed
  <2>3. CASE req' = [req EXCEPT ![c] = Idle]
    BY <2>1, <2>3, NameIdle
  <2> QED BY <1>10, <2>2, <2>3 DEF UpdateFails
<1>11. CASE LoadForRun(c)
  <2>1. PICK b \in Apps :
          Begin(c, "start", "modernize", b, None, app[b].source, None)
    BY <1>11 DEF LoadForRun
  <2> QED BY <1>11, <2>1, NameBegin DEF LoadForRun
<1>12. CASE CheckRunSource(c)
  BY <1>12, NameBegin DEF CheckRunSource
<1>13. CASE \/ WriteFails(c) \/ CleanupPrevious(c) \/ DiscardWorkspace(c)
            \/ AddRun(c) \/ BeginRevalidation(c) \/ RequestFails(c)
  <2>1. /\ req' = [req EXCEPT ![c] = Idle] /\ UNCHANGED app
        /\ req[c].pc # "idle"
    BY <1>13 DEF WriteFails, CleanupPrevious, DiscardWorkspace, AddRun,
                 BeginRevalidation, RequestFails
  <2> QED BY <1>b, <2>1, NameIdle
<1> QED BY <1>1, <1>2, <1>3, <1>4, <1>5, <1>6, <1>7, <1>9, <1>10, <1>11,
           <1>12, <1>13

\* Requests that do not overlap give every application a name of its own,
\* whatever names users and archives suggest and whichever writes fail
\* (unique_name chooses, create_application and _ingest_application write).
THEOREM NamesAreDistinct == ObservedSpec => []NamesAreUnique
<1>1. Init => NameInvariant
  BY DEF Init, NameInvariant, RowsNamed, NameKnown, NoApp, Idle
<1>2. /\ TypeInvariant /\ OneRequest /\ OneRequest' /\ NameInvariant
      /\ [Next]_vars
      => NameInvariant'
  <2> SUFFICES ASSUME TypeInvariant, OneRequest, OneRequest', NameInvariant,
                      [Next]_vars
               PROVE  NameInvariant'
    OBVIOUS
  <2>1. CASE UNCHANGED <<app, req>>
    BY <2>1 DEF NameInvariant, RowsNamed, NameKnown, Taken
  <2> QED BY <2>1, NameStep DEF Next, RunEnds, vars
<1>3. TakenInTurns /\ [Next /\ Observe]_<<vars, overlapped>> =>
        /\ [Next]_vars
        /\ ~overlapped' => ~overlapped /\ OneRequest
  BY NoOverlapSoFar
<1>4. (~overlapped => NameInvariant) => NamesAreUnique
  BY DEF NamesAreUnique, NameInvariant, RowsNamed
<1>5. TakenInTurns /\ ~overlapped => OneRequest BY DEF TakenInTurns
<1> QED BY <1>1, <1>2, <1>3, <1>4, <1>5, ObservedIsSpec, TypeHolds,
           PTL DEF ObservedSpec, Spec

-----------------------------------------------------------------------------
(* The source of a run in progress.                                        *)

\* The requests that may replace the source of their application.
Replacing == {"checked"} \cup Holding \cup Pending

\* A run in progress has its source, which was made for its application.
SourcesKept ==
  /\ \A r \in Runs : run[r].active => run[r].source \in disk
  /\ \A r \in Runs : run[r].source # None => run[r].source[1] = run[r].app

\* A request that will start a run knows that the source is there, one that may
\* replace the source knows that no run of its application is in progress.
SourceKnown(q) ==
  /\ q.pc = "start" => q.previous \in disk
  /\ q.pc = "reset" => run[q.run].source \in disk
  /\ q.pc \in Replacing => ~ActiveRun(q.app)

SourceInvariant == SourcesKept /\ \A c \in Clients : SourceKnown(req[c])

\* What a request leaves behind is known, the others are idle.
LEMMA SourceFrame ==
  ASSUME TypeInvariant, OneRequest, OneRequest', NEW c \in Clients, NEW v,
         req' = [req EXCEPT ![c] = v], req[c].pc # "idle" \/ v.pc # "idle",
         SourcesKept', SourceKnown(v)'
  PROVE  SourceInvariant'
<1>1. /\ req'[c] = v
      /\ \A e \in Clients \ {c} : req'[e] = req[e] /\ req[e].pc = "idle"
  BY Alone
<1>2. "idle" \notin Replacing BY DEF Replacing, Holding, Pending
<1>3. ASSUME NEW e \in Clients PROVE SourceKnown(req[e])'
  <2>1. CASE e = c BY <1>1, <2>1 DEF SourceKnown
  <2>2. CASE e # c BY <1>1, <1>2, <2>2 DEF SourceKnown
  <2> QED BY <2>1, <2>2
<1> QED BY <1>3 DEF SourceInvariant

\* A request that ends knows nothing.
LEMMA SourceIdle ==
  ASSUME TypeInvariant, OneRequest, OneRequest', NEW c \in Clients,
         req' = [req EXCEPT ![c] = Idle], req[c].pc # "idle", SourcesKept'
  PROVE  SourceInvariant'
<1>1. SourceKnown(Idle)'
  BY DEF SourceKnown, Idle, Replacing, Holding, Pending
<1> QED BY <1>1, SourceFrame

\* What Begin and Proceed leave behind.
LEMMA SourceBegin ==
  ASSUME TypeInvariant, OneRequest, OneRequest', SourceInvariant,
         NEW c \in Clients,
         NEW pc \in {"create", "checked", "start", "reset"},
         NEW op, NEW a, NEW r, NEW previous, NEW name,
         Begin(c, pc, op, a, r, previous, name), UNCHANGED <<disk, run>>,
         pc = "start" => previous \in disk,
         pc = "reset" => run[r].source \in disk,
         pc = "checked" => ~ActiveRun(a)
  PROVE  SourceInvariant'
<1> DEFINE v == [pc |-> pc, op |-> op, app |-> a, run |-> r,
                 previous |-> previous, dir |-> None, name |-> name]
<1>1. v.pc = pc /\ v.app = a /\ v.run = r /\ v.previous = previous OBVIOUS
<1>2. req' = [req EXCEPT ![c] = v] BY DEF Begin
<1> HIDE DEF v
<1>3. SourceKnown(v)'
  BY <1>1 DEF SourceKnown, ActiveRun, Replacing, Holding, Pending
<1>4. SourcesKept'
  BY DEF SourceInvariant, SourcesKept
<1> QED BY <1>1, <1>2, <1>3, <1>4, SourceFrame

LEMMA SourceProceed ==
  ASSUME TypeInvariant, OneRequest, OneRequest', SourceInvariant,
         NEW c \in Clients, req[c].pc \in Replacing, NEW pc \in Replacing,
         NEW previous, NEW dir, NEW name,
         Proceed(c, pc, previous, dir, name),
         UNCHANGED run, disk \subseteq disk'
  PROVE  SourceInvariant'
<1>1. PICK v : /\ req' = [req EXCEPT ![c] = v]
               /\ v.pc = pc /\ v.app = req[c].app
  <2> DEFINE w == [pc |-> pc, op |-> req[c].op, app |-> req[c].app,
                   run |-> None, previous |-> previous, dir |-> dir,
                   name |-> name]
  <2>1. w.pc = pc /\ w.app = req[c].app OBVIOUS
  <2>2. req' = [req EXCEPT ![c] = w] BY DEF Proceed
  <2> HIDE DEF w
  <2> QED BY <2>1, <2>2
<1>2. SourceKnown(v)'
  BY <1>1 DEF SourceInvariant, SourceKnown, ActiveRun, Replacing, Holding, Pending
<1>3. SourcesKept'
  BY DEF SourceInvariant, SourcesKept
<1>4. pc # "idle" BY DEF Replacing, Holding, Pending
<1> QED BY <1>1, <1>2, <1>3, <1>4, SourceFrame

\* Cleaning up a directory of an application none of whose runs is in progress.
LEMMA CleanupKeepsSources ==
  ASSUME TypeInvariant, SourceInvariant, NEW a, NEW d \in DirsOf(a),
         ~ActiveRun(a), cleanup_temp_dir(d), UNCHANGED run
  PROVE  SourcesKept'
<1>1. \A r \in Runs : run[r].active => run[r].source \in disk /\ run[r].app # a
  BY DEF SourceInvariant, SourcesKept, ActiveRun
<1>2. None \notin disk BY WorkspaceAssumption DEF TypeInvariant
<1>3. \A r \in Runs : run[r].active => run[r].source # d
  BY <1>1, <1>2 DEF DirsOf, SourceInvariant, SourcesKept
<1> QED BY <1>1, <1>3
        DEF cleanup_temp_dir, SourceInvariant, SourcesKept

\* Starting or ending a run changes whether it is in progress and nothing else.
LEMMA ActiveAlone ==
  ASSUME RunsTyped, NEW r \in Runs, NEW on \in BOOLEAN,
         run' = [run EXCEPT ![r].active = on]
  PROVE  /\ run'[r].active = on
         /\ \A t \in Runs : /\ run'[t].source = run[t].source
                            /\ run'[t].app = run[t].app
                            /\ t # r => run'[t].active = run[t].active
<1>1. [run[r] EXCEPT !.active = on] =
        [app |-> run[r].app, source |-> run[r].source, active |-> on]
  BY DEF RunsTyped
<1>2. run' = [run EXCEPT ![r] =
                [app |-> run[r].app, source |-> run[r].source, active |-> on]]
  BY <1>1
<1> QED BY <1>2 DEF RunsTyped

\* Every step of a request keeps the sources of the runs in progress.
LEMMA SourceStep ==
  ASSUME TypeInvariant, RecordedSourceExists,
         OneRequest, OneRequest', SourceInvariant,
         NEW c \in Clients,
         \/ CreateName(c) \/ AddApplication(c)
         \/ CheckNoActiveRun(c) \/ LoadApplication(c)
         \/ WriteSource(c) \/ WriteFails(c)
         \/ Discover(c) \/ DiscoverFails(c)
         \/ UpdateApplication(c) \/ UpdateFails(c)
         \/ CleanupPrevious(c) \/ DiscardWorkspace(c)
         \/ LoadForRun(c) \/ AddRun(c)
         \/ CheckRunSource(c) \/ BeginRevalidation(c) \/ RequestFails(c)
  PROVE  SourceInvariant'
<1> DEFINE a == req[c].app
<1>a. /\ SourceKnown(req[c]) /\ SourcesKept
      /\ RequestTyped(req[c]) /\ RunsTyped
  BY DEF SourceInvariant, TypeInvariant
<1>b. run' = run /\ disk \subseteq disk' => SourcesKept'
  BY <1>a DEF SourcesKept
<1>1. CASE CreateName(c)
  BY <1>1, SourceBegin DEF CreateName
<1>2. CASE AddApplication(c) \/ WriteFails(c) \/ RequestFails(c)
  <2>1. /\ req' = [req EXCEPT ![c] = Idle] /\ req[c].pc # "idle"
        /\ run' = run /\ disk \subseteq disk'
    BY <1>2 DEF AddApplication, WriteFails, RequestFails
  <2> QED BY <1>b, <2>1, SourceIdle
<1>3. CASE CheckNoActiveRun(c)
  BY <1>3, SourceBegin DEF CheckNoActiveRun
<1>4. CASE LoadApplication(c)
  BY <1>4, SourceProceed DEF LoadApplication, Replacing, Holding
<1>5. CASE WriteSource(c)
  <2>1. PICK d :
          \/ Proceed(c, "discover", req[c].previous, d, req[c].name)
          \/ Proceed(c, "update", req[c].previous, d, None)
    BY <1>5 DEF WriteSource
  <2>2. req[c].pc \in Replacing /\ run' = run /\ disk \subseteq disk'
    BY <1>5 DEF WriteSource, Replacing, Holding
  <2> QED BY <2>1, <2>2, SourceProceed DEF Replacing, Holding
<1>6. CASE Discover(c) \/ DiscoverFails(c)
  <2>1. PICK pc \in {"update", "discard"} : \E name :
          Proceed(c, pc, req[c].previous, req[c].dir, name)
    BY <1>6 DEF Discover, DiscoverFails
  <2>2. req[c].pc \in Replacing /\ UNCHANGED <<run, disk>> /\ pc \in Replacing
    BY <1>6 DEF Discover, DiscoverFails, Replacing, Holding, Pending
  <2> QED BY <2>1, <2>2, SourceProceed
<1>7. CASE UpdateApplication(c)
  BY <1>7, SourceProceed DEF UpdateApplication, Replacing, Holding
<1>8. CASE UpdateFails(c)
  <2>1. /\ req[c].pc = "update" /\ req[c].pc \in Replacing
        /\ "discard" \in Replacing /\ UNCHANGED <<run, disk>>
    BY <1>8 DEF UpdateFails, Replacing, Holding, Pending
  <2>2. CASE Proceed(c, "discard", req[c].previous, req[c].dir, None)
    BY <2>1, <2>2, SourceProceed
  <2>3. CASE req' = [req EXCEPT ![c] = Idle]
    BY <1>b, <2>1, <2>3, SourceIdle
  <2> QED BY <1>8, <2>2, <2>3 DEF UpdateFails
<1>9. CASE CleanupPrevious(c) \/ DiscardWorkspace(c)
  <2>1. /\ req' = [req EXCEPT ![c] = Idle] /\ run' = run
        /\ req[c].pc \in Replacing /\ req[c].pc # "idle"
        /\ cleanup_temp_dir(req[c].previous) \/ cleanup_temp_dir(req[c].dir)
    BY <1>9 DEF CleanupPrevious, DiscardWorkspace, Replacing, Holding, Pending
  <2>2. ~ActiveRun(a) BY <1>a, <2>1 DEF SourceKnown
  <2>3. req[c].previous \in DirsOf(a) /\ req[c].dir \in DirsOf(a)
    BY <1>a DEF RequestTyped
  <2>4. SourcesKept' BY <2>1, <2>2, <2>3, CleanupKeepsSources
  <2> QED BY <2>1, <2>4, SourceIdle
<1>10. CASE LoadForRun(c)
  <2>1. PICK b \in Apps :
          /\ app[b].source # None
          /\ Begin(c, "start", "modernize", b, None, app[b].source, None)
    BY <1>10 DEF LoadForRun
  <2>2. app[b].source \in disk BY <2>1 DEF RecordedSourceExists
  <2> QED BY <1>10, <2>1, <2>2, SourceBegin DEF LoadForRun
<1>11. CASE AddRun(c)
  <2>1. PICK r \in Runs :
          run' = [run EXCEPT ![r] = [app |-> a, source |-> req[c].previous,
                                     active |-> TRUE]]
    BY <1>11 DEF AddRun
  <2>2. /\ req' = [req EXCEPT ![c] = Idle] /\ disk' = disk
        /\ req[c].pc = "start"
    BY <1>11 DEF AddRun
  <2>3. req[c].previous \in disk /\ req[c].previous \in DirsOf(a)
    BY <1>a, <2>2 DEF SourceKnown, RequestTyped
  <2>4. /\ run'[r].app = a /\ run'[r].source = req[c].previous
        /\ \A t \in Runs \ {r} : run'[t] = run[t]
    BY <1>a, <2>1 DEF RunsTyped
  <2>5. SourcesKept'
    BY <1>a, <2>2, <2>3, <2>4 DEF SourcesKept, DirsOf
  <2> QED BY <2>2, <2>5, SourceIdle
<1>12. CASE CheckRunSource(c)
  BY <1>12, SourceBegin DEF CheckRunSource
<1>13. CASE BeginRevalidation(c)
  <2>1. /\ run' = [run EXCEPT ![req[c].run].active = TRUE]
        /\ req' = [req EXCEPT ![c] = Idle] /\ disk' = disk
        /\ req[c].pc = "reset"
    BY <1>13 DEF BeginRevalidation
  <2>2. req[c].run \in Runs /\ run[req[c].run].source \in disk
    BY <1>a, <2>1 DEF SourceKnown, RequestTyped
  <2>3. SourcesKept'
    BY <1>a, <2>1, <2>2, ActiveAlone DEF SourcesKept
  <2> QED BY <2>1, <2>3, SourceIdle
<1> QED BY <1>1, <1>2, <1>3, <1>4, <1>5, <1>6, <1>7, <1>8, <1>9, <1>10,
           <1>11, <1>12, <1>13

\* Requests that do not overlap never take the source from a run in progress:
\* an upload or ingest is refused while one is (_refuse_while_run_active), and a
\* run starts, or starts again, only from a source that is there.
THEOREM RunsKeepTheirSource ==
  ASSUME ~FailedCommitApplies
  PROVE  ObservedSpec => []ActiveRunHasSource
<1>1. Init => SourceInvariant
  BY DEF Init, SourceInvariant, SourcesKept, SourceKnown,
         NoRun, Idle, Replacing, Holding, Pending
<1>2. /\ TypeInvariant /\ RecordedSourceExists /\ OneRequest /\ OneRequest'
      /\ SourceInvariant /\ [Next]_vars
      => SourceInvariant'
  <2> SUFFICES ASSUME TypeInvariant, RecordedSourceExists, OneRequest,
                      OneRequest', SourceInvariant, [Next]_vars
               PROVE  SourceInvariant'
    OBVIOUS
  <2>1. CASE UNCHANGED vars
    BY <2>1 DEF vars, SourceInvariant, SourcesKept,
                SourceKnown, ActiveRun
  <2>2. ASSUME NEW r \in Runs, RunEnds(r) PROVE SourceInvariant'
    <3>1. /\ run' = [run EXCEPT ![r].active = FALSE]
          /\ UNCHANGED <<disk, req>>
      BY <2>2 DEF RunEnds
    <3>2. \A t \in Runs : /\ run'[t].source = run[t].source
                          /\ run'[t].app = run[t].app
                          /\ run'[t].active => run[t].active
      BY <3>1, ActiveAlone DEF TypeInvariant
    <3>3. \A c \in Clients : req[c].pc = "reset" => req[c].run \in Runs
      BY DEF TypeInvariant, RequestTyped
    <3> QED BY <3>1, <3>2, <3>3 DEF SourceInvariant, SourcesKept,
               SourceKnown, ActiveRun
  <2> QED BY <2>1, <2>2, SourceStep DEF Next
<1>3. TakenInTurns /\ [Next /\ Observe]_<<vars, overlapped>> =>
        /\ [Next]_vars
        /\ ~overlapped' => ~overlapped /\ OneRequest
  BY NoOverlapSoFar
<1>4. (~overlapped => SourceInvariant) => ActiveRunHasSource
  BY DEF ActiveRunHasSource, SourceInvariant, SourcesKept
<1>5. TakenInTurns /\ ~overlapped => OneRequest BY DEF TakenInTurns
<1> QED BY <1>1, <1>2, <1>3, <1>4, <1>5, ObservedIsSpec, TypeHolds,
           SourceIsKept, PTL DEF ObservedSpec, Spec
=============================================================================
