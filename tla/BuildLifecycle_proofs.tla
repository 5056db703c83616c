----------------------- MODULE BuildLifecycle_proofs -----------------------
(***************************************************************************)
(* Theorems about BuildLifecycle, for every set of builds, runs and names  *)
(* and every bound.  The invariants are stated in BuildLifecycleInv.       *)
(***************************************************************************)
EXTENDS BuildLifecycleInv, TLAPS

LEMMA TypeInit == Init => TypeOK
  BY NoneAssumption DEF Init, TypeOK, Row, NoRow, Status, Labels, Live, Over,
     InPrepare, InTry

LEMMA TypeStep == ASSUME TypeOK, [Next]_vars PROVE TypeOK'
<1>. USE DEF TypeOK, Goto, Dispatch, requestVars, rowVars, fleetVars, localVars,
             runVars, diskVars, shareVars
<1>1. ASSUME NEW b \in Builds, Submit(b) PROVE TypeOK'
  BY <1>1 DEF Submit, Status
<1>2. ASSUME NEW b \in Builds, FleetCreate(b) PROVE TypeOK'
  BY <1>2 DEF FleetCreate, Row, Status
<1>3. ASSUME NEW b \in Builds, FleetRead(b) PROVE TypeOK'
  BY <1>3 DEF FleetRead, Row
<1>4. ASSUME NEW b \in Builds, FleetSave(b) PROVE TypeOK'
  BY <1>4 DEF FleetSave, Row, Status
<1>5. ASSUME NEW b \in Builds, FleetCommit(b) PROVE TypeOK'
  BY <1>5 DEF FleetCommit, Row, NoRow, Status
<1>6. ASSUME NEW b \in Builds, FleetRollback(b) PROVE TypeOK'
  BY <1>6 DEF FleetRollback, Row, NoRow, Status
<1>7. ASSUME NEW b \in Builds, DeleteBlob(b) PROVE TypeOK'
  <2>. DEFINE Objects == Content \cup {NoContent}
              kept == [n \in Names |->
                         IF n = artifact[b].name THEN NoContent ELSE blob[b][n]]
  <2>1. blob \in [Builds -> [Names -> Objects]]
    OBVIOUS
  <2>2. blob' \in {blob, [blob EXCEPT ![b] = kept]}
    BY <1>7 DEF DeleteBlob
  <2>3. kept \in [Names -> Objects]
    BY <2>1
  <2>. HIDE DEF kept, Objects
  <2>4. blob' \in [Builds -> [Names -> Objects]]
    BY <2>1, <2>2, <2>3
  <2>. QED  BY <1>7, <2>4 DEF DeleteBlob, Objects
<1>8. ASSUME NEW b \in Builds, DeleteRow(b) PROVE TypeOK'
  BY <1>8 DEF DeleteRow, Status
<1>9. ASSUME NEW r \in Runs, NEW b \in Builds, Deliver(r, b) PROVE TypeOK'
  BY <1>9 DEF Deliver, Labels, Live
<1>10. ASSUME NEW r \in Runs, RunStep(r) PROVE TypeOK'
  <2>. USE DEF Labels, Live, Over, InPrepare, InTry
  <2>1. CASE Load(r)
    <3>1. /\ pc[r] = "load" /\ pc' \in {[pc EXCEPT ![r] = "start"], [pc EXCEPT ![r] = "ack"]}
          /\ cfg' \in {cfg, [cfg EXCEPT ![r] = conf[job[r]]]}
      BY <2>1 DEF Load
    <3>2. cfg' \in [Runs -> Names \cup {None}]
      <4>1. job[r] \in Builds
        BY <3>1
      <4>2. cfg \in [Runs -> Names \cup {None}] /\ conf[job[r]] \in Names \cup {None}
        BY <4>1
      <4>. HIDE DEF TypeOK
      <4>. QED  BY <3>1, <4>2
    <3>3. pc' \in [Runs -> Labels] /\ \A s \in Runs : pc'[s] # "unused" => pc[s] # "unused"
      BY <3>1
    <3>4. UNCHANGED <<requestVars, ready, job, digest, unswept, diskVars, shareVars, deleting>>
      BY <2>1 DEF Load
    <3>. QED  BY <3>2, <3>3, <3>4
  <2>2. ASSUME NEW from \in Labels \ {"unused"}, NEW new \in Status,
               NEW next \in Labels, NEW orElse \in Labels,
               SaveStatus(r, from, new, next, orElse)
        PROVE  TypeOK'
    <3>1. /\ pc[r] = from /\ pc' \in {[pc EXCEPT ![r] = next], [pc EXCEPT ![r] = orElse]}
          /\ status' \in {status, [status EXCEPT ![job[r]] = new]}
      BY <2>2 DEF SaveStatus
    <3>2. status' \in [Builds -> Status]
      BY <3>1
    <3>3. pc' \in [Runs -> Labels] /\ \A s \in Runs : pc'[s] # "unused" => pc[s] # "unused"
      <4>1. pc \in [Runs -> Labels] /\ from # "unused"
        OBVIOUS
      <4>. HIDE DEF TypeOK, Labels
      <4>. QED  BY <3>1, <4>1
    <3>4. UNCHANGED <<task, conf, model, fleetVars, ready, localVars, diskVars, shareVars,
                      deleting>>
      BY <2>2 DEF SaveStatus
    <3>. QED  BY <3>2, <3>3, <3>4
  <2>3. CASE Start(r) \/ SaveBuilding(r) \/ SaveFinalizing(r) \/ Finish(r) \/ Fail(r)
    BY <2>2, <2>3 DEF Start, SaveBuilding, SaveFinalizing, Finish, Fail, Status
  <2>4. CASE MakeWorkDir(r)  BY <2>4 DEF MakeWorkDir
  <2>5. CASE FetchBase(r)  BY <2>5 DEF FetchBase, Content
  <2>6. CASE WritePillar(r)  BY <2>6 DEF WritePillar
  <2>7. CASE Provision(r)  BY <2>7 DEF Provision, Content
  <2>8. CASE Pack(r)  BY <2>8 DEF Pack
  <2>9. CASE HashPacked(r)  BY <2>9 DEF HashPacked
  <2>10. CASE DropPrevious(r)  BY <2>10 DEF DropPrevious
  <2>11. CASE StoreBlob(r)
    <3>. DEFINE Objects == Content \cup {NoContent}
                stored == [blob[job[r]] EXCEPT ![cfg[r]] = packed[job[r]]]
    <3>1. /\ job[r] \in Builds
          /\ blob \in [Builds -> [Names -> Objects]] /\ packed \in [Builds -> Objects]
      BY <2>11 DEF StoreBlob
    <3>2. blob' \in {blob, [blob EXCEPT ![job[r]] = stored]}
      BY <2>11 DEF StoreBlob
    <3>3. stored \in [Names -> Objects]
      BY <3>1
    <3>. HIDE DEF stored, Objects
    <3>4. blob' \in [Builds -> [Names -> Objects]]
      BY <3>1, <3>2, <3>3
    <3>. QED  BY <2>11, <3>4 DEF StoreBlob, Objects
  <2>12. CASE RecordArtifact(r)  BY <2>12 DEF RecordArtifact, Artifact
  <2>13. CASE IssueToken(r)  BY <2>13 DEF IssueToken
  <2>14. CASE RaiseInPrepare(r) \/ RaiseInTry(r) \/ Ack(r)
    BY <2>14 DEF RaiseInPrepare, RaiseInTry, Ack
  <2>15. CASE Sweep(r)
    <3>1. target' \in [Builds -> Content \cup {NoContent}]
      BY <2>15 DEF Sweep
    <3>2. packed' \in [Builds -> Content \cup {NoContent}]
      BY <2>15 DEF Sweep
    <3>3. pc' \in [Runs -> Labels] /\ \A s \in Runs : pc'[s] # "unused" => pc[s] # "unused"
      BY <2>15 DEF Sweep
    <3>. QED  BY <2>15, <3>1, <3>2, <3>3 DEF Sweep
  <2>. QED  BY <1>10, <2>1, <2>3, <2>4, <2>5, <2>6, <2>7, <2>8, <2>9, <2>10,
               <2>11, <2>12, <2>13, <2>14, <2>15 DEF RunStep
<1>11. ASSUME NEW r \in Runs, Crash(r) PROVE TypeOK'
  <2>. USE DEF Labels, Live, Over, InPrepare, InTry
  <2>1. CASE KillRun(r)  BY <2>1 DEF KillRun
  <2>2. CASE LoseWorker(r)  BY <2>2 DEF LoseWorker
  <2>. QED  BY <1>11, <2>1, <2>2 DEF Crash
<1>12. CASE UNCHANGED vars
  BY <1>12 DEF vars
<1>. HIDE DEF TypeOK, Goto, Dispatch, requestVars, rowVars, fleetVars, localVars,
              runVars, diskVars, shareVars
<1>. QED  BY <1>1, <1>2, <1>3, <1>4, <1>5, <1>6, <1>7, <1>8, <1>9, <1>10, <1>11,
             <1>12 DEF Next, FleetStep

-----------------------------------------------------------------------------
(* The shape of rows, copies and runs *)

LEMMA ShapeInit == Init => Shape
<1>. SUFFICES ASSUME Init PROVE Shape
  OBVIOUS
<1>1. TypeOK
  BY TypeInit
<1>. QED  BY <1>1 DEF Init, Shape, Gone, RowExists, Loaded, InPrepare, InTry

LEMMA ShapeStep == ASSUME Shape, [Next]_vars PROVE Shape'
<1>1. TypeOK /\ TypeOK'
  BY TypeStep DEF Shape
<1>. USE DEF Gone, RowExists, Loaded, InPrepare, InTry, Goto, requestVars, rowVars,
             fleetVars, localVars, runVars, diskVars, shareVars
<1>2. ASSUME NEW b \in Builds, Submit(b) PROVE Shape'
  BY <1>1, <1>2 DEF Shape, TypeOK, Submit, Fresh
<1>3. ASSUME NEW b \in Builds, FleetCreate(b) PROVE Shape'
  BY <1>1, <1>3 DEF Shape, TypeOK, FleetCreate, Fresh
<1>4. ASSUME NEW b \in Builds, FleetRead(b) PROVE Shape'
  BY <1>1, <1>4 DEF Shape, TypeOK, FleetRead
<1>5. ASSUME NEW b \in Builds, FleetSave(b) PROVE Shape'
  BY <1>1, <1>5 DEF Shape, TypeOK, FleetSave
<1>6. ASSUME NEW b \in Builds, FleetCommit(b) PROVE Shape'
  BY <1>1, <1>6 DEF Shape, TypeOK, FleetCommit
<1>7. ASSUME NEW b \in Builds, FleetRollback(b) PROVE Shape'
  BY <1>1, <1>7 DEF Shape, TypeOK, FleetRollback
<1>8. ASSUME NEW b \in Builds, DeleteBlob(b) PROVE Shape'
  BY <1>1, <1>8 DEF Shape, TypeOK, DeleteBlob
<1>9. ASSUME NEW b \in Builds, DeleteRow(b) PROVE Shape'
  BY <1>1, <1>9 DEF Shape, TypeOK, DeleteRow
<1>10. ASSUME NEW r \in Runs, NEW b \in Builds, Deliver(r, b) PROVE Shape'
  BY <1>1, <1>10 DEF Shape, TypeOK, Deliver
<1>11. ASSUME NEW r \in Runs, RunStep(r) PROVE Shape'
  <2>1. CASE Load(r)
    <3>1. CASE RowExists(job[r])
      <4>1. conf[job[r]] \in Names
        BY <1>1, <2>1, <3>1 DEF Shape, TypeOK, Load
      <4>2. /\ cfg' = [cfg EXCEPT ![r] = conf[job[r]]]
            /\ pc' = [pc EXCEPT ![r] = "start"]
            /\ UNCHANGED <<status, conf, phase, copy, deleting, artifact, unswept>>
        BY <2>1, <3>1 DEF Load
      <4>. QED  BY <1>1, <2>1, <4>1, <4>2 DEF Shape, TypeOK, Load
    <3>2. CASE ~RowExists(job[r])
      BY <1>1, <2>1, <3>2 DEF Shape, TypeOK, Load
    <3>. QED  BY <3>1, <3>2
  <2>2. ASSUME NEW from \in Loaded, NEW new \in Status \ {"absent", "deleted"},
               NEW next \in {"mkdir", "provision", "pack", "ack"},
               NEW orElse \in {"sweepfail", "ack"},
               SaveStatus(r, from, new, next, orElse)
        PROVE  Shape'
    BY <1>1, <2>2 DEF Shape, TypeOK, SaveStatus
  <2>3. CASE Start(r) \/ SaveBuilding(r) \/ SaveFinalizing(r) \/ Finish(r) \/ Fail(r)
    BY <2>2, <2>3 DEF Start, SaveBuilding, SaveFinalizing, Finish, Fail, Status
  <2>4. CASE MakeWorkDir(r)  BY <1>1, <2>4 DEF Shape, TypeOK, MakeWorkDir
  <2>5. CASE FetchBase(r)  BY <1>1, <2>5 DEF Shape, TypeOK, FetchBase
  <2>6. CASE WritePillar(r)  BY <1>1, <2>6 DEF Shape, TypeOK, WritePillar
  <2>7. CASE Provision(r)  BY <1>1, <2>7 DEF Shape, TypeOK, Provision
  <2>8. CASE Pack(r)  BY <1>1, <2>8 DEF Shape, TypeOK, Pack
  <2>9. CASE HashPacked(r)  BY <1>1, <2>9 DEF Shape, TypeOK, HashPacked
  <2>10. CASE DropPrevious(r)  BY <1>1, <2>10 DEF Shape, TypeOK, DropPrevious
  <2>11. CASE StoreBlob(r)  BY <1>1, <2>11 DEF Shape, TypeOK, StoreBlob
  <2>12. CASE RecordArtifact(r)  BY <1>1, <2>12 DEF Shape, TypeOK, RecordArtifact
  <2>13. CASE IssueToken(r)  BY <1>1, <2>13 DEF Shape, TypeOK, IssueToken
  <2>14. CASE RaiseInPrepare(r) \/ RaiseInTry(r) \/ Ack(r)
    BY <1>1, <2>14 DEF Shape, TypeOK, RaiseInPrepare, RaiseInTry, Ack
  <2>15. CASE Sweep(r)  BY <1>1, <2>15 DEF Shape, TypeOK, Sweep
  <2>. QED  BY <1>11, <2>1, <2>3, <2>4, <2>5, <2>6, <2>7, <2>8, <2>9, <2>10,
               <2>11, <2>12, <2>13, <2>14, <2>15 DEF RunStep
<1>12. ASSUME NEW r \in Runs, Crash(r) PROVE Shape'
  <2>1. CASE KillRun(r)  BY <1>1, <2>1 DEF Shape, TypeOK, KillRun
  <2>2. CASE LoseWorker(r)  BY <1>1, <2>2 DEF Shape, TypeOK, LoseWorker
  <2>. QED  BY <1>12, <2>1, <2>2 DEF Crash
<1>13. CASE UNCHANGED vars
  BY <1>1, <1>13 DEF Shape, vars
<1>. HIDE DEF Gone, RowExists, Loaded, InPrepare, InTry, Goto, requestVars, rowVars,
              fleetVars, localVars, runVars, diskVars, shareVars
<1>. QED  BY <1>2, <1>3, <1>4, <1>5, <1>6, <1>7, <1>8, <1>9, <1>10, <1>11, <1>12,
             <1>13 DEF Next, FleetStep

-----------------------------------------------------------------------------
(* Work dirs *)

\* Only three actions touch who has entered bake and what dirs there are.
LEMMA WorkDirFrame ==
  ASSUME [Next]_vars
  PROVE  \/ UNCHANGED <<dir, unswept, job>>
         \/ \E r \in Runs : MakeWorkDir(r) \/ Sweep(r)
         \/ \E r \in Runs, b \in Builds : Deliver(r, b)
<1>. USE DEF requestVars, rowVars, fleetVars, localVars, runVars, diskVars, shareVars
<1>1. ASSUME NEW b \in Builds, Submit(b) \/ FleetStep(b) \/ DeleteBlob(b) \/ DeleteRow(b)
      PROVE  UNCHANGED <<dir, unswept, job>>
  BY <1>1 DEF Submit, FleetStep, FleetCreate, FleetRead, FleetSave, FleetCommit,
     FleetRollback, DeleteBlob, DeleteRow
<1>2. ASSUME NEW r \in Runs, RunStep(r), ~MakeWorkDir(r), ~Sweep(r)
      PROVE  UNCHANGED <<dir, unswept, job>>
  BY <1>2 DEF RunStep, Load, Start, SaveStatus, FetchBase, WritePillar, SaveBuilding,
     Provision, SaveFinalizing, Pack, HashPacked, DropPrevious, StoreBlob,
     RecordArtifact, IssueToken, RaiseInPrepare, RaiseInTry, Finish, Fail, Ack
<1>3. ASSUME NEW r \in Runs, Crash(r)
      PROVE  UNCHANGED <<dir, unswept, job>>
  BY <1>3 DEF Crash, KillRun, LoseWorker
<1>4. CASE UNCHANGED vars
  BY <1>4 DEF vars
<1>. HIDE DEF requestVars, rowVars, fleetVars, localVars, runVars, diskVars, shareVars
<1>. QED  BY <1>1, <1>2, <1>3, <1>4 DEF Next

LEMMA WorkDirStep ==
  ASSUME Shape, WorkDirAccounted, [Next]_vars PROVE WorkDirAccounted'
<1>. USE DEF WorkDirAccounted, RunsOf, Shape, TypeOK
<1>1. ASSUME NEW r \in Runs, MakeWorkDir(r) PROVE WorkDirAccounted'
  BY <1>1 DEF MakeWorkDir
<1>2. ASSUME NEW r \in Runs, Sweep(r) PROVE WorkDirAccounted'
  BY <1>2 DEF Sweep
<1>3. ASSUME NEW r \in Runs, NEW b \in Builds, Deliver(r, b) PROVE WorkDirAccounted'
  BY <1>3 DEF Deliver, diskVars
<1>4. CASE UNCHANGED <<dir, unswept, job>>
  BY <1>4
<1>. HIDE DEF WorkDirAccounted, RunsOf, Shape, TypeOK
<1>. QED  BY <1>1, <1>2, <1>3, <1>4, WorkDirFrame

\* What bake makes it removes: in every interleaving of runs that share a work
\* dir, a work dir that is left was made by a run that did not reach its finally
\* clause (BuildLifecycle!WorkDirAccounted).
THEOREM WorkDirSafety == Spec => []WorkDirAccounted
<1>1. Init => Shape /\ WorkDirAccounted
  BY ShapeInit DEF Init, WorkDirAccounted
<1>2. Shape /\ WorkDirAccounted /\ [Next]_vars => (Shape /\ WorkDirAccounted)'
  BY ShapeStep, WorkDirStep
<1>. QED  BY <1>1, <1>2, PTL DEF Spec

\* Every variable keeps to its type (BuildLifecycle!TypeOK).
THEOREM TypeSafety == Spec => []TypeOK
<1>. QED  BY TypeInit, TypeStep, PTL DEF Spec

-----------------------------------------------------------------------------
(* Artifacts and objects *)

LEMMA PublishFrame ==
  ASSUME [Next]_vars
  PROVE  \/ UNCHANGED <<pc, job, cfg, status, deleting, blob, artifact>>
         \/ \E r \in Runs : RunStep(r) \/ Crash(r)
         \/ \E r \in Runs, b \in Builds : Deliver(r, b)
         \/ \E b \in Builds : Submit(b) \/ FleetCommit(b) \/ DeleteBlob(b) \/ DeleteRow(b)
<1>. USE DEF requestVars, rowVars, fleetVars, localVars, runVars, diskVars, shareVars
<1>1. ASSUME NEW b \in Builds, FleetStep(b), ~FleetCommit(b)
      PROVE  UNCHANGED <<pc, job, cfg, status, deleting, blob, artifact>>
  BY <1>1 DEF FleetStep, FleetCreate, FleetRead, FleetSave, FleetRollback
<1>2. CASE UNCHANGED vars
  BY <1>2 DEF vars
<1>. HIDE DEF requestVars, rowVars, fleetVars, localVars, runVars, diskVars, shareVars
<1>. QED  BY <1>1, <1>2 DEF Next

LEMMA PublishStep ==
  ASSUME Shape, PublishOrder, ArtifactHasBlob, [Next]_vars
  PROVE  (PublishOrder /\ ArtifactHasBlob)'
<1>1. TypeOK
  BY DEF Shape
<1>. DEFINE Kept == (PublishOrder /\ ArtifactHasBlob)'
<1>. USE DEF PublishOrder, ArtifactHasBlob, Gone, RowExists, Goto, requestVars, rowVars,
             fleetVars, localVars, runVars, diskVars, shareVars
<1>2. ASSUME NEW b \in Builds, Submit(b) \/ FleetCommit(b) PROVE Kept
  BY <1>1, <1>2 DEF Shape, TypeOK, Submit, Fresh, FleetCommit
<1>3. ASSUME NEW b \in Builds, DeleteBlob(b) PROVE Kept
  BY <1>1, <1>3 DEF Shape, TypeOK, DeleteBlob
<1>4. ASSUME NEW b \in Builds, DeleteRow(b) PROVE Kept
  BY <1>1, <1>4 DEF Shape, TypeOK, DeleteRow
<1>5. ASSUME NEW r \in Runs, NEW b \in Builds, Deliver(r, b) PROVE Kept
  BY <1>1, <1>5 DEF TypeOK, Deliver
<1>6. ASSUME NEW r \in Runs, RunStep(r) PROVE Kept
  <2>1. CASE Load(r)  BY <1>1, <2>1 DEF TypeOK, Load
  <2>2. ASSUME NEW from \in Loaded, NEW new \in Status \ {"deleted"},
               NEW next \in Labels \ {"record"}, NEW orElse \in Labels \ {"record"},
               SaveStatus(r, from, new, next, orElse)
        PROVE  Kept
    BY <1>1, <2>2 DEF TypeOK, SaveStatus
  <2>3. CASE Start(r) \/ SaveBuilding(r) \/ SaveFinalizing(r) \/ Finish(r) \/ Fail(r)
    BY <2>2, <2>3 DEF Start, SaveBuilding, SaveFinalizing, Finish, Fail, Status,
       Loaded, Labels, Live, InPrepare, InTry
  <2>4. CASE MakeWorkDir(r) \/ FetchBase(r) \/ WritePillar(r) \/ Provision(r)
                \/ Pack(r) \/ HashPacked(r)
    BY <1>1, <2>4 DEF TypeOK, MakeWorkDir, FetchBase, WritePillar, Provision, Pack,
       HashPacked
  <2>5. CASE DropPrevious(r)  BY <1>1, <2>5 DEF TypeOK, DropPrevious
  <2>6. CASE StoreBlob(r)
    BY <1>1, <2>6 DEF Shape, Loaded, InTry, TypeOK, StoreBlob
  <2>7. CASE RecordArtifact(r)
    BY <1>1, <2>7 DEF TypeOK, RecordArtifact
  <2>8. CASE IssueToken(r) \/ RaiseInPrepare(r) \/ RaiseInTry(r) \/ Sweep(r) \/ Ack(r)
    BY <1>1, <2>8 DEF TypeOK, IssueToken, RaiseInPrepare, RaiseInTry, Sweep, Ack
  <2>. QED  BY <1>6, <2>1, <2>3, <2>4, <2>5, <2>6, <2>7, <2>8 DEF RunStep
<1>7. ASSUME NEW r \in Runs, Crash(r) PROVE Kept
  <2>1. CASE KillRun(r)  BY <1>1, <2>1 DEF TypeOK, KillRun
  <2>2. CASE LoseWorker(r)  BY <1>1, <2>2 DEF TypeOK, LoseWorker
  <2>. QED  BY <1>7, <2>1, <2>2 DEF Crash
<1>8. CASE UNCHANGED <<pc, job, cfg, status, deleting, blob, artifact>>
  BY <1>8
<1>. HIDE DEF PublishOrder, ArtifactHasBlob, Gone, RowExists, Goto, requestVars,
              rowVars, fleetVars, localVars, runVars, diskVars, shareVars
<1>. QED  BY <1>2, <1>3, <1>4, <1>5, <1>6, <1>7, <1>8, PublishFrame

\* Whatever runs, requeues and deletions interleave in _publish, and whether or
\* not the store overwrites: no Artifact row without its object
\* (BuildLifecycle!ArtifactHasBlob).
THEOREM ArtifactSafety == Spec => []ArtifactHasBlob
<1>1. Init => Shape /\ PublishOrder /\ ArtifactHasBlob
  BY ShapeInit DEF Init, PublishOrder, ArtifactHasBlob
<1>2. Shape /\ PublishOrder /\ ArtifactHasBlob /\ [Next]_vars
        => (Shape /\ PublishOrder /\ ArtifactHasBlob)'
  BY ShapeStep, PublishStep
<1>. QED  BY <1>1, <1>2, PTL DEF Spec

-----------------------------------------------------------------------------
(* The discipline operators are asked to keep: the fleet command leaves     *)
(* builds alone that are queued or being baked.  Then a build is never      *)
(* baked by two runs at a time, and everything else follows from that.      *)

\* What every step of a run has in common.
LEMMA RunFrame ==
  ASSUME TypeOK, NEW r \in Runs, RunStep(r)
  PROVE  /\ pc[r] \in Live
         /\ pc'[r] \in Live \cup {"done"}
         /\ pc' = [pc EXCEPT ![r] = pc'[r]]
         /\ status' = [status EXCEPT ![job[r]] = status'[job[r]]]
         /\ model' = [model EXCEPT ![job[r]] = model'[job[r]]]
         /\ UNCHANGED <<task, conf, fleetVars, job, ready, deleting>>
<1>. USE DEF TypeOK, Goto, requestVars, rowVars, fleetVars, localVars, runVars, diskVars,
             shareVars, Live, InPrepare, InTry
<1>1. CASE Load(r)  BY <1>1 DEF Load
<1>2. CASE Start(r) \/ SaveBuilding(r) \/ SaveFinalizing(r) \/ Finish(r) \/ Fail(r)
  BY <1>2 DEF Start, SaveBuilding, SaveFinalizing, Finish, Fail, SaveStatus
<1>3. CASE MakeWorkDir(r) \/ FetchBase(r) \/ WritePillar(r) \/ Provision(r) \/ Pack(r)
             \/ HashPacked(r)
  BY <1>3 DEF MakeWorkDir, FetchBase, WritePillar, Provision, Pack, HashPacked
<1>4. CASE DropPrevious(r) \/ StoreBlob(r) \/ RecordArtifact(r) \/ IssueToken(r)
  BY <1>4 DEF DropPrevious, StoreBlob, RecordArtifact, IssueToken
<1>5. CASE RaiseInPrepare(r) \/ RaiseInTry(r) \/ Sweep(r) \/ Ack(r)
  BY <1>5 DEF RaiseInPrepare, RaiseInTry, Sweep, Ack
<1>. QED  BY <1>1, <1>2, <1>3, <1>4, <1>5 DEF RunStep

LEMMA CrashFrame ==
  ASSUME TypeOK, NEW r \in Runs, Crash(r)
  PROVE  /\ pc[r] \in Live
         /\ pc'[r] \in {"killed", "crashed"}
         /\ pc' = [pc EXCEPT ![r] = pc'[r]]
         /\ \/ pc'[r] = "crashed" /\ ready' = [ready EXCEPT ![job[r]] = @ + 1]
            \/ pc'[r] = "killed" /\ UNCHANGED ready
         /\ UNCHANGED <<requestVars, localVars, diskVars, shareVars, deleting>>
<1>1. CASE KillRun(r)  BY <1>1 DEF KillRun, TypeOK, Goto
<1>2. CASE LoseWorker(r)  BY <1>2 DEF LoseWorker, TypeOK, Goto
<1>. QED  BY <1>1, <1>2 DEF Crash

-----------------------------------------------------------------------------
(* One bake per build *)

LEMMA AloneFacts ==
  ASSUME ready \in [Builds -> Nat]
  PROVE  /\ OneBakePerBuild <=> AllAlone
         /\ \A b \in Builds : Quiescent(b) <=> Idle(b)
<1>1. ASSUME OneBakePerBuild, NEW b \in Builds PROVE Alone(b)
  <2>1. ready[b] \in {0, 1}
    BY <1>1 DEF OneBakePerBuild
  <2>2. ASSUME NEW r \in Runs, job[r] = b, pc[r] \in Live
        PROVE  ready[b] = 0 /\ \A s \in Runs : job[s] = b /\ pc[s] \in Live => s = r
    BY <1>1, <2>1, <2>2 DEF OneBakePerBuild, LiveRuns, RunsOf
  <2>. QED  BY <2>1, <2>2 DEF Alone
<1>2. ASSUME AllAlone PROVE OneBakePerBuild
  BY <1>2 DEF AllAlone, OneBakePerBuild, Alone, LiveRuns, RunsOf
<1>3. \A b \in Builds : Quiescent(b) <=> Idle(b)
  BY DEF Quiescent, Idle, LiveRuns, RunsOf
<1>. QED  BY <1>1, <1>2, <1>3 DEF AllAlone

LEMMA AloneStep ==
  ASSUME TypeOK, AllAlone, \A b \in Builds : phase[b] = "read" => Idle(b), [Next]_vars
  PROVE  AllAlone'
<1>1. /\ ready \in [Builds -> Nat]
      /\ pc \in [Runs -> Labels]
      /\ job \in [Runs -> Builds \cup {None}]
      /\ \A r \in Runs : pc[r] \in Live => job[r] \in Builds
      /\ {"unused", "done", "killed", "crashed"} \cap Live = {}
  BY DEF TypeOK, Live, InPrepare, InTry
<1>. USE DEF Alone, AllAlone
<1>2. ASSUME NEW b \in Builds, Submit(b) \/ FleetCreate(b) PROVE AllAlone'
  <2>1. Idle(b)
    BY <1>2 DEF Submit, FleetCreate, Fresh, Idle, RunsOf
  <2>2. UNCHANGED <<job, pc>> /\ \E sent \in BOOLEAN : Dispatch(b, sent)
    BY <1>2 DEF Submit, FleetCreate, runVars, localVars
  <2>. QED  BY <1>1, <2>1, <2>2 DEF Idle, Dispatch
<1>3. ASSUME NEW b \in Builds, FleetSave(b) PROVE AllAlone'
  <2>1. Idle(b)
    BY <1>3 DEF FleetSave
  <2>2. UNCHANGED <<job, pc>> /\ \E sent \in BOOLEAN : Dispatch(b, sent)
    BY <1>3 DEF FleetSave, runVars, localVars
  <2>. QED  BY <1>1, <2>1, <2>2 DEF Idle, Dispatch
<1>4. ASSUME NEW b \in Builds, FleetRead(b) \/ FleetCommit(b) \/ FleetRollback(b)
                                 \/ DeleteBlob(b) \/ DeleteRow(b)
      PROVE  AllAlone'
  <2>1. UNCHANGED <<job, pc, ready>>
    BY <1>4 DEF FleetRead, FleetCommit, FleetRollback, DeleteBlob, DeleteRow, runVars,
       localVars
  <2>. QED  BY <2>1
<1>5. ASSUME NEW r \in Runs, NEW b \in Builds, Deliver(r, b) PROVE AllAlone'
  <2>1. ready[b] = 1
    BY <1>1, <1>5 DEF Deliver
  <2>2. /\ pc[r] = "unused"
        /\ ready' = [ready EXCEPT ![b] = 0]
        /\ job' = [job EXCEPT ![r] = b]
        /\ pc' = [pc EXCEPT ![r] = "load"]
    BY <1>1, <1>5, <2>1 DEF Deliver, Goto
  <2>. QED  BY <1>1, <2>1, <2>2
<1>6. ASSUME NEW r \in Runs, RunStep(r) PROVE AllAlone'
  <2>1. /\ pc[r] \in Live
        /\ pc' = [pc EXCEPT ![r] = pc'[r]]
        /\ UNCHANGED <<job, ready>>
    BY <1>6, RunFrame
  <2>. QED  BY <1>1, <2>1
<1>7. ASSUME NEW r \in Runs, Crash(r) PROVE AllAlone'
  <2>1. /\ pc[r] \in Live
        /\ pc'[r] \notin Live
        /\ pc' = [pc EXCEPT ![r] = pc'[r]]
        /\ \/ ready' = [ready EXCEPT ![job[r]] = @ + 1]
           \/ UNCHANGED ready
        /\ UNCHANGED job
    BY <1>1, <1>7, CrashFrame DEF localVars
  <2>. QED  BY <1>1, <2>1
<1>8. CASE UNCHANGED vars
  <2>1. UNCHANGED <<job, pc, ready>>
    BY <1>8 DEF vars, runVars, localVars
  <2>. QED  BY <2>1
<1>. HIDE DEF Alone, AllAlone
<1>. QED  BY <1>2, <1>3, <1>4, <1>5, <1>6, <1>7, <1>8 DEF Next, FleetStep

\* Before its first save a run changes nothing in its row, and it does not get
\* past that save while the fleet command holds the row.
LEMMA BeforeStart ==
  ASSUME TypeOK, NEW r \in Runs, RunStep(r), pc[r] \notin Begun
  PROVE  \/ pc'[r] \notin Begun /\ UNCHANGED <<status, model>>
         \/ Start(r) /\ phase[job[r]] # "staged"
<1>. USE DEF Begun, Loaded, InPrepare, InTry
<1>1. CASE Load(r)
  BY <1>1 DEF Load, TypeOK, Goto, requestVars, rowVars
<1>2. CASE Start(r)
  BY <1>2 DEF Start, SaveStatus, Locked
<1>3. CASE Ack(r)
  BY <1>3 DEF Ack, TypeOK, Goto, requestVars, rowVars
<1>4. Load(r) \/ Start(r) \/ Ack(r)
  BY DEF RunStep, MakeWorkDir, FetchBase, WritePillar, SaveBuilding, Provision,
     SaveFinalizing, Pack, HashPacked, DropPrevious, StoreBlob, RecordArtifact,
     IssueToken, RaiseInPrepare, RaiseInTry, Sweep, Finish, Fail, SaveStatus
<1>. QED  BY <1>1, <1>2, <1>3, <1>4

LEMMA FleetWaitsStep ==
  ASSUME ~FleetWhileBusy, Shape, AllAlone, FleetWaits, [Next]_vars
  PROVE  FleetWaits'
<1>1. /\ ready \in [Builds -> Nat]
      /\ pc \in [Runs -> Labels]
      /\ job \in [Runs -> Builds \cup {None}]
      /\ \A r \in Runs : pc[r] \in Live => job[r] \in Builds
      /\ phase \in [Builds -> {"idle", "read", "staged"}]
      /\ copy \in [Builds -> Row]
      /\ status \in [Builds -> Status]
      /\ model \in [Builds -> Runs \cup {None}]
      /\ {"load", "done", "killed", "crashed"} \cap Begun = {}
      /\ Begun \subseteq Live
  BY DEF Shape, TypeOK, Live, Begun, Loaded, InPrepare, InTry
<1>2. TypeOK /\ \A b \in Builds : Quiescent(b) <=> Idle(b)
  BY <1>1, AloneFacts DEF Shape
<1>. USE DEF FleetWaits, Idle
<1>3. ASSUME NEW b \in Builds, Submit(b) PROVE FleetWaits'
  <2>1. /\ phase[b] = "idle"
        /\ status' = [status EXCEPT ![b] = "queued"]
        /\ UNCHANGED <<phase, copy, model, pc, job>>
        /\ \A c \in Builds : c # b => ready'[c] = ready[c]
    BY <1>1, <1>3 DEF Submit, Fresh, Dispatch, fleetVars, runVars, localVars
  <2>. QED  BY <1>1, <2>1
<1>4. ASSUME NEW b \in Builds, FleetCreate(b) PROVE FleetWaits'
  <2>1. /\ \A r \in Runs : job[r] # b
        /\ phase' = [phase EXCEPT ![b] = "staged"]
        /\ copy'[b].status = "queued"
        /\ \A c \in Builds : c # b => copy'[c] = copy[c] /\ ready'[c] = ready[c]
        /\ UNCHANGED <<status, model, pc, job>>
    BY <1>1, <1>4 DEF FleetCreate, Fresh, RunsOf, Dispatch, rowVars, runVars, localVars
  <2>. QED  BY <1>1, <2>1
<1>5. ASSUME NEW b \in Builds, FleetRead(b) PROVE FleetWaits'
  <2>1. /\ Idle(b)
        /\ phase' = [phase EXCEPT ![b] = "read"]
        /\ copy'[b].status = status[b] /\ copy'[b].model = model[b]
        /\ \A c \in Builds : c # b => copy'[c] = copy[c]
        /\ UNCHANGED <<status, model, pc, job, ready>>
    BY <1>1, <1>2, <1>5 DEF FleetRead, rowVars, runVars, localVars
  <2>. QED  BY <1>1, <2>1
<1>6. ASSUME NEW b \in Builds, FleetSave(b) PROVE FleetWaits'
  <2>1. /\ Idle(b)
        /\ phase' = [phase EXCEPT ![b] = "staged"]
        /\ copy'[b].status \in {"queued", copy[b].status}
        /\ copy'[b].model = copy[b].model
        /\ \A c \in Builds : c # b => copy'[c] = copy[c] /\ ready'[c] = ready[c]
        /\ UNCHANGED <<status, model, pc, job>>
    BY <1>1, <1>6 DEF FleetSave, Dispatch, rowVars, runVars, localVars
  <2>. QED  BY <1>1, <1>6, <2>1 DEF FleetSave
<1>7. ASSUME NEW b \in Builds, FleetCommit(b) \/ FleetRollback(b) PROVE FleetWaits'
  <2>1. /\ phase' = [phase EXCEPT ![b] = "idle"]
        /\ \A c \in Builds : c # b => /\ copy'[c] = copy[c]
                                      /\ status'[c] = status[c]
                                      /\ model'[c] = model[c]
        /\ UNCHANGED <<pc, job, ready>>
    BY <1>1, <1>7 DEF FleetCommit, FleetRollback, rowVars, runVars, localVars
  <2>. QED  BY <1>1, <2>1
<1>8. ASSUME NEW b \in Builds, DeleteBlob(b) \/ DeleteRow(b) PROVE FleetWaits'
  <2>1. /\ phase[b] = "idle"
        /\ \A c \in Builds : c # b => status'[c] = status[c]
        /\ UNCHANGED <<phase, copy, model, pc, job, ready>>
    BY <1>1, <1>8 DEF DeleteBlob, DeleteRow, Shape, Gone, requestVars, rowVars,
       fleetVars, runVars, localVars
  <2>. QED  BY <1>1, <2>1
<1>9. ASSUME NEW r \in Runs, NEW b \in Builds, Deliver(r, b) PROVE FleetWaits'
  <2>1. /\ ready[b] # 0
        /\ \A c \in Builds : c # b => ready'[c] = ready[c]
        /\ job' = [job EXCEPT ![r] = b]
        /\ pc' = [pc EXCEPT ![r] = "load"]
        /\ UNCHANGED <<phase, copy, status, model>>
    BY <1>1, <1>9 DEF Deliver, Goto, requestVars, rowVars, fleetVars
  <2>. QED  BY <1>1, <2>1
<1>10. ASSUME NEW r \in Runs, RunStep(r) PROVE FleetWaits'
  <2>1. /\ pc[r] \in Live
        /\ pc' = [pc EXCEPT ![r] = pc'[r]]
        /\ \A c \in Builds : c # job[r] => status'[c] = status[c] /\ model'[c] = model[c]
        /\ UNCHANGED <<job, ready, phase, copy>>
    BY <1>1, <1>2, <1>10, RunFrame DEF fleetVars
  <2>2. phase[job[r]] # "read"
    BY <1>1, <2>1
  <2>3. CASE phase[job[r]] = "idle"
    BY <1>1, <2>1, <2>3
  <2>4. CASE phase[job[r]] = "staged"
    <3>1. pc'[r] \notin Begun /\ UNCHANGED <<status, model>>
      BY <1>2, <1>10, <2>4, BeforeStart
    <3>. QED  BY <1>1, <2>1, <2>4, <3>1
  <2>. QED  BY <1>1, <2>1, <2>2, <2>3, <2>4
<1>11. ASSUME NEW r \in Runs, Crash(r) PROVE FleetWaits'
  <2>1. /\ pc[r] \in Live
        /\ pc'[r] \notin Begun
        /\ pc' = [pc EXCEPT ![r] = pc'[r]]
        /\ \A c \in Builds : c # job[r] => ready'[c] = ready[c]
        /\ UNCHANGED <<job, phase, copy, status, model>>
    BY <1>1, <1>2, <1>11, CrashFrame DEF requestVars, rowVars, fleetVars, localVars
  <2>. QED  BY <1>1, <2>1
<1>12. CASE UNCHANGED vars
  <2>1. UNCHANGED <<pc, job, ready, phase, copy, status, model>>
    BY <1>12 DEF vars, requestVars, rowVars, fleetVars, runVars, localVars
  <2>. QED  BY <2>1
<1>. HIDE DEF FleetWaits, Idle
<1>. QED  BY <1>3, <1>4, <1>5, <1>6, <1>7, <1>8, <1>9, <1>10, <1>11, <1>12
          DEF Next, FleetStep

LEMMA SerialInit == Init => Serial
<1>. SUFFICES ASSUME Init PROVE Serial
  OBVIOUS
<1>1. Shape
  BY ShapeInit
<1>2. AllAlone
  BY DEF Init, AllAlone, Alone, Live, InPrepare, InTry
<1>3. FleetWaits
  BY DEF Init, FleetWaits, Begun, Loaded, InPrepare, InTry
<1>. QED  BY <1>1, <1>2, <1>3 DEF Serial

LEMMA SerialStep ==
  ASSUME ~FleetWhileBusy, Serial, [Next]_vars PROVE Serial'
<1>1. TypeOK /\ (\A b \in Builds : phase[b] = "read" => Idle(b))
  BY DEF Serial, Shape, FleetWaits
<1>. QED  BY <1>1, ShapeStep, AloneStep, FleetWaitsStep DEF Serial

\* Late acknowledgement, redelivery after a crash and requeues by the fleet
\* command never put two runs of a build to work at once, as long as the command
\* leaves busy builds alone (BuildLifecycle!OneBakePerBuild).
THEOREM OneBakeSafety ==
  ASSUME ~FleetWhileBusy PROVE Spec => []OneBakePerBuild
<1>1. Init => Serial
  BY SerialInit
<1>2. Serial /\ [Next]_vars => Serial'
  BY SerialStep
<1>3. Serial => OneBakePerBuild
  BY AloneFacts DEF Serial, Shape, TypeOK
<1>. QED  BY <1>1, <1>2, <1>3, PTL DEF Spec

-----------------------------------------------------------------------------
(* The status of a build, and the run that is responsible for it *)

\* A step of r leaves the builds of all other runs alone.
LEMMA OthersElsewhere ==
  ASSUME TypeOK, AllAlone, NEW r \in Runs, pc[r] \in Live,
         NEW s \in Runs, s # r, pc[s] \in Live
  PROVE  job[s] # job[r]
<1>1. job[r] \in Builds
  BY DEF TypeOK, Live, InPrepare, InTry
<1>. QED  BY <1>1 DEF AllAlone, Alone

LEMMA StatusFollowsRun ==
  ASSUME TypeOK, StatusFollows, NEW r \in Runs, RunStep(r)
  PROVE  LET b == job[r] IN
         /\ pc'[r] \in Begun => status'[b] \in Active \cup {"deleted"}
         /\ pc'[r] \in {"mkdir", "fetch", "pillar", "building"} =>
              status'[b] \in {"preparing", "deleted"}
         /\ pc'[r] \in {"provision", "finalizing"} =>
              status'[b] \in {"building", "deleted"}
         /\ pc'[r] \in Late => status'[b] \in {"finalizing", "deleted"}
         /\ pc'[r] = "ack" => status'[b] \notin Active
<1>1. job[r] \in Builds /\ status \in [Builds -> Status] /\ pc \in [Runs -> Labels]
  BY RunFrame DEF TypeOK, Live, InPrepare, InTry
<1>. USE DEF StatusFollows, Begun, Loaded, InPrepare, InTry, Late, Active, Goto, rowVars,
             requestVars
<1>2. CASE Load(r)  BY <1>1, <1>2 DEF Load, RowExists
<1>3. ASSUME NEW from \in Begun \cup {"start"}, NEW new \in Status,
             NEW next \in Labels, NEW orElse \in {"ack", "sweepfail"},
             SaveStatus(r, from, new, next, orElse)
      PROVE  \/ pc'[r] = next /\ status'[job[r]] = new
             \/ pc'[r] = orElse /\ status'[job[r]] \in {"absent", "deleted"}
                                /\ UNCHANGED status
  BY <1>1, <1>3 DEF SaveStatus, RowExists
<1>4. CASE Start(r) \/ Finish(r) \/ Fail(r)
  <2>1. CASE Start(r)
    <3>1. SaveStatus(r, "start", "preparing", "mkdir", "ack")
      BY <2>1 DEF Start
    <3>2. \/ pc'[r] = "mkdir" /\ status'[job[r]] = "preparing"
          \/ pc'[r] = "ack" /\ status'[job[r]] \in {"absent", "deleted"}
      BY <1>3, <3>1 DEF Status, Labels, Live
    <3>. QED  BY <3>2
  <2>2. CASE Finish(r)
    <3>1. SaveStatus(r, "finish", "succeeded", "ack", "ack")
      BY <2>2 DEF Finish
    <3>2. pc'[r] = "ack" /\ status'[job[r]] \in {"succeeded", "absent", "deleted"}
      BY <1>3, <3>1 DEF Status, Labels, Live
    <3>. QED  BY <3>2
  <2>3. CASE Fail(r)
    <3>1. SaveStatus(r, "fail", "failed", "ack", "ack")
      BY <2>3 DEF Fail
    <3>2. pc'[r] = "ack" /\ status'[job[r]] \in {"failed", "absent", "deleted"}
      BY <1>3, <3>1 DEF Status, Labels, Live
    <3>. QED  BY <3>2
  <2>. QED  BY <1>4, <2>1, <2>2, <2>3
<1>5. CASE SaveBuilding(r)
  <2>1. /\ pc[r] = "building" /\ status[job[r]] \in Active \cup {"deleted"}
        /\ SaveStatus(r, "building", "building", "provision", "sweepfail")
    BY <1>1, <1>5 DEF SaveBuilding, SaveStatus
  <2>. QED  BY <1>1, <1>3, <2>1 DEF Status, Labels, Live
<1>6. CASE SaveFinalizing(r)
  <2>1. /\ pc[r] = "finalizing" /\ status[job[r]] \in Active \cup {"deleted"}
        /\ SaveStatus(r, "finalizing", "finalizing", "pack", "sweepfail")
    BY <1>1, <1>6 DEF SaveFinalizing, SaveStatus
  <2>. QED  BY <1>1, <1>3, <2>1 DEF Status, Labels, Live
<1>7. CASE MakeWorkDir(r) \/ FetchBase(r) \/ WritePillar(r) \/ Provision(r) \/ Pack(r)
             \/ HashPacked(r)
  BY <1>1, <1>7 DEF MakeWorkDir, FetchBase, WritePillar, Provision, Pack, HashPacked
<1>8. CASE DropPrevious(r) \/ StoreBlob(r) \/ RecordArtifact(r) \/ IssueToken(r)
  BY <1>1, <1>8 DEF DropPrevious, StoreBlob, RecordArtifact, IssueToken
<1>9. CASE RaiseInPrepare(r) \/ RaiseInTry(r) \/ Sweep(r) \/ Ack(r)
  BY <1>1, <1>9 DEF RaiseInPrepare, RaiseInTry, Sweep, Ack
<1>. QED  BY <1>2, <1>4, <1>5, <1>6, <1>7, <1>8, <1>9 DEF RunStep

LEMMA StatusFollowsStep ==
  ASSUME Serial, StatusFollows, [Next]_vars PROVE StatusFollows'
<1>1. /\ pc \in [Runs -> Labels]
      /\ job \in [Runs -> Builds \cup {None}]
      /\ status \in [Builds -> Status]
      /\ {"load", "done", "killed", "crashed"} \cap (Begun \cup Late \cup {"ack"}) = {}
      /\ Begun \cup Late \cup {"ack"} \subseteq Live
      /\ Late \subseteq Begun
      /\ {"mkdir", "fetch", "pillar", "building", "provision", "finalizing"}
           \subseteq Begun
  BY DEF Serial, Shape, TypeOK, Live, Begun, Late, Loaded, InPrepare, InTry
<1>2. TypeOK /\ AllAlone /\ FleetWaits
  BY DEF Serial, Shape
<1>3. \A r \in Runs : pc[r] \in Live => job[r] \in Builds
  BY <1>2 DEF TypeOK, Live, InPrepare, InTry
<1>. USE DEF StatusFollows, Late
<1>4. ASSUME NEW b \in Builds, Submit(b) PROVE StatusFollows'
  <2>1. /\ \A r \in Runs : job[r] # b
        /\ \A c \in Builds : c # b => status'[c] = status[c]
        /\ UNCHANGED <<pc, job>>
    BY <1>1, <1>4 DEF Submit, Fresh, RunsOf, runVars, localVars
  <2>. QED  BY <1>1, <1>3, <2>1
<1>5. ASSUME NEW b \in Builds, FleetCommit(b) PROVE StatusFollows'
  <2>1. /\ \A r \in Runs : job[r] = b => pc[r] \notin Begun
        /\ status'[b] \in {"queued", status[b]}
        /\ \A c \in Builds : c # b => status'[c] = status[c]
        /\ UNCHANGED <<pc, job>>
    BY <1>1, <1>2, <1>5 DEF FleetCommit, FleetWaits, runVars, localVars
  <2>2. "queued" \notin Active
    BY DEF Active
  <2>. QED  BY <1>1, <1>3, <2>1, <2>2
<1>6. ASSUME NEW b \in Builds, DeleteRow(b) PROVE StatusFollows'
  <2>1. /\ status' = [status EXCEPT ![b] = "deleted"]
        /\ UNCHANGED <<pc, job>>
    BY <1>6 DEF DeleteRow, runVars, localVars
  <2>2. "deleted" \notin Active
    BY DEF Active
  <2>. QED  BY <1>1, <1>3, <2>1, <2>2
<1>7. ASSUME NEW b \in Builds,
             FleetCreate(b) \/ FleetRead(b) \/ FleetSave(b) \/ FleetRollback(b)
               \/ DeleteBlob(b)
      PROVE  StatusFollows'
  <2>1. UNCHANGED <<pc, job, status>>
    BY <1>7 DEF FleetCreate, FleetRead, FleetSave, FleetRollback, DeleteBlob,
       requestVars, rowVars, runVars, localVars
  <2>. QED  BY <2>1
<1>8. ASSUME NEW r \in Runs, NEW b \in Builds, Deliver(r, b) PROVE StatusFollows'
  <2>1. /\ job' = [job EXCEPT ![r] = b]
        /\ pc' = [pc EXCEPT ![r] = "load"]
        /\ UNCHANGED status
    BY <1>8 DEF Deliver, Goto, requestVars, rowVars
  <2>. QED  BY <1>1, <1>3, <2>1
<1>9. ASSUME NEW r \in Runs, RunStep(r) PROVE StatusFollows'
  <2>1. /\ pc[r] \in Live
        /\ pc' = [pc EXCEPT ![r] = pc'[r]]
        /\ status' = [status EXCEPT ![job[r]] = status'[job[r]]]
        /\ UNCHANGED job
    BY <1>2, <1>9, RunFrame
  <2>2. ASSUME NEW s \in Runs, s # r, pc[s] \in Live PROVE status'[job[s]] = status[job[s]]
    BY <1>1, <1>2, <1>3, <2>1, <2>2, OthersElsewhere
  <2>3. LET b == job[r] IN
        /\ pc'[r] \in Begun => status'[b] \in Active \cup {"deleted"}
        /\ pc'[r] \in {"mkdir", "fetch", "pillar", "building"} =>
             status'[b] \in {"preparing", "deleted"}
        /\ pc'[r] \in {"provision", "finalizing"} =>
             status'[b] \in {"building", "deleted"}
        /\ pc'[r] \in Late => status'[b] \in {"finalizing", "deleted"}
        /\ pc'[r] = "ack" => status'[b] \notin Active
    BY <1>2, <1>9, StatusFollowsRun
  <2>. QED  BY <1>1, <1>3, <2>1, <2>2, <2>3
<1>10. ASSUME NEW r \in Runs, Crash(r) PROVE StatusFollows'
  <2>1. /\ pc'[r] \in {"killed", "crashed"}
        /\ pc' = [pc EXCEPT ![r] = pc'[r]]
        /\ UNCHANGED <<job, status>>
    BY <1>2, <1>10, CrashFrame DEF requestVars, rowVars, localVars
  <2>. QED  BY <1>1, <1>3, <2>1
<1>11. CASE UNCHANGED vars
  <2>1. UNCHANGED <<pc, job, status>>
    BY <1>11 DEF vars, requestVars, rowVars, runVars, localVars
  <2>. QED  BY <2>1
<1>. HIDE DEF StatusFollows, Late
<1>. QED  BY <1>4, <1>5, <1>6, <1>7, <1>8, <1>9, <1>10, <1>11 DEF Next, FleetStep

\* ActiveRowHasRun, run by run.
Attended(b) ==
  status[b] \in Active =>
    ready[b] > 0 \/ \E r \in Runs : job[r] = b /\ pc[r] \in Live \cup {"killed"}

LEMMA AttendedStep ==
  ASSUME Serial, StatusFollows, \A b \in Builds : Attended(b), [Next]_vars
  PROVE  (\A b \in Builds : Attended(b))'
<1>. DEFINE AllAttended == \A b \in Builds : Attended(b)
<1>1. /\ pc \in [Runs -> Labels]
      /\ job \in [Runs -> Builds \cup {None}]
      /\ status \in [Builds -> Status]
      /\ ready \in [Builds -> Nat]
      /\ {"absent", "queued", "succeeded", "failed", "deleted"} \cap Active = {}
      /\ {"load", "ack"} \subseteq Live /\ "unused" \notin Live
  BY DEF Serial, Shape, TypeOK, Live, InPrepare, InTry, Active
<1>2. TypeOK /\ AllAlone /\ FleetWaits
  BY DEF Serial, Shape
<1>3. \A r \in Runs : pc[r] \in Live => job[r] \in Builds
  BY <1>2 DEF TypeOK, Live, InPrepare, InTry
<1>. USE DEF Attended
<1>4. ASSUME NEW b \in Builds,
             Submit(b) \/ FleetCommit(b) \/ DeleteRow(b)
      PROVE  AllAttended'
  <2>1. /\ status'[b] \in Active => status'[b] = status[b]
        /\ \A c \in Builds : c # b => status'[c] = status[c]
        /\ UNCHANGED <<pc, job>>
        /\ \A c \in Builds : ready'[c] >= ready[c]
    BY <1>1, <1>2, <1>4 DEF Submit, FleetCommit, DeleteRow, FleetWaits, Dispatch,
       runVars, localVars
  <2>2. ASSUME NEW c \in Builds, Attended(c) PROVE Attended(c)'
    <3>1. status'[c] \in Active => status'[c] = status[c]
      BY <2>1
    <3>2. ready[c] \in Nat /\ ready'[c] >= ready[c] /\ ready'[c] \in Nat
      BY <1>1, <1>2, <2>1, TypeStep DEF TypeOK
    <3>. QED  BY <2>1, <2>2, <3>1, <3>2
  <2>. QED  BY <2>2
<1>5. ASSUME NEW b \in Builds,
             FleetCreate(b) \/ FleetRead(b) \/ FleetSave(b) \/ FleetRollback(b)
               \/ DeleteBlob(b)
      PROVE  AllAttended'
  <2>1. UNCHANGED <<pc, job, status>> /\ \A c \in Builds : ready'[c] >= ready[c]
    BY <1>1, <1>5 DEF FleetCreate, FleetRead, FleetSave, FleetRollback, DeleteBlob,
       requestVars, rowVars, runVars, localVars, Dispatch
  <2>2. ASSUME NEW c \in Builds, Attended(c) PROVE Attended(c)'
    <3>1. ready[c] \in Nat /\ ready'[c] >= ready[c] /\ ready'[c] \in Nat
      BY <1>1, <1>2, <2>1, TypeStep DEF TypeOK
    <3>. QED  BY <2>1, <2>2, <3>1
  <2>. QED  BY <2>2
<1>6. ASSUME NEW r \in Runs, NEW b \in Builds, Deliver(r, b) PROVE AllAttended'
  <2>1. /\ pc[r] = "unused"
        /\ \A c \in Builds : c # b => ready'[c] = ready[c]
        /\ job' = [job EXCEPT ![r] = b]
        /\ pc' = [pc EXCEPT ![r] = "load"]
        /\ UNCHANGED status
    BY <1>1, <1>6 DEF Deliver, Goto, requestVars, rowVars
  <2>. QED  BY <1>1, <2>1
<1>7. ASSUME NEW r \in Runs, RunStep(r) PROVE AllAttended'
  <2>1. /\ pc[r] \in Live
        /\ pc'[r] \in Live \cup {"done"}
        /\ pc' = [pc EXCEPT ![r] = pc'[r]]
        /\ status' = [status EXCEPT ![job[r]] = status'[job[r]]]
        /\ UNCHANGED <<job, ready>>
    BY <1>2, <1>7, RunFrame
  <2>2. CASE pc'[r] \in Live
    BY <1>1, <1>3, <2>1, <2>2
  <2>3. CASE pc'[r] = "done"
    <3>1. Ack(r)
      BY <1>1, <1>7, <2>3 DEF RunStep, Load, Start, SaveStatus, MakeWorkDir, FetchBase,
         WritePillar, SaveBuilding, Provision, SaveFinalizing, Pack, HashPacked,
         DropPrevious, StoreBlob, RecordArtifact, IssueToken, RaiseInPrepare,
         RaiseInTry, Sweep, Finish, Fail, Goto
    <3>2. status[job[r]] \notin Active /\ UNCHANGED status
      BY <3>1 DEF Ack, StatusFollows, requestVars, rowVars
    <3>. QED  BY <1>1, <1>3, <2>1, <3>2
  <2>. QED  BY <2>1, <2>2, <2>3
<1>8. ASSUME NEW r \in Runs, Crash(r) PROVE AllAttended'
  <2>1. /\ pc[r] \in Live
        /\ pc' = [pc EXCEPT ![r] = pc'[r]]
        /\ \/ ready' = [ready EXCEPT ![job[r]] = @ + 1]
           \/ pc'[r] = "killed" /\ UNCHANGED ready
        /\ UNCHANGED <<job, status>>
    BY <1>2, <1>8, CrashFrame DEF requestVars, rowVars, localVars
  <2>. QED  BY <1>1, <1>3, <2>1
<1>9. CASE UNCHANGED vars
  <2>1. UNCHANGED <<pc, job, status, ready>>
    BY <1>9 DEF vars, requestVars, rowVars, runVars, localVars
  <2>. QED  BY <2>1
<1>. HIDE DEF Attended
<1>. QED  BY <1>4, <1>5, <1>6, <1>7, <1>8, <1>9 DEF Next, FleetStep

LEMMA SerialInvInit == Init => Serial /\ StatusFollows /\ \A b \in Builds : Attended(b)
<1>. SUFFICES ASSUME Init
              PROVE  Serial /\ StatusFollows /\ \A b \in Builds : Attended(b)
  OBVIOUS
<1>1. Serial
  BY SerialInit
<1>2. StatusFollows
  BY DEF Init, StatusFollows, Begun, Loaded, Late, InPrepare, InTry
<1>3. \A b \in Builds : Attended(b)
  BY DEF Init, Attended, Active
<1>. QED  BY <1>1, <1>2, <1>3

\* A row that says a bake is going on is never forgotten: a run is at work on it
\* or a message will bring one, unless a pool process was killed and its message
\* acknowledged (BuildLifecycle!ActiveRowHasRun).
THEOREM ActiveRowSafety ==
  ASSUME ~FleetWhileBusy PROVE Spec => []ActiveRowHasRun
<1>. DEFINE IInv == Serial /\ StatusFollows /\ \A b \in Builds : Attended(b)
<1>1. Init => IInv
  BY SerialInvInit
<1>2. IInv /\ [Next]_vars => IInv'
  BY SerialStep, StatusFollowsStep, AttendedStep
<1>3. IInv => ActiveRowHasRun
  BY DEF Attended, ActiveRowHasRun, RunsOf
<1>. HIDE DEF IInv
<1>. QED  BY <1>1, <1>2, <1>3, PTL DEF Spec

-----------------------------------------------------------------------------
(* From the work dir to the download *)

\* A run touches nothing but the files, objects and rows of its own build.
LEMMA RunReach ==
  ASSUME TypeOK, NEW r \in Runs, RunStep(r), NEW c, c # job[r], c \in Builds
  PROVE  /\ target'[c] = target[c] /\ packed'[c] = packed[c]
         /\ blob'[c] = blob[c] /\ artifact'[c] = artifact[c]
         /\ c \in token' <=> c \in token
         /\ model'[c] = model[c] /\ status'[c] = status[c]
<1>. USE DEF TypeOK, requestVars, rowVars, diskVars, shareVars
<1>1. CASE Load(r)  BY <1>1 DEF Load
<1>2. CASE Start(r) \/ SaveBuilding(r) \/ SaveFinalizing(r) \/ Finish(r) \/ Fail(r)
  BY <1>2 DEF Start, SaveBuilding, SaveFinalizing, Finish, Fail, SaveStatus
<1>3. CASE MakeWorkDir(r) \/ FetchBase(r) \/ WritePillar(r) \/ Provision(r) \/ Pack(r)
             \/ HashPacked(r)
  BY <1>3 DEF MakeWorkDir, FetchBase, WritePillar, Provision, Pack, HashPacked
<1>4. CASE DropPrevious(r) \/ StoreBlob(r) \/ RecordArtifact(r) \/ IssueToken(r)
  BY <1>4 DEF DropPrevious, StoreBlob, RecordArtifact, IssueToken
<1>5. CASE RaiseInPrepare(r) \/ RaiseInTry(r) \/ Sweep(r) \/ Ack(r)
  BY <1>5 DEF RaiseInPrepare, RaiseInTry, Sweep, Ack
<1>. QED  BY <1>1, <1>2, <1>3, <1>4, <1>5 DEF RunStep

LEMMA RunOwnLocals ==
  ASSUME TypeOK, NEW r \in Runs, RunStep(r), NEW s \in Runs, s # r
  PROVE  digest'[s] = digest[s] /\ cfg'[s] = cfg[s] /\ job'[s] = job[s]
<1>. USE DEF TypeOK, localVars
<1>1. CASE Load(r)  BY <1>1 DEF Load
<1>2. CASE Start(r) \/ SaveBuilding(r) \/ SaveFinalizing(r) \/ Finish(r) \/ Fail(r)
  BY <1>2 DEF Start, SaveBuilding, SaveFinalizing, Finish, Fail, SaveStatus
<1>3. CASE MakeWorkDir(r) \/ FetchBase(r) \/ WritePillar(r) \/ Provision(r) \/ Pack(r)
             \/ HashPacked(r)
  BY <1>3 DEF MakeWorkDir, FetchBase, WritePillar, Provision, Pack, HashPacked
<1>4. CASE DropPrevious(r) \/ StoreBlob(r) \/ RecordArtifact(r) \/ IssueToken(r)
  BY <1>4 DEF DropPrevious, StoreBlob, RecordArtifact, IssueToken
<1>5. CASE RaiseInPrepare(r) \/ RaiseInTry(r) \/ Sweep(r) \/ Ack(r)
  BY <1>5 DEF RaiseInPrepare, RaiseInTry, Sweep, Ack
<1>. QED  BY <1>1, <1>2, <1>3, <1>4, <1>5 DEF RunStep

LEMMA GoneStep ==
  ASSUME Shape, [Next]_vars, NEW b \in Builds, Gone(b) PROVE Gone(b)'
<1>1. TypeOK /\ phase[b] = "idle" /\ status[b] # "absent"
  BY DEF Shape, Gone, RowExists
<1>. USE DEF Gone, TypeOK, requestVars, rowVars
<1>2. ASSUME NEW c \in Builds,
             Submit(c) \/ FleetStep(c) \/ DeleteBlob(c) \/ DeleteRow(c)
      PROVE  Gone(b)'
  BY <1>1, <1>2 DEF Submit, Fresh, FleetStep, FleetCreate, FleetRead, FleetSave,
     FleetCommit, FleetRollback, DeleteBlob, DeleteRow
<1>3. ASSUME NEW r \in Runs, RunStep(r) PROVE Gone(b)'
  <2>1. CASE b \in deleting
    BY <1>1, <1>3, <2>1, RunFrame
  <2>2. CASE status[b] = "deleted"
    <3>1. UNCHANGED status \/ \E new : status' = [status EXCEPT ![job[r]] = new] /\ RowExists(job[r])
      BY <1>3 DEF RunStep, Load, Start, SaveStatus, MakeWorkDir, FetchBase,
         WritePillar, SaveBuilding, Provision, SaveFinalizing, Pack, HashPacked,
         DropPrevious, StoreBlob, RecordArtifact, IssueToken, RaiseInPrepare,
         RaiseInTry, Sweep, Finish, Fail, Ack
    <3>. QED  BY <1>1, <2>2, <3>1 DEF RowExists
  <2>. QED  BY <2>1, <2>2
<1>4. ASSUME NEW r \in Runs, Crash(r) PROVE Gone(b)'
  BY <1>1, <1>4, CrashFrame
<1>5. ASSUME NEW r \in Runs, NEW c \in Builds, Deliver(r, c) PROVE Gone(b)'
  BY <1>5 DEF Deliver
<1>6. CASE UNCHANGED vars
  BY <1>6 DEF vars
<1>. HIDE DEF Gone, TypeOK, requestVars, rowVars
<1>. QED  BY <1>2, <1>3, <1>4, <1>5, <1>6 DEF Next

\* What a run does for itself.
LEMMA ImageInHandRun ==
  ASSUME TypeOK, NEW r \in Runs, RunStep(r), ImageInHand(r)
  PROVE  ImageInHand(r)'
<1>1. job[r] \in Builds /\ UNCHANGED job
  BY RunFrame DEF TypeOK, Live, InPrepare, InTry
<1>. USE DEF TypeOK, ImageInHand, Made, Late, Goto, requestVars, rowVars, diskVars, shareVars,
             localVars
<1>2. CASE Load(r)  BY <1>1, <1>2 DEF Load
<1>3. CASE Start(r) \/ SaveBuilding(r) \/ SaveFinalizing(r) \/ Finish(r) \/ Fail(r)
  BY <1>1, <1>3 DEF Start, SaveBuilding, SaveFinalizing, Finish, Fail, SaveStatus
<1>4. CASE MakeWorkDir(r) \/ FetchBase(r)
  BY <1>1, <1>4 DEF MakeWorkDir, FetchBase
<1>5. CASE WritePillar(r)  BY <1>1, <1>5 DEF WritePillar
<1>6. CASE Provision(r)  BY <1>1, <1>6 DEF Provision
<1>7. CASE Pack(r)  BY <1>1, <1>7 DEF Pack
<1>8. CASE HashPacked(r)  BY <1>1, <1>8 DEF HashPacked
<1>9. CASE DropPrevious(r) \/ StoreBlob(r) \/ RecordArtifact(r) \/ IssueToken(r)
  BY <1>1, <1>9 DEF DropPrevious, StoreBlob, RecordArtifact, IssueToken
<1>10. CASE RaiseInPrepare(r) \/ RaiseInTry(r) \/ Sweep(r) \/ Ack(r)
  BY <1>1, <1>10 DEF RaiseInPrepare, RaiseInTry, Sweep, Ack
<1>. QED  BY <1>2, <1>3, <1>4, <1>5, <1>6, <1>7, <1>8, <1>9, <1>10 DEF RunStep

LEMMA ImagePublishedRun ==
  ASSUME Overwrites, Shape, NEW r \in Runs, RunStep(r), ImageInHand(r), ImagePublished(r),
         Gone(job[r]) => Gone(job[r])'
  PROVE  ImagePublished(r)'
<1>1. TypeOK /\ job[r] \in Builds /\ UNCHANGED job
  BY RunFrame DEF Shape, TypeOK, Live, InPrepare, InTry
<1>2. pc[r] \in Loaded => cfg[r] \in Names
  BY DEF Shape
<1>. USE DEF TypeOK, ImagePublished, Goto, shareVars, localVars
<1>3. CASE Load(r)  BY <1>1, <1>3 DEF Load
<1>4. CASE Start(r) \/ SaveBuilding(r) \/ SaveFinalizing(r) \/ Finish(r) \/ Fail(r)
  BY <1>1, <1>4 DEF Start, SaveBuilding, SaveFinalizing, Finish, Fail, SaveStatus
<1>5. CASE MakeWorkDir(r) \/ FetchBase(r) \/ WritePillar(r) \/ Provision(r) \/ Pack(r)
             \/ HashPacked(r) \/ DropPrevious(r)
  BY <1>1, <1>5 DEF MakeWorkDir, FetchBase, WritePillar, Provision, Pack, HashPacked,
     DropPrevious
<1>6. CASE StoreBlob(r)
  <2>1. cfg[r] \in Names /\ packed[job[r]] = Made(r)
    BY <1>2, <1>6 DEF StoreBlob, Loaded, InTry, ImageInHand
  <2>. QED  BY <1>1, <1>6, <2>1 DEF StoreBlob
<1>7. CASE RecordArtifact(r)
  BY <1>1, <1>7 DEF RecordArtifact, ImageInHand
<1>8. CASE IssueToken(r)
  BY <1>1, <1>8 DEF IssueToken
<1>9. CASE RaiseInPrepare(r) \/ RaiseInTry(r) \/ Sweep(r) \/ Ack(r)
  BY <1>1, <1>9 DEF RaiseInPrepare, RaiseInTry, Sweep, Ack
<1>. QED  BY <1>3, <1>4, <1>5, <1>6, <1>7, <1>8, <1>9 DEF RunStep

LEMMA ImageStep ==
  ASSUME Overwrites, Serial, ImageFollows, [Next]_vars
  PROVE  ImageFollows'
<1>1. /\ Shape /\ TypeOK /\ AllAlone /\ FleetWaits
      /\ \A b \in Builds : Gone(b) => Gone(b)'
  BY GoneStep DEF Serial, Shape
<1>. DEFINE InUse == Late \cup {"building", "provision", "finalizing"}
<1>2. /\ InUse \subseteq Begun /\ Begun \subseteq Live
      /\ \A r \in Runs : pc[r] \in Live => job[r] \in Builds
      /\ {"load", "killed", "crashed"} \cap InUse = {}
  BY <1>1 DEF TypeOK, Begun, Loaded, Late, Live, InPrepare, InTry
<1>. DEFINE Follows(r) == ImageInHand(r) /\ ImagePublished(r)
\* A step that touches none of what r relies on.
<1>3. ASSUME NEW r \in Runs, Follows(r), pc'[r] = pc[r] \/ pc'[r] \notin InUse,
             pc[r] \in InUse =>
               LET b == job[r] IN
               /\ job'[r] = b /\ cfg'[r] = cfg[r] /\ digest'[r] = digest[r]
               /\ target'[b] = target[b] /\ packed'[b] = packed[b] /\ model'[b] = model[b]
               /\ artifact'[b] \in {artifact[b], NoArtifact}
               /\ \/ /\ blob'[b] = blob[b] /\ artifact'[b] = artifact[b]
                     /\ b \in token => b \in token'
                  \/ Gone(b)'
      PROVE  Follows(r)'
  <2>1. CASE pc'[r] \notin InUse
    BY <2>1 DEF ImageInHand, ImagePublished, Late
  <2>2. CASE pc'[r] = pc[r] /\ pc[r] \in InUse
    <3>1. job[r] \in Builds /\ (Gone(job[r]) => Gone(job[r])')
      BY <1>1, <1>2, <1>3, <2>2 DEF Gone
    <3>2. ImageInHand(r)'
      BY <1>3, <2>2 DEF ImageInHand, Made
    <3>3. ImagePublished(r)'
      BY <1>3, <2>2, <3>1 DEF ImagePublished, Made
    <3>. QED  BY <3>2, <3>3
  <2>. QED  BY <1>3, <2>1, <2>2
<1>. SUFFICES ASSUME NEW s \in Runs PROVE Follows(s)'
  BY DEF ImageFollows
<1>4. Follows(s)
  BY DEF ImageFollows
<1>5. ASSUME NEW b \in Builds, Submit(b) \/ FleetCreate(b) \/ FleetRead(b) \/ FleetSave(b)
                                 \/ FleetRollback(b)
      PROVE  Follows(s)'
  <2>1. UNCHANGED <<pc, job, cfg, digest, target, packed, model, blob, artifact, token>>
    BY <1>5 DEF Submit, FleetCreate, FleetRead, FleetSave, FleetRollback, rowVars,
       requestVars, runVars, localVars, diskVars, shareVars
  <2>. HIDE DEF Follows, InUse
  <2>. QED  BY <1>3, <1>4, <2>1
<1>6. ASSUME NEW b \in Builds, FleetCommit(b) PROVE Follows(s)'
  <2>1. /\ UNCHANGED <<pc, job, cfg, digest, target, packed, blob, artifact, token>>
        /\ phase[b] # "idle"
        /\ \A c \in Builds : c # b => model'[c] = model[c]
    BY <1>1, <1>6 DEF FleetCommit, TypeOK, runVars, localVars, diskVars, shareVars
  <2>2. pc[s] \in InUse => job[s] # b /\ job[s] \in Builds
    BY <1>1, <1>2, <2>1 DEF FleetWaits
  <2>. HIDE DEF Follows, InUse
  <2>. QED  BY <1>3, <1>4, <2>1, <2>2
<1>7. ASSUME NEW b \in Builds, DeleteBlob(b) \/ DeleteRow(b) PROVE Follows(s)'
  <2>1. /\ UNCHANGED <<pc, job, cfg, digest, target, packed, model>>
        /\ \A c \in Builds : artifact'[c] \in {artifact[c], NoArtifact}
        /\ \A c \in Builds : \/ /\ blob'[c] = blob[c] /\ artifact'[c] = artifact[c]
                                /\ c \in token => c \in token'
                             \/ Gone(c)'
    BY <1>1, <1>7 DEF DeleteBlob, DeleteRow, TypeOK, Gone, requestVars, rowVars,
       runVars, localVars, diskVars, shareVars
  <2>. HIDE DEF Follows, InUse
  <2>. QED  BY <1>2, <1>3, <1>4, <2>1
<1>8. ASSUME NEW r \in Runs, NEW b \in Builds, Deliver(r, b) PROVE Follows(s)'
  <2>1. /\ UNCHANGED <<cfg, digest, target, packed, model, blob, artifact, token>>
        /\ pc'[r] = "load" /\ (s # r => pc'[s] = pc[s] /\ job'[s] = job[s])
    BY <1>1, <1>8 DEF Deliver, Goto, TypeOK, requestVars, rowVars, diskVars, shareVars
  <2>2. s = r => pc[s] \notin InUse /\ pc'[s] \notin InUse
    BY <1>2, <1>8, <2>1 DEF Deliver, Begun, Loaded, InPrepare, InTry
  <2>. HIDE DEF Follows, InUse
  <2>. QED  BY <1>3, <1>4, <2>1, <2>2
<1>9. ASSUME NEW r \in Runs, RunStep(r) PROVE Follows(s)'
  <2>1. /\ pc[r] \in Live /\ pc' = [pc EXCEPT ![r] = pc'[r]]
        /\ job[r] \in Builds
    BY <1>1, <1>2, <1>9, RunFrame
  <2>2. CASE s = r
    <3>1. Gone(job[r]) => Gone(job[r])'
      BY <1>1, <1>9, <2>1, RunFrame DEF Gone
    <3>2. ImageInHand(r)'
      BY <1>1, <1>4, <1>9, <2>2, ImageInHandRun
    <3>3. ImagePublished(r)'
      BY <1>1, <1>4, <1>9, <2>2, <3>1, ImagePublishedRun
    <3>. QED  BY <2>2, <3>2, <3>3
  <2>3. CASE s # r
    <3>1. pc'[s] = pc[s] /\ cfg'[s] = cfg[s] /\ digest'[s] = digest[s] /\ job'[s] = job[s]
      BY <1>1, <1>9, <2>1, <2>3, RunOwnLocals DEF TypeOK
    <3>2. pc[s] \in InUse => job[s] \in Builds /\ job[s] # job[r]
      BY <1>1, <1>2, <2>1, <2>3, OthersElsewhere
    <3>3. pc[s] \in InUse =>
            LET c == job[s] IN
            /\ target'[c] = target[c] /\ packed'[c] = packed[c] /\ model'[c] = model[c]
            /\ blob'[c] = blob[c] /\ artifact'[c] = artifact[c]
            /\ c \in token => c \in token'
      BY <1>1, <1>9, <3>2, RunReach
    <3>. HIDE DEF Follows, InUse
    <3>. QED  BY <1>3, <1>4, <3>1, <3>3
  <2>. QED  BY <2>2, <2>3
<1>10. ASSUME NEW r \in Runs, Crash(r) PROVE Follows(s)'
  <2>1. /\ UNCHANGED <<job, cfg, digest, target, packed, model, blob, artifact, token>>
        /\ pc'[s] = pc[s] \/ pc'[s] \in {"killed", "crashed"}
    BY <1>1, <1>10, CrashFrame DEF TypeOK, requestVars, rowVars, localVars, diskVars,
       shareVars
  <2>2. pc'[s] = pc[s] \/ pc'[s] \notin InUse
    BY <1>2, <2>1
  <2>. HIDE DEF Follows, InUse
  <2>. QED  BY <1>3, <1>4, <2>1, <2>2
<1>11. CASE UNCHANGED vars
  <2>1. UNCHANGED <<pc, job, cfg, digest, target, packed, model, blob, artifact, token>>
    BY <1>11 DEF vars, requestVars, rowVars, runVars, localVars, diskVars, shareVars
  <2>. HIDE DEF Follows, InUse
  <2>. QED  BY <1>3, <1>4, <2>1
<1>. HIDE DEF Follows, InUse
<1>. QED  BY <1>5, <1>6, <1>7, <1>8, <1>9, <1>10, <1>11 DEF Next, FleetStep

\* SucceededIsDelivered, build by build.
Delivered(b) ==
  status[b] = "succeeded" /\ b \notin deleting =>
    /\ Downloadable(b)
    /\ artifact[b].digest.stage = "provisioned"
    /\ model[b] = artifact[b].digest.by

\* Only Finish makes a build succeeded, and no other step of a run touches what
\* a succeeded build offers.
LEMMA SuccessOfRun ==
  ASSUME Serial, StatusFollows, NEW r \in Runs, RunStep(r), job[r] \in Builds,
         status'[job[r]] = "succeeded"
  PROVE  \/ Finish(r)
         \/ UNCHANGED <<status, model, blob, artifact, token>>
<1>1. TypeOK
  BY DEF Serial, Shape
<1>2. CASE pc[r] \notin Begun
  <2>1. Load(r) \/ Start(r) \/ Ack(r)
    BY <1>2 DEF RunStep, MakeWorkDir, FetchBase, WritePillar, SaveBuilding, Provision,
       SaveFinalizing, Pack, HashPacked, DropPrevious, StoreBlob, RecordArtifact,
       IssueToken, RaiseInPrepare, RaiseInTry, Sweep, Finish, Fail, SaveStatus, Begun,
       Loaded, InPrepare, InTry
  <2>2. CASE Load(r) \/ Ack(r)
    BY <2>2 DEF Load, Ack, requestVars, rowVars, shareVars
  <2>3. CASE Start(r)
    BY <1>1, <2>3 DEF Start, SaveStatus, TypeOK, requestVars, rowVars, shareVars
  <2>. QED  BY <2>1, <2>2, <2>3
<1>3. CASE pc[r] \in Begun
  <2>1. status[job[r]] # "succeeded"
    BY <1>3 DEF StatusFollows, Active
  <2>2. status' # status
    BY <2>1
  <2>3. Start(r) \/ SaveBuilding(r) \/ SaveFinalizing(r) \/ Finish(r) \/ Fail(r)
    BY <2>2 DEF RunStep, Load, MakeWorkDir, FetchBase, WritePillar, Provision, Pack,
       HashPacked, DropPrevious, StoreBlob, RecordArtifact, IssueToken, RaiseInPrepare,
       RaiseInTry, Sweep, Ack, requestVars, rowVars
  <2>4. ASSUME NEW from, NEW new, NEW next, NEW orElse, new # "succeeded",
               SaveStatus(r, from, new, next, orElse)
        PROVE  FALSE
    BY <1>1, <2>1, <2>4 DEF SaveStatus, TypeOK
  <2>5. Finish(r)
    BY <2>3, <2>4 DEF Start, SaveBuilding, SaveFinalizing, Fail
  <2>. QED  BY <2>5
<1>. QED  BY <1>2, <1>3

LEMMA DeliveredStep ==
  ASSUME Serial, StatusFollows, ImageFollows, \A b \in Builds : Delivered(b),
         [Next]_vars
  PROVE  (\A b \in Builds : Delivered(b))'
<1>. SUFFICES ASSUME NEW b \in Builds, status'[b] = "succeeded", b \notin deleting'
              PROVE  Delivered(b)'
  BY DEF Delivered
<1>1. TypeOK /\ FleetWaits /\ Delivered(b)
  BY DEF Serial, Shape
\* Nothing that b offers has changed, and it was succeeded before.
<1>2. ASSUME status[b] = "succeeded", b \notin deleting, model'[b] = model[b],
             blob'[b] = blob[b], artifact'[b] = artifact[b], b \in token => b \in token'
      PROVE  Delivered(b)'
  BY <1>1, <1>2 DEF Delivered, Downloadable
<1>3. ASSUME NEW c \in Builds, Submit(c) \/ FleetCommit(c) PROVE Delivered(b)'
  <2>1. /\ status[b] = "succeeded" /\ b \notin deleting /\ model'[b] = model[b]
        /\ UNCHANGED <<blob, artifact, token>>
    BY <1>1, <1>3 DEF TypeOK, Submit, FleetCommit, FleetWaits, shareVars
  <2>. QED  BY <1>2, <2>1
<1>4. ASSUME NEW c \in Builds,
             FleetCreate(c) \/ FleetRead(c) \/ FleetSave(c) \/ FleetRollback(c)
      PROVE  Delivered(b)'
  <2>1. UNCHANGED <<status, model, deleting, blob, artifact, token>>
    BY <1>4 DEF FleetCreate, FleetRead, FleetSave, FleetRollback, requestVars,
       rowVars, shareVars
  <2>. QED  BY <1>2, <2>1
<1>5. ASSUME NEW c \in Builds, DeleteBlob(c) \/ DeleteRow(c) PROVE Delivered(b)'
  <2>1. /\ status[b] = "succeeded" /\ b \notin deleting /\ model'[b] = model[b]
        /\ blob'[b] = blob[b] /\ artifact'[b] = artifact[b] /\ (b \in token => b \in token')
    BY <1>1, <1>5 DEF TypeOK, DeleteBlob, DeleteRow, requestVars, rowVars
  <2>. QED  BY <1>2, <2>1
<1>6. ASSUME NEW r \in Runs, RunStep(r) PROVE Delivered(b)'
  <2>1. job[r] \in Builds /\ UNCHANGED deleting
    BY <1>1, <1>6, RunFrame DEF TypeOK, Live, InPrepare, InTry
  <2>2. CASE job[r] # b
    BY <1>1, <1>2, <1>6, <2>1, <2>2, RunReach
  <2>3. CASE job[r] = b /\ ~Finish(r)
    <3>1. UNCHANGED <<status, model, blob, artifact, token>>
      BY <1>6, <2>1, <2>3, SuccessOfRun
    <3>. QED  BY <1>2, <2>1, <3>1
  <2>4. CASE job[r] = b /\ Finish(r)
    <3>1. /\ pc[r] = "finish"
          /\ UNCHANGED <<model, blob, artifact, token>>
      BY <2>4 DEF Finish, SaveStatus, shareVars
    <3>2. ~Gone(b)
      BY <1>1, <2>1, <2>4 DEF Finish, SaveStatus, Gone, RowExists, TypeOK
    <3>3. /\ artifact[b] = [by |-> r, name |-> cfg[r], digest |-> Made(r)]
          /\ blob[b][cfg[r]] = Made(r)
          /\ b \in token
          /\ model[b] = r
      BY <2>4, <3>1, <3>2 DEF ImageFollows, ImageInHand, ImagePublished, Late
    <3>4. artifact[b] # NoArtifact
      BY <3>3, NoneAssumption DEF NoArtifact
    <3>. QED  BY <3>1, <3>3, <3>4 DEF Delivered, Downloadable, Made
  <2>. QED  BY <2>2, <2>3, <2>4
<1>7. ASSUME NEW r \in Runs, Crash(r) PROVE Delivered(b)'
  BY <1>1, <1>2, <1>7, CrashFrame DEF requestVars, rowVars, shareVars
<1>8. ASSUME NEW r \in Runs, NEW c \in Builds, Deliver(r, c) PROVE Delivered(b)'
  BY <1>2, <1>8 DEF Deliver, requestVars, rowVars, shareVars
<1>9. CASE UNCHANGED vars
  BY <1>2, <1>9 DEF vars, requestVars, rowVars, shareVars
<1>. QED  BY <1>3, <1>4, <1>5, <1>6, <1>7, <1>8, <1>9 DEF Next, FleetStep

\* A build that is listed as succeeded, and is not being deleted, has its image
\* on offer: stored under the recorded name, with the recorded checksum, with a
\* token, provisioned, and made from the model its row shows
\* (BuildLifecycle!SucceededIsDelivered).
THEOREM DeliverySafety ==
  ASSUME ~FleetWhileBusy, Overwrites PROVE Spec => []SucceededIsDelivered
<1>. DEFINE IInv == /\ Serial /\ StatusFollows /\ ImageFollows
                    /\ \A b \in Builds : Delivered(b)
<1>1. Init => IInv
  <2>. SUFFICES ASSUME Init PROVE IInv
    OBVIOUS
  <2>1. Serial /\ StatusFollows
    BY SerialInvInit
  <2>2. ImageFollows
    BY DEF Init, ImageFollows, ImageInHand, ImagePublished, Late
  <2>3. \A b \in Builds : Delivered(b)
    BY DEF Init, Delivered
  <2>. QED  BY <2>1, <2>2, <2>3
<1>2. IInv /\ [Next]_vars => IInv'
  BY SerialStep, StatusFollowsStep, ImageStep, DeliveredStep
<1>3. IInv => SucceededIsDelivered
  BY DEF Delivered, SucceededIsDelivered
<1>. HIDE DEF IInv
<1>. QED  BY <1>1, <1>2, <1>3, PTL DEF Spec

-----------------------------------------------------------------------------
(* BuildLifecycle implements BuildRequests: every step of a worker, the     *)
(* fleet command or an operator is a step of the build as its page shows    *)
(* it, or changes nothing there.                                            *)

Offered == {b \in Builds : Downloadable(b)}

RefinementInv == Serial /\ StatusFollows /\ ImageFollows

LEMMA RefinementInit == Init => Requests!Init
  BY DEF Init, Requests!Init, Downloadable

\* Only the build a step is about can change its place among the offers.
LEMMA OfferedFrame ==
  ASSUME TypeOK, NEW b \in Builds,
         \A c \in Builds : c # b => /\ artifact'[c] = artifact[c] /\ blob'[c] = blob[c]
                                    /\ c \in token' <=> c \in token
  PROVE  /\ (Downloadable(b)' <=> Downloadable(b)) => Offered' = Offered
         /\ ~Downloadable(b)' => Offered' = Offered \ {b}
         /\ Downloadable(b)' => Offered' = Offered \cup {b}
<1>1. \A c \in Builds : c # b => (Downloadable(c)' <=> Downloadable(c))
  BY DEF Downloadable
<1>. QED  BY <1>1 DEF Offered

\* Each action outside the runs.
LEMMA EnvironmentRefines ==
  ASSUME RefinementInv, NEW b \in Builds,
         Submit(b) \/ FleetStep(b) \/ DeleteBlob(b) \/ DeleteRow(b)
  PROVE  Requests!Next \/ UNCHANGED <<status, Offered, deleting>>
<1>1. TypeOK /\ Shape /\ FleetWaits /\ status \in [Builds -> Status]
  BY DEF RefinementInv, Serial, Shape, TypeOK
<1>2. ASSUME UNCHANGED shareVars PROVE UNCHANGED Offered
  BY <1>2 DEF shareVars, Offered, Downloadable
<1>3. CASE Submit(b)
  <2>1. /\ status[b] = "absent" /\ status' = [status EXCEPT ![b] = "queued"]
        /\ UNCHANGED <<shareVars, deleting>>
    BY <1>3 DEF Submit, Fresh
  <2>2. Requests!Submit(b)
    BY <1>2, <2>1 DEF Requests!Submit, Requests!Move, Offered
  <2>. QED  BY <2>2 DEF Requests!Next
<1>4. CASE FleetCreate(b) \/ FleetRead(b) \/ FleetSave(b) \/ FleetRollback(b)
  <2>1. UNCHANGED <<status, shareVars, deleting>>
    BY <1>4 DEF FleetCreate, FleetRead, FleetSave, FleetRollback, rowVars, requestVars
  <2>. QED  BY <1>2, <2>1
<1>5. CASE FleetCommit(b)
  <2>1. /\ status' = [status EXCEPT ![b] = copy[b].status]
        /\ copy[b].status \in {"queued", status[b]}
        /\ UNCHANGED <<shareVars, deleting>>
    BY <1>1, <1>5 DEF FleetCommit, FleetWaits
  <2>2. status[b] # "deleted"
    BY <1>1, <1>5 DEF FleetCommit, Shape, Gone
  <2>3. CASE copy[b].status = status[b]
    BY <1>1, <1>2, <2>1, <2>3
  <2>4. CASE copy[b].status = "queued" /\ status[b] = "absent"
    <3>1. Requests!Submit(b)
      BY <1>2, <2>1, <2>4 DEF Requests!Submit, Requests!Move, Offered
    <3>. QED  BY <3>1 DEF Requests!Next
  <2>5. CASE copy[b].status = "queued" /\ status[b] # "absent"
    <3>1. Requests!Requeue(b)
      BY <1>2, <2>1, <2>2, <2>5 DEF Requests!Requeue, Requests!Exists, Offered
    <3>. QED  BY <3>1 DEF Requests!Next
  <2>. QED  BY <2>1, <2>3, <2>4, <2>5
<1>6. CASE DeleteBlob(b)
  <2>1. /\ RowExists(b) /\ deleting' = deleting \cup {b}
        /\ UNCHANGED <<status, artifact, token>>
        /\ \A c \in Builds : c # b => blob'[c] = blob[c]
    BY <1>1, <1>6 DEF DeleteBlob, TypeOK, requestVars, rowVars
  <2>2. Offered' \in {Offered, Offered \ {b}}
    <3>1. CASE UNCHANGED blob
      BY <1>2, <2>1, <3>1 DEF shareVars
    <3>2. CASE blob' = [blob EXCEPT ![b] = [n \in Names |->
                          IF n = artifact[b].name THEN NoContent ELSE @[n]]]
      <4>1. artifact[b] # NoArtifact => /\ blob'[b][artifact[b].name] = NoContent
                                        /\ artifact[b].digest # NoContent
        BY <1>1, <3>2 DEF TypeOK, Shape
      <4>2. ~Downloadable(b)'
        BY <2>1, <4>1 DEF Downloadable
      <4>. QED  BY <1>1, <2>1, <4>2, OfferedFrame
    <3>. QED  BY <1>6, <3>1, <3>2 DEF DeleteBlob
  <2>3. Requests!Leave(b)
    BY <2>1, <2>2 DEF Requests!Leave, Requests!Exists, RowExists, Offered
  <2>. QED  BY <2>3 DEF Requests!Next
<1>7. CASE DeleteRow(b)
  <2>1. /\ b \in deleting /\ deleting' = deleting \ {b}
        /\ status' = [status EXCEPT ![b] = "deleted"]
        /\ ~Downloadable(b)'
        /\ \A c \in Builds : c # b => /\ artifact'[c] = artifact[c] /\ blob'[c] = blob[c]
                                      /\ c \in token' <=> c \in token
    BY <1>1, <1>7 DEF DeleteRow, TypeOK, Downloadable
  <2>2. Offered' = Offered \ {b}
    BY <1>1, <2>1, OfferedFrame
  <2>3. Requests!Delete(b)
    BY <2>1, <2>2 DEF Requests!Delete, Offered
  <2>. QED  BY <2>3 DEF Requests!Next
<1>. QED  BY <1>3, <1>4, <1>5, <1>6, <1>7 DEF FleetStep

\* A run shows its saves and its publishing, and nothing else.
LEMMA RunRefines ==
  ASSUME RefinementInv, NEW r \in Runs, RunStep(r)
  PROVE  Requests!Next \/ UNCHANGED <<status, Offered, deleting>>
<1>. DEFINE b == job[r]
<1>1. /\ Shape /\ TypeOK /\ status \in [Builds -> Status]
      /\ ImageInHand(r) /\ ImagePublished(r)
      /\ b \in Builds /\ UNCHANGED <<job, deleting>>
      /\ status' = [status EXCEPT ![b] = status'[b]]
  BY RunFrame DEF RefinementInv, Serial, Shape, TypeOK, ImageFollows, Live, InPrepare,
     InTry
<1>2. \A c \in Builds : c # b => /\ artifact'[c] = artifact[c] /\ blob'[c] = blob[c]
                                 /\ c \in token' <=> c \in token
  BY <1>1, RunReach
<1>3. ASSUME UNCHANGED shareVars PROVE UNCHANGED Offered
  BY <1>3 DEF shareVars, Offered, Downloadable
<1>4. /\ pc[r] \in {"building"} => status[b] \in {"preparing", "deleted"}
      /\ pc[r] \in {"finalizing"} => status[b] \in {"building", "deleted"}
      /\ pc[r] \in {"drop", "store", "record", "issue", "finish"} =>
           status[b] \in {"finalizing", "deleted"}
      /\ pc[r] = "fail" => status[b] \in Active \cup {"deleted"}
  BY DEF RefinementInv, StatusFollows, Late, Begun, Loaded
<1>5. CASE Start(r)
  <2>1. CASE RowExists(b)
    <3>1. /\ status' = [status EXCEPT ![b] = "preparing"]
          /\ UNCHANGED shareVars
      BY <1>5, <2>1 DEF Start, SaveStatus
    <3>2. Requests!Start(b)
      BY <1>1, <1>3, <2>1, <3>1 DEF Requests!Start, Requests!Exists, RowExists, Offered
    <3>. QED  BY <1>1, <3>2 DEF Requests!Next
  <2>2. CASE ~RowExists(b)
    BY <1>1, <1>3, <1>5, <2>2 DEF Start, SaveStatus
  <2>. QED  BY <2>1, <2>2
<1>6. CASE SaveBuilding(r) \/ SaveFinalizing(r)
  <2>1. CASE RowExists(b)
    <3>1. /\ UNCHANGED shareVars
          /\ \/ status[b] = "preparing" /\ status' = [status EXCEPT ![b] = "building"]
             \/ status[b] = "building" /\ status' = [status EXCEPT ![b] = "finalizing"]
      BY <1>4, <1>6, <2>1 DEF SaveBuilding, SaveFinalizing, SaveStatus, RowExists
    <3>2. Requests!Advance(b)
      BY <1>1, <1>3, <3>1 DEF Requests!Advance, Requests!Move, Offered
    <3>. QED  BY <1>1, <3>2 DEF Requests!Next
  <2>2. CASE ~RowExists(b)
    BY <1>1, <1>3, <1>6, <2>2 DEF SaveBuilding, SaveFinalizing, SaveStatus
  <2>. QED  BY <2>1, <2>2
<1>7. CASE Finish(r)
  <2>1. CASE RowExists(b)
    <3>1. /\ UNCHANGED shareVars
          /\ status[b] = "finalizing" /\ status' = [status EXCEPT ![b] = "succeeded"]
          /\ pc[r] = "finish"
      BY <1>4, <1>7, <2>1 DEF Finish, SaveStatus, RowExists
    <3>2. b \in deleting \/ Downloadable(b)
      BY <2>1, <3>1, <1>1 DEF ImagePublished, Gone, RowExists, Downloadable, NoArtifact,
         NoContent, Made
    <3>3. Requests!Succeed(b)
      BY <1>1, <1>3, <3>1, <3>2 DEF Requests!Succeed, Requests!Move, Offered
    <3>. QED  BY <1>1, <3>3 DEF Requests!Next
  <2>2. CASE ~RowExists(b)
    BY <1>1, <1>3, <1>7, <2>2 DEF Finish, SaveStatus
  <2>. QED  BY <2>1, <2>2
<1>8. CASE Fail(r)
  <2>1. CASE RowExists(b)
    <3>1. /\ UNCHANGED shareVars
          /\ status[b] \in Active /\ status' = [status EXCEPT ![b] = "failed"]
      BY <1>4, <1>8, <2>1 DEF Fail, SaveStatus, RowExists
    <3>2. Requests!Fail(b)
      BY <1>1, <1>3, <3>1 DEF Requests!Fail, Requests!Move, Offered, Active
    <3>. QED  BY <1>1, <3>2 DEF Requests!Next
  <2>2. CASE ~RowExists(b)
    BY <1>1, <1>3, <1>8, <2>2 DEF Fail, SaveStatus
  <2>. QED  BY <2>1, <2>2
<1>9. CASE DropPrevious(r)
  <2>1. UNCHANGED status /\ artifact'[b] = NoArtifact /\ pc[r] = "drop"
    BY <1>1, <1>9 DEF DropPrevious, TypeOK, requestVars, rowVars
  <2>2. Offered' = Offered \ {b}
    BY <1>1, <1>2, <2>1, OfferedFrame DEF Downloadable
  <2>3. CASE status[b] = "finalizing"
    <3>1. Requests!Withdraw(b)
      BY <1>1, <2>1, <2>2, <2>3 DEF Requests!Withdraw, Offered
    <3>. QED  BY <1>1, <3>1 DEF Requests!Next
  <2>4. CASE status[b] = "deleted"
    <3>1. artifact[b] = NoArtifact
      BY <1>1, <2>4 DEF Shape, RowExists
    <3>. QED  BY <1>1, <2>1, <2>2, <3>1 DEF Offered, Downloadable
  <2>. QED  BY <1>4, <2>1, <2>3, <2>4
<1>10. CASE StoreBlob(r)
  <2>1. /\ UNCHANGED <<status, artifact, token>>
        /\ artifact[b] = NoArtifact
    BY <1>1, <1>10 DEF StoreBlob, ImageInHand, requestVars, rowVars
  <2>2. Downloadable(b)' <=> Downloadable(b)
    BY <2>1, <1>1 DEF Downloadable
  <2>. QED  BY <1>1, <1>2, <2>1, <2>2, OfferedFrame
<1>11. CASE RecordArtifact(r) \/ IssueToken(r)
  <2>1. UNCHANGED status /\ pc[r] \in {"record", "issue"}
    BY <1>11 DEF RecordArtifact, IssueToken, requestVars, rowVars
  <2>2. status[b] = "finalizing" \/ Downloadable(b)' = FALSE
    <3>1. CASE RecordArtifact(r)
      BY <1>4, <3>1 DEF RecordArtifact, RowExists
    <3>2. CASE IssueToken(r)
      <4>1. artifact[b] # NoArtifact
        BY <3>2, NoneAssumption DEF IssueToken, NoArtifact
      <4>. QED  BY <1>1, <1>4, <2>1, <4>1 DEF Shape, RowExists
    <3>. QED  BY <1>11, <3>1, <3>2
  <2>3. \/ Offered' = Offered
        \/ Offered' = Offered \cup {b} /\ Downloadable(b)'
        \/ ~Downloadable(b)' /\ Downloadable(b)
    BY <1>1, <1>2, OfferedFrame
  <2>4. ~(~Downloadable(b)' /\ Downloadable(b))
    <3>1. CASE RecordArtifact(r)
      BY <3>1 DEF RecordArtifact, Downloadable
    <3>2. CASE IssueToken(r)
      BY <1>1, <3>2 DEF IssueToken, Downloadable, shareVars
    <3>. QED  BY <1>11, <3>1, <3>2
  <2>5. CASE Offered' = Offered \cup {b} /\ status[b] = "finalizing"
    <3>1. Requests!Offer(b)
      BY <1>1, <2>1, <2>5 DEF Requests!Offer, Offered
    <3>. QED  BY <1>1, <3>1 DEF Requests!Next
  <2>. QED  BY <1>1, <2>1, <2>2, <2>3, <2>4, <2>5
<1>12. CASE \/ Load(r) \/ MakeWorkDir(r) \/ FetchBase(r) \/ WritePillar(r)
            \/ Provision(r) \/ Pack(r) \/ HashPacked(r)
            \/ RaiseInPrepare(r) \/ RaiseInTry(r) \/ Sweep(r) \/ Ack(r)
  <2>1. UNCHANGED <<status, shareVars>>
    BY <1>12 DEF Load, MakeWorkDir, FetchBase, WritePillar, Provision, Pack, HashPacked,
       RaiseInPrepare, RaiseInTry, Sweep, Ack, requestVars, rowVars
  <2>. QED  BY <1>1, <1>3, <2>1
<1>. QED  BY <1>5, <1>6, <1>7, <1>8, <1>9, <1>10, <1>11, <1>12 DEF RunStep

LEMMA RefinementStep ==
  ASSUME RefinementInv, [Next]_vars
  PROVE  Requests!Next \/ UNCHANGED <<status, Offered, deleting>>
<1>1. TypeOK
  BY DEF RefinementInv, Serial, Shape
<1>2. ASSUME UNCHANGED <<status, shareVars, deleting>>
      PROVE  UNCHANGED <<status, Offered, deleting>>
  BY <1>2 DEF shareVars, Offered, Downloadable
<1>3. ASSUME NEW r \in Runs, NEW b \in Builds, Deliver(r, b)
      PROVE  UNCHANGED <<status, shareVars, deleting>>
  BY <1>3 DEF Deliver, requestVars, rowVars
<1>4. ASSUME NEW r \in Runs, Crash(r) PROVE UNCHANGED <<status, shareVars, deleting>>
  BY <1>1, <1>4, CrashFrame DEF requestVars, rowVars
<1>5. CASE UNCHANGED vars
  BY <1>2, <1>5 DEF vars, requestVars, rowVars
<1>6. CASE Next
  BY <1>2, <1>3, <1>4, <1>6, EnvironmentRefines, RunRefines DEF Next
<1>. QED  BY <1>5, <1>6

\* As long as the fleet command leaves busy builds alone, and the store overwrites
\* objects, the whole machinery of messages, runs, files, rows and deletions shows
\* the user the plain life of a build (BuildLifecycle!ImplementsRequests).
THEOREM Implementation ==
  ASSUME ~FleetWhileBusy, Overwrites PROVE Spec => ImplementsRequests
<1>1. Init => RefinementInv /\ Requests!Init
  <2>. SUFFICES ASSUME Init PROVE RefinementInv /\ Requests!Init
    OBVIOUS
  <2>1. Serial /\ StatusFollows
    BY SerialInvInit
  <2>2. ImageFollows
    BY DEF Init, ImageFollows, ImageInHand, ImagePublished, Late
  <2>. QED  BY <2>1, <2>2, RefinementInit DEF RefinementInv
<1>2. RefinementInv /\ [Next]_vars => RefinementInv'
  BY SerialStep, StatusFollowsStep, ImageStep DEF RefinementInv
<1>3. RefinementInv /\ [Next]_vars => [Requests!Next]_(Requests!vars)
  BY RefinementStep DEF Requests!vars, Offered
<1>. QED  BY <1>1, <1>2, <1>3, PTL DEF Spec, ImplementsRequests, Requests!Spec
=============================================================================
