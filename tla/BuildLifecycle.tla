--------------------------- MODULE BuildLifecycle ---------------------------
(***************************************************************************)
(* The life of a BuildRequest: it is submitted, a Celery message is sent,  *)
(* a worker bakes the image and publishes it, and users or operators       *)
(* requeue and delete builds meanwhile.                                    *)
(*                                                                         *)
(*   builds/signals.py, builds/tasks.py    dispatch and the task body      *)
(*   builds/orchestrator.py                bake and its phases             *)
(*   osbakery/views.py                     delete_baked_image              *)
(*   .../commands/bake_gedu_fleet.py       the fleet command               *)
(*                                                                         *)
(* A run is one delivery of a build's message to a worker process; pc says *)
(* which statement it executes next.  Every database write is one step,    *)
(* because the project runs in autocommit; the fleet command is the        *)
(* exception (@transaction.atomic).  Images and blobs are abstracted to    *)
(* the run that made them and whether they have been provisioned, the key  *)
(* and the option values of a build to one of Names (they change           *)
(* together, when the fleet command rewrites the row).                     *)
(*                                                                         *)
(* Left out: the ImportError branch of run_build (the orchestrator module  *)
(* is part of the tree), timestamps, failure texts, raw ISO artifacts, and *)
(* a database that goes down.  The operator is assumed not to delete a     *)
(* build in the instant the fleet command rewrites the same row.           *)
(***************************************************************************)
EXTENDS Naturals, FiniteSets

CONSTANTS
  Builds,          \* BuildRequest primary keys
  Runs,            \* deliveries of a message to a worker (bounds deliveries)
  Names,           \* configurations of a row, hence artifact basenames
  None,
  Overwrites,      \* storages["artifacts"]: TRUE for S3, FALSE for local files
  FleetWhileBusy,  \* the fleet command may touch a build that is being baked
  MaxFleetOps,     \* bound: rows the fleet command creates or rewrites
  MaxCrashes       \* bound: runs lost to a crash

ASSUME NoneAssumption == None \notin Runs \cup Names \cup Builds
ASSUME FlagAssumption == Overwrites \in BOOLEAN /\ FleetWhileBusy \in BOOLEAN
ASSUME BoundAssumption == MaxFleetOps \in Nat /\ MaxCrashes \in Nat

VARIABLES
  status,    \* BuildRequest.status as committed, per row
  task,      \* rows whose celery_task_id is set
  conf,      \* what a row asks for: its labels, targets and option values
  model,     \* the run whose effective_model is saved in the row
  phase,     \* how far the fleet command's open transaction is with a row
  copy,      \* the row as that transaction holds it
  fleetOps,  \* rows the fleet command has touched so far
  ready,     \* messages waiting in the broker, per build
  pc,        \* the next statement of each run
  job,       \* the build each run bakes
  cfg,       \* the configuration the run read when it loaded the row
  digest,    \* the content _sha256 was computed over
  unswept,   \* runs that made the work dir and did not reach the finally clause
  dir,       \* builds whose directory under BUILD_WORK_ROOT exists
  target,    \* <build>.img in the work dir
  packed,    \* <build>.img.zst in the work dir
  blob,      \* objects of the artifact store, per build and basename
  artifact,  \* the Artifact row of each build
  token,     \* builds whose artifact has a DownloadToken
  deleting   \* builds whose delete request is past the blob removal

rowVars   == <<status, task, conf, model>>
fleetVars == <<phase, copy, fleetOps>>
localVars == <<job, cfg, digest, unswept>>
runVars   == <<pc, localVars>>
diskVars  == <<dir, target, packed>>
shareVars == <<blob, artifact, token>>
requestVars == <<rowVars, fleetVars>>
vars == <<requestVars, ready, runVars, diskVars, shareVars, deleting>>

-----------------------------------------------------------------------------
(* Types *)

Status == {"absent", "queued", "preparing", "building", "finalizing",
           "succeeded", "failed", "deleted"}
Active == {"preparing", "building", "finalizing"}

Row == [status: Status, task: BOOLEAN, conf: Names \cup {None},
        model: Runs \cup {None}]
NoRow == [status |-> "absent", task |-> FALSE, conf |-> None, model |-> None]

Content == [by: Runs, stage: {"base", "provisioned"}]
NoContent == [by |-> None, stage |-> "none"]

Artifact == [by: Runs, name: Names \cup {None}, digest: Content \cup {NoContent}]
NoArtifact == [by |-> None, name |-> None, digest |-> NoContent]

InPrepare == {"mkdir", "fetch"}
InTry == {"pillar", "building", "provision", "finalizing", "pack", "digest",
          "drop", "store", "record", "issue", "sweep"}
Live == {"load", "start", "sweepfail", "finish", "fail", "ack"}
          \cup InPrepare \cup InTry
Over == {"done", "killed", "crashed"}
Labels == {"unused"} \cup Live \cup Over

TypeOK ==
  /\ status \in [Builds -> Status]
  /\ task \subseteq Builds
  /\ conf \in [Builds -> Names \cup {None}]
  /\ model \in [Builds -> Runs \cup {None}]
  /\ phase \in [Builds -> {"idle", "read", "staged"}]
  /\ copy \in [Builds -> Row]
  /\ fleetOps \in Nat
  /\ ready \in [Builds -> Nat]
  /\ pc \in [Runs -> Labels]
  /\ job \in [Runs -> Builds \cup {None}]
  /\ \A r \in Runs : pc[r] # "unused" => job[r] \in Builds
  /\ cfg \in [Runs -> Names \cup {None}]
  /\ digest \in [Runs -> Content \cup {NoContent}]
  /\ unswept \subseteq Runs
  /\ dir \subseteq Builds
  /\ target \in [Builds -> Content \cup {NoContent}]
  /\ packed \in [Builds -> Content \cup {NoContent}]
  /\ blob \in [Builds -> [Names -> Content \cup {NoContent}]]
  /\ artifact \in [Builds -> Artifact \cup {NoArtifact}]
  /\ token \subseteq Builds
  /\ deleting \subseteq Builds

RunsOf(b) == {r \in Runs : job[r] = b}
LiveRuns(b) == {r \in RunsOf(b) : pc[r] \in Live}
Crashed == {r \in Runs : pc[r] \in {"killed", "crashed"}}

RowExists(b) == status[b] \notin {"absent", "deleted"}

\* The fleet command holds the row's lock from its UPDATE to its commit.
Locked(b) == phase[b] = "staged"

\* A primary key that was never used.
Fresh(b) == /\ status[b] = "absent" /\ phase[b] = "idle"
            /\ ready[b] = 0 /\ RunsOf(b) = {}

\* Nothing is baking b and nothing is about to.
Quiescent(b) == ready[b] = 0 /\ LiveRuns(b) = {}

Goto(r, label) == pc' = [pc EXCEPT ![r] = label]

-----------------------------------------------------------------------------
(* Submitting a build, and the fleet command *)

Init ==
  /\ status = [b \in Builds |-> "absent"]
  /\ task = {}
  /\ conf = [b \in Builds |-> None]
  /\ model = [b \in Builds |-> None]
  /\ phase = [b \in Builds |-> "idle"]
  /\ copy = [b \in Builds |-> NoRow]
  /\ fleetOps = 0
  /\ ready = [b \in Builds |-> 0]
  /\ pc = [r \in Runs |-> "unused"]
  /\ job = [r \in Runs |-> None]
  /\ cfg = [r \in Runs |-> None]
  /\ digest = [r \in Runs |-> NoContent]
  /\ unswept = {}
  /\ dir = {}
  /\ target = [b \in Builds |-> NoContent]
  /\ packed = [b \in Builds |-> NoContent]
  /\ blob = [b \in Builds |-> [n \in Names |-> NoContent]]
  /\ artifact = [b \in Builds |-> NoArtifact]
  /\ token = {}
  /\ deleting = {}

\* apply_async: sent is FALSE when the broker cannot be reached, which the
\* callers swallow.
Dispatch(b, sent) == ready' = [ready EXCEPT ![b] = IF sent THEN @ + 1 ELSE @]

\* A form or the REST API creates the row (visible at once), and the post_save
\* signal dispatches it.
Submit(b) ==
  /\ Fresh(b)
  /\ \E n \in Names : conf' = [conf EXCEPT ![b] = n]
  /\ status' = [status EXCEPT ![b] = "queued"]
  /\ \E sent \in BOOLEAN : /\ task' = IF sent THEN task \cup {b} ELSE task
                           /\ Dispatch(b, sent)
  /\ UNCHANGED <<model, fleetVars, runVars, diskVars, shareVars, deleting>>

\* The fleet command creates a row: the signal fires inside its transaction.
FleetCreate(b) ==
  /\ Fresh(b)
  /\ fleetOps < MaxFleetOps
  /\ \E n \in Names, sent \in BOOLEAN :
       /\ copy' = [copy EXCEPT ![b] = [status |-> "queued", task |-> sent,
                                       conf |-> n, model |-> None]]
       /\ Dispatch(b, sent)
  /\ phase' = [phase EXCEPT ![b] = "staged"]
  /\ fleetOps' = fleetOps + 1
  /\ UNCHANGED <<rowVars, runVars, diskVars, shareVars, deleting>>

\* The fleet command finds the existing row by its label ...
FleetRead(b) ==
  /\ RowExists(b)
  /\ b \notin deleting
  /\ phase[b] = "idle"
  /\ fleetOps < MaxFleetOps
  /\ FleetWhileBusy \/ Quiescent(b)
  /\ copy' = [copy EXCEPT ![b] = [status |-> status[b], task |-> b \in task,
                                  conf |-> conf[b], model |-> model[b]]]
  /\ phase' = [phase EXCEPT ![b] = "read"]
  /\ fleetOps' = fleetOps + 1
  /\ UNCHANGED <<rowVars, ready, runVars, diskVars, shareVars, deleting>>

\* ... and saves every column of the copy it read.  With --requeue it resets
\* the status and dispatches, before the transaction commits.
FleetSave(b) ==
  /\ phase[b] = "read"
  /\ \E n \in Names, requeue \in BOOLEAN, sent \in BOOLEAN :
       /\ sent => requeue
       /\ copy' = [copy EXCEPT ![b] =
            [status |-> IF requeue THEN "queued" ELSE copy[b].status,
             task |-> sent \/ copy[b].task, conf |-> n, model |-> copy[b].model]]
       /\ Dispatch(b, sent)
  /\ phase' = [phase EXCEPT ![b] = "staged"]
  /\ UNCHANGED <<rowVars, fleetOps, runVars, diskVars, shareVars, deleting>>

FleetCommit(b) ==
  /\ phase[b] = "staged"
  /\ status' = [status EXCEPT ![b] = copy[b].status]
  /\ task' = IF copy[b].task THEN task \cup {b} ELSE task \ {b}
  /\ conf' = [conf EXCEPT ![b] = copy[b].conf]
  /\ model' = [model EXCEPT ![b] = copy[b].model]
  /\ copy' = [copy EXCEPT ![b] = NoRow]
  /\ phase' = [phase EXCEPT ![b] = "idle"]
  /\ UNCHANGED <<fleetOps, ready, runVars, diskVars, shareVars, deleting>>

\* The command fails on a later row, or dies: everything it wrote rolls back,
\* the messages it sent stay sent.
FleetRollback(b) ==
  /\ phase[b] # "idle"
  /\ copy' = [copy EXCEPT ![b] = NoRow]
  /\ phase' = [phase EXCEPT ![b] = "idle"]
  /\ UNCHANGED <<rowVars, fleetOps, ready, runVars, diskVars, shareVars, deleting>>

-----------------------------------------------------------------------------
(* run_build, up to the call of bake *)

\* Mutant: a message is taken that is not there.
DeliverUnsent(r, b) ==
  /\ pc[r] = "unused"
  /\ ready[b] <= 1
  /\ ready' = [ready EXCEPT ![b] = @ - 1]
  /\ job' = [job EXCEPT ![r] = b]
  /\ Goto(r, "load")
  /\ UNCHANGED <<requestVars, cfg, digest, unswept, diskVars, shareVars, deleting>>

\* Mutant: the visibility timeout is shorter than a bake, so that a message
\* in hand is delivered once more.
DeliverTwice(r, b) ==
  /\ pc[r] = "unused"
  /\ ready[b] > 0
  /\ ready' \in {ready, [ready EXCEPT ![b] = @ - 1]}
  /\ job' = [job EXCEPT ![r] = b]
  /\ Goto(r, "load")
  /\ UNCHANGED <<requestVars, cfg, digest, unswept, diskVars, shareVars, deleting>>

Deliver(r, b) ==
  /\ pc[r] = "unused"
  /\ ready[b] > 0
  /\ ready' = [ready EXCEPT ![b] = @ - 1]
  /\ job' = [job EXCEPT ![r] = b]
  /\ Goto(r, "load")
  /\ UNCHANGED <<requestVars, cfg, digest, unswept, diskVars, shareVars, deleting>>

\* BuildRequest.objects.get: a row that is not there (yet) fails the task.
Load(r) ==
  LET b == job[r] IN
  /\ pc[r] = "load"
  /\ IF RowExists(b)
       THEN /\ cfg' = [cfg EXCEPT ![r] = conf[b]]
            /\ Goto(r, "start")
       ELSE /\ Goto(r, "ack")
            /\ UNCHANGED cfg
  /\ UNCHANGED <<requestVars, ready, job, digest, unswept, diskVars, shareVars,
                 deleting>>

\* save(update_fields=[...]): writes the status of an existing row and raises
\* when the row is gone.
SaveStatus(r, from, new, next, orElse) ==
  LET b == job[r] IN
  /\ pc[r] = from
  /\ ~Locked(b)
  /\ IF RowExists(b)
       THEN /\ status' = [status EXCEPT ![b] = new]
            /\ Goto(r, next)
       ELSE /\ Goto(r, orElse)
            /\ UNCHANGED status
  /\ UNCHANGED <<task, conf, model, fleetVars, ready, localVars, diskVars, shareVars,
                 deleting>>

Start(r) == SaveStatus(r, "start", "preparing", "mkdir", "ack")

-----------------------------------------------------------------------------
(* bake *)

\* _prepare_workspace: the work dir is named after the build, not the run.
MakeWorkDir(r) ==
  LET b == job[r] IN
  /\ pc[r] = "mkdir"
  /\ RowExists(b)
  /\ dir' = dir \cup {b}
  /\ unswept' = unswept \cup {r}
  /\ Goto(r, "fetch")
  /\ UNCHANGED <<requestVars, ready, job, cfg, digest, target, packed, shareVars,
                 deleting>>

FetchBase(r) ==
  LET b == job[r] IN
  /\ pc[r] = "fetch"
  /\ b \in dir
  /\ target' = [target EXCEPT ![b] = [by |-> r, stage |-> "base"]]
  /\ Goto(r, "pillar")
  /\ UNCHANGED <<requestVars, ready, localVars, dir, packed, shareVars, deleting>>

\* _write_pillar saves the effective model; the files follow with the status.
WritePillar(r) ==
  LET b == job[r] IN
  /\ pc[r] = "pillar"
  /\ RowExists(b)
  /\ ~Locked(b)
  /\ model' = [model EXCEPT ![b] = r]
  /\ Goto(r, "building")
  /\ UNCHANGED <<status, task, conf, fleetVars, ready, localVars, diskVars, shareVars,
                 deleting>>

SaveBuilding(r) ==
  /\ job[r] \in dir
  /\ SaveStatus(r, "building", "building", "provision", "sweepfail")

\* A provisioner works on whatever image is in the work dir.
Provision(r) ==
  LET b == job[r] IN
  /\ pc[r] = "provision"
  /\ RowExists(b)
  /\ target[b] # NoContent
  /\ target' = [target EXCEPT ![b] = [by |-> r, stage |-> "provisioned"]]
  /\ Goto(r, "finalizing")
  /\ UNCHANGED <<requestVars, ready, localVars, dir, packed, shareVars, deleting>>

\* Mutant: the status is not saved.
SkipFinalizing(r) ==
  /\ pc[r] = "finalizing"
  /\ Goto(r, "pack")
  /\ UNCHANGED <<requestVars, ready, localVars, diskVars, shareVars, deleting>>

SaveFinalizing(r) == SaveStatus(r, "finalizing", "finalizing", "pack", "sweepfail")

\* zstd -f --rm
Pack(r) ==
  LET b == job[r] IN
  /\ pc[r] = "pack"
  /\ RowExists(b)
  /\ target[b] # NoContent
  /\ packed' = [packed EXCEPT ![b] = target[b]]
  /\ target' = [target EXCEPT ![b] = NoContent]
  /\ Goto(r, "digest")
  /\ UNCHANGED <<requestVars, ready, localVars, dir, shareVars, deleting>>

-----------------------------------------------------------------------------
(* _publish *)

HashPacked(r) ==
  LET b == job[r] IN
  /\ pc[r] = "digest"
  /\ packed[b] # NoContent
  /\ digest' = [digest EXCEPT ![r] = packed[b]]
  /\ Goto(r, "drop")
  /\ UNCHANGED <<requestVars, ready, job, cfg, unswept, diskVars, shareVars, deleting>>

\* Mutant: a build that was baked before is not uploaded again.
DropWithoutStore(r) ==
  LET b == job[r] IN
  /\ pc[r] = "drop"
  /\ artifact' = [artifact EXCEPT ![b] = NoArtifact]
  /\ token' = token \ {b}
  /\ Goto(r, "record")
  /\ UNCHANGED <<requestVars, ready, localVars, diskVars, blob, deleting>>

\* The previous Artifact goes, and its tokens with it; its object stays.
DropPrevious(r) ==
  LET b == job[r] IN
  /\ pc[r] = "drop"
  /\ artifact' = [artifact EXCEPT ![b] = NoArtifact]
  /\ token' = token \ {b}
  /\ Goto(r, "store")
  /\ UNCHANGED <<requestVars, ready, localVars, diskVars, blob, deleting>>

\* storage.save: S3 overwrites the key; the file system keeps the old file and
\* stores the new one under another name, which _publish does not look at.
StoreBlob(r) ==
  LET b == job[r] IN
  /\ pc[r] = "store"
  /\ packed[b] # NoContent
  /\ blob' = IF Overwrites \/ blob[b][cfg[r]] = NoContent
               THEN [blob EXCEPT ![b][cfg[r]] = packed[b]]
               ELSE blob
  /\ Goto(r, "record")
  /\ UNCHANGED <<requestVars, ready, localVars, diskVars, artifact, token, deleting>>

\* Artifact is OneToOne to BuildRequest: a second row is refused.
RecordArtifact(r) ==
  LET b == job[r] IN
  /\ pc[r] = "record"
  /\ RowExists(b)
  /\ artifact[b] = NoArtifact
  /\ artifact' = [artifact EXCEPT ![b] =
                    [by |-> r, name |-> cfg[r], digest |-> digest[r]]]
  /\ Goto(r, "issue")
  /\ UNCHANGED <<requestVars, ready, localVars, diskVars, blob, token, deleting>>

IssueToken(r) ==
  LET b == job[r] IN
  /\ pc[r] = "issue"
  /\ artifact[b].by = r
  /\ token' = token \cup {b}
  /\ Goto(r, "sweep")
  /\ UNCHANGED <<requestVars, ready, localVars, diskVars, blob, artifact, deleting>>

-----------------------------------------------------------------------------
(* Failures, the finally clause, and the end of the task *)

\* A tool fails, a file or a row is missing, the disk is full.
RaiseInPrepare(r) ==
  /\ pc[r] \in InPrepare
  /\ Goto(r, "fail")
  /\ UNCHANGED <<requestVars, ready, localVars, diskVars, shareVars, deleting>>

\* Mutant: bake swallows the exception.
SwallowInTry(r) ==
  /\ pc[r] \in InTry
  /\ Goto(r, "sweep")
  /\ UNCHANGED <<requestVars, ready, localVars, diskVars, shareVars, deleting>>

RaiseInTry(r) ==
  /\ pc[r] \in InTry
  /\ Goto(r, "sweepfail")
  /\ UNCHANGED <<requestVars, ready, localVars, diskVars, shareVars, deleting>>

\* Mutant: the work dir is removed after a success only.
SweepOnSuccess(r) ==
  LET b == job[r] IN
  /\ pc[r] \in {"sweep", "sweepfail"}
  /\ IF pc[r] = "sweep"
       THEN /\ dir' = dir \ {b}
            /\ target' = [target EXCEPT ![b] = NoContent]
            /\ packed' = [packed EXCEPT ![b] = NoContent]
       ELSE UNCHANGED diskVars
  /\ unswept' = unswept \ {r}
  /\ Goto(r, IF pc[r] = "sweep" THEN "finish" ELSE "fail")
  /\ UNCHANGED <<requestVars, ready, job, cfg, digest, shareVars, deleting>>

Sweep(r) ==
  LET b == job[r] IN
  /\ pc[r] \in {"sweep", "sweepfail"}
  /\ dir' = dir \ {b}
  /\ target' = [target EXCEPT ![b] = NoContent]
  /\ packed' = [packed EXCEPT ![b] = NoContent]
  /\ unswept' = unswept \ {r}
  /\ Goto(r, IF pc[r] = "sweep" THEN "finish" ELSE "fail")
  /\ UNCHANGED <<requestVars, ready, job, cfg, digest, shareVars, deleting>>

Finish(r) == SaveStatus(r, "finish", "succeeded", "ack", "ack")

Fail(r) == SaveStatus(r, "fail", "failed", "ack", "ack")

\* acks_late: the message leaves the broker when the task has returned or
\* raised.
Ack(r) ==
  /\ pc[r] = "ack"
  /\ Goto(r, "done")
  /\ UNCHANGED <<requestVars, ready, localVars, diskVars, shareVars, deleting>>

\* A pool process is killed (out of memory): Celery acknowledges the message,
\* task_reject_on_worker_lost being off.
KillRun(r) ==
  /\ pc[r] \in Live
  /\ Cardinality(Crashed) < MaxCrashes
  /\ Goto(r, "killed")
  /\ UNCHANGED <<requestVars, ready, localVars, diskVars, shareVars, deleting>>

\* Mutant: acks_late is off, the message is gone when the worker dies.
LoseMessage(r) ==
  /\ pc[r] \in Live
  /\ Cardinality(Crashed) < MaxCrashes
  /\ Goto(r, "crashed")
  /\ UNCHANGED <<requestVars, ready, localVars, diskVars, shareVars, deleting>>

\* The whole worker dies: the unacknowledged message is delivered again once
\* the visibility timeout has passed.
LoseWorker(r) ==
  LET b == job[r] IN
  /\ pc[r] \in Live
  /\ Cardinality(Crashed) < MaxCrashes
  /\ Goto(r, "crashed")
  /\ ready' = [ready EXCEPT ![b] = @ + 1]
  /\ UNCHANGED <<requestVars, localVars, diskVars, shareVars, deleting>>

-----------------------------------------------------------------------------
(* delete_baked_image *)

\* The object goes first; a storage error is reported and ignored.
DeleteBlob(b) ==
  /\ RowExists(b)
  /\ b \notin deleting
  /\ phase[b] = "idle"
  /\ \/ blob' = [blob EXCEPT ![b] = [n \in Names |->
                   IF n = artifact[b].name THEN NoContent ELSE @[n]]]
     \/ UNCHANGED blob
  /\ deleting' = deleting \cup {b}
  /\ UNCHANGED <<requestVars, ready, runVars, diskVars, artifact, token>>

\* build.delete() cascades to the artifact and its tokens.
DeleteRow(b) ==
  /\ b \in deleting
  /\ status' = [status EXCEPT ![b] = "deleted"]
  /\ artifact' = [artifact EXCEPT ![b] = NoArtifact]
  /\ token' = token \ {b}
  /\ deleting' = deleting \ {b}
  /\ UNCHANGED <<task, conf, model, fleetVars, ready, runVars, diskVars, blob>>

-----------------------------------------------------------------------------

RunStep(r) ==
  \/ Load(r) \/ Start(r)
  \/ MakeWorkDir(r) \/ FetchBase(r) \/ WritePillar(r) \/ SaveBuilding(r)
  \/ Provision(r) \/ SaveFinalizing(r) \/ Pack(r)
  \/ HashPacked(r) \/ DropPrevious(r) \/ StoreBlob(r) \/ RecordArtifact(r)
  \/ IssueToken(r)
  \/ RaiseInPrepare(r) \/ RaiseInTry(r) \/ Sweep(r)
  \/ Finish(r) \/ Fail(r) \/ Ack(r)

Crash(r) == KillRun(r) \/ LoseWorker(r)

FleetStep(b) ==
  \/ FleetCreate(b) \/ FleetRead(b) \/ FleetSave(b)
  \/ FleetCommit(b) \/ FleetRollback(b)

Next ==
  \/ \E b \in Builds : Submit(b) \/ FleetStep(b) \/ DeleteBlob(b) \/ DeleteRow(b)
  \/ \E r \in Runs, b \in Builds : Deliver(r, b)
  \/ \E r \in Runs : RunStep(r) \/ Crash(r)

Spec == Init /\ [][Next]_vars

\* Workers keep consuming and their runs keep going; a transaction that was
\* opened ends.  Nobody is obliged to submit, requeue, delete or crash.
Fairness ==
  /\ \A b \in Builds : WF_vars(FleetSave(b) \/ FleetCommit(b) \/ FleetRollback(b))
  /\ \A b \in Builds : WF_vars(\E r \in Runs : Deliver(r, b))
  /\ \A r \in Runs : WF_vars(RunStep(r))

FairSpec == Spec /\ Fairness

-----------------------------------------------------------------------------
(* Properties.  Busy says that the fleet command may rewrite builds that   *)
(* are being baked (FleetWhileBusy); what does not hold then is marked.    *)

\* The image of b can be fetched and is the one its checksum was taken of.
Downloadable(b) ==
  /\ artifact[b] # NoArtifact
  /\ b \in token
  /\ blob[b][artifact[b].name] = artifact[b].digest

\* A work dir exists only while some run of the build still owes its removal:
\* it made the directory and has not come to bake's finally clause.
WorkDirAccounted ==
  \A b \in dir : \E r \in RunsOf(b) : r \in unswept

\* An Artifact row never points at an object that is not in the store, in
\* whatever order runs and deletions interleave in _publish and
\* delete_baked_image, unless the build is being deleted.
ArtifactHasBlob ==
  \A b \in Builds :
    artifact[b] # NoArtifact =>
      b \in deleting \/ blob[b][artifact[b].name] # NoContent

\* Not Busy: late acknowledgement, redelivery and requeues together never put
\* two runs of one build to work, or one to work with a message waiting.
\* (They share a work dir, a row and an artifact without any lock.)
OneBakePerBuild ==
  \A b \in Builds :
    /\ ready[b] <= 1
    /\ ready[b] = 1 => LiveRuns(b) = {}
    /\ \A r, s \in LiveRuns(b) : r = s

\* Not Busy, objects overwritten: a build listed as succeeded offers an image
\* that was provisioned, matches its checksum, and was made from the
\* effective model the row shows.
SucceededIsDelivered ==
  \A b \in Builds :
    status[b] = "succeeded" /\ b \notin deleting =>
      /\ Downloadable(b)
      /\ artifact[b].digest.stage = "provisioned"
      /\ model[b] = artifact[b].digest.by

\* Not Busy: a row that says a bake is going on has a run at work or a message
\* that will bring one, unless a pool process was killed.
ActiveRowHasRun ==
  \A b \in Builds :
    status[b] \in Active =>
      ready[b] > 0 \/ (\E r \in RunsOf(b) : pc[r] \in Live \cup {"killed"})

\* Not Busy: every bake that has begun comes to an end, the row says so, even
\* if workers die, unless a pool process was killed.
ActiveSettles ==
  \A b \in Builds :
    status[b] \in Active ~>
      \/ status[b] \notin Active
      \/ \E r \in RunsOf(b) : pc[r] = "killed"

\* An Artifact row's checksum is that of the object stored for it.  Fails where
\* the store does not overwrite (local files): a build baked again under the
\* same name keeps serving the old object with the new checksum.
ChecksumMatches ==
  \A b \in Builds :
    artifact[b] # NoArtifact =>
      \/ b \in deleting
      \/ blob[b][artifact[b].name] \in {NoContent, artifact[b].digest}

\* A queued build that was given a task is waiting for a worker or in a
\* worker's hands.  Fails for the fleet command, which sends the message
\* before its transaction commits: the worker finds no row and gives up.
QueuedHasTask ==
  \A b \in Builds :
    status[b] = "queued" /\ b \in task => ~Quiescent(b)

\* The image of a build that is listed as succeeded was provisioned.  Fails
\* Busy: the run of a requeue copies a fresh base image over the one that the
\* first run is about to pack.
GreenIsProvisioned ==
  \A b \in Builds :
    status[b] = "succeeded" /\ artifact[b] # NoArtifact =>
      artifact[b].digest.stage = "provisioned"

\* Not Busy, objects overwritten: what the page of a build shows.
Requests == INSTANCE BuildRequests WITH
  offered <- {b \in Builds : Downloadable(b)},
  leaving <- deleting
ImplementsRequests == Requests!Spec

=============================================================================
