------------------------- MODULE BuildLifecycleInv -------------------------
(***************************************************************************)
(* The inductive invariants behind the safety properties of BuildLifecycle *)
(* (proofs in BuildLifecycle_proofs).                                      *)
(*                                                                         *)
(*   Shape, WorkDirAccounted, PublishOrder    hold in every configuration  *)
(*   OneBakePerBuild, FleetWaits, ...         as long as the fleet command *)
(*                                            leaves busy builds alone     *)
(***************************************************************************)
EXTENDS BuildLifecycle

Gone(b) == b \in deleting \/ status[b] = "deleted"

\* Runs that have read their row, until their last save.
Loaded == {"start", "sweepfail", "finish", "fail"} \cup InPrepare \cup InTry
\* Runs whose first save has been made.
Begun == Loaded \ {"start"}

\* A row that exists has a configuration, in the table and in the fleet
\* command's copy; a run bakes the one it has read; deleting and rewriting a
\* row exclude each other.
Shape ==
  /\ TypeOK
  /\ \A b \in Builds :
       /\ RowExists(b) => conf[b] \in Names
       /\ phase[b] # "idle" => /\ copy[b].conf \in Names
                               /\ copy[b].status \notin {"absent", "deleted"}
       /\ b \in deleting => RowExists(b)
       /\ Gone(b) => phase[b] = "idle"
       /\ artifact[b] # NoArtifact => /\ RowExists(b)
                                      /\ artifact[b].name \in Names
                                      /\ artifact[b].digest # NoContent
  /\ \A r \in Runs : pc[r] \in Loaded => cfg[r] \in Names
  /\ \A r \in Runs : pc[r] \in {"drop", "store", "record"} => digest[r] # NoContent
  /\ \A r \in unswept : pc[r] # "unused"

\* The object is in the store before the Artifact row says so.
PublishOrder ==
  \A r \in Runs :
    pc[r] = "record" => Gone(job[r]) \/ blob[job[r]][cfg[r]] # NoContent

SharedInv == Shape /\ WorkDirAccounted /\ PublishOrder /\ ArtifactHasBlob

\* OneBakePerBuild, run by run.
Alone(b) ==
  /\ ready[b] \in {0, 1}
  /\ \A r \in Runs : job[r] = b /\ pc[r] \in Live =>
       /\ ready[b] = 0
       /\ \A s \in Runs : job[s] = b /\ pc[s] \in Live => s = r
AllAlone == \A b \in Builds : Alone(b)

\* Quiescent, run by run.
Idle(b) == ready[b] = 0 /\ \A r \in Runs : job[r] = b => pc[r] \notin Live

\* A row the fleet command has read is not baked; the copy it will write back
\* differs from the row only if it queues the build, and a run that begins
\* waits for the commit.
FleetWaits ==
  /\ \A b \in Builds :
       /\ phase[b] = "read" => Idle(b)
       /\ phase[b] # "idle" =>
            \/ copy[b].status = "queued"
            \/ copy[b].status = status[b] /\ copy[b].model = model[b]
  /\ \A r \in Runs : pc[r] \in Begun => phase[job[r]] = "idle"

Serial == Shape /\ AllAlone /\ FleetWaits

\* The statements after the last save before publishing.
Late == {"pack", "digest", "drop", "store", "record", "issue", "sweep", "finish"}

\* The status of a build follows the only run there is.
StatusFollows ==
  \A r \in Runs :
    LET b == job[r] IN
    /\ pc[r] \in Begun => status[b] \in Active \cup {"deleted"}
    /\ pc[r] \in {"mkdir", "fetch", "pillar", "building"} =>
         status[b] \in {"preparing", "deleted"}
    /\ pc[r] \in {"provision", "finalizing"} => status[b] \in {"building", "deleted"}
    /\ pc[r] \in Late => status[b] \in {"finalizing", "deleted"}
    /\ pc[r] = "ack" => status[b] \notin Active

\* The image goes from the work dir through the store to the Artifact row as
\* this run made it.
Made(r) == [by |-> r, stage |-> "provisioned"]

ImageInHand(r) ==
  LET b == job[r] IN
  /\ pc[r] \in {"finalizing", "pack"} => target[b] = Made(r)
  /\ pc[r] \in {"digest", "drop", "store"} => packed[b] = Made(r)
  /\ pc[r] \in {"store", "record"} => artifact[b] = NoArtifact
  /\ pc[r] \in {"drop", "store", "record"} => digest[r] = Made(r)
  /\ pc[r] \in Late \cup {"building", "provision", "finalizing"} => model[b] = r

ImagePublished(r) ==
  LET b == job[r] IN
  /\ pc[r] = "record" => Gone(b) \/ blob[b][cfg[r]] = Made(r)
  /\ pc[r] \in {"issue", "sweep", "finish"} =>
       \/ Gone(b)
       \/ /\ artifact[b] = [by |-> r, name |-> cfg[r], digest |-> Made(r)]
          /\ blob[b][cfg[r]] = Made(r)
  /\ pc[r] \in {"sweep", "finish"} => Gone(b) \/ b \in token

ImageFollows == \A r \in Runs : ImageInHand(r) /\ ImagePublished(r)

SerialInv == Serial /\ StatusFollows

DeliveryInv == SerialInv /\ ImageFollows /\ SucceededIsDelivered

=============================================================================
