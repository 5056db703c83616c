--------------------------- MODULE UpstreamMirror ---------------------------
(***************************************************************************)
(* The mirror of upstream base images: objects under cache/... in the      *)
(* artifact store, and the UpstreamImage rows that point at them.          *)
(*                                                                         *)
(*   osbakery/views.py                  sync_base_image, drop_base_image   *)
(*   catalog/tasks.py                   mirror_upstream_image              *)
(*   .../commands/refresh_upstream.py   _refresh_one                       *)
(*                                                                         *)
(* The key of an object comes from the file name in the source URL, so     *)
(* rows of several devices may share one object (a Raspberry Pi image is   *)
(* one file and three rows).  A job is one delivery of the sync message,   *)
(* or an operator's run of the command on a row; pc names the statement    *)
(* it executes next.  Contents are numbers: a URL that says "latest" may   *)
(* serve a newer file under the same name.  The store is the deployed one  *)
(* (S3), which overwrites; download and decompression are one step.        *)
(***************************************************************************)
EXTENDS Naturals

CONSTANTS
  Images, Keys,    \* UpstreamImage primary keys; object names under cache/
  KeyOf,           \* _cache_key of each image
  Jobs,            \* names of executions of the refresh
  None,
  DropWhileBusy,   \* an image may be dropped while it is being refreshed
  BrokerFails,     \* the broker may be unreachable when a sync is requested
  MaxReleases,     \* bounds: changes of a URL's content, sync requests,
  MaxSyncs, MaxCommands, MaxCrashes   \* runs of the command, jobs lost

ASSUME KeyAssumption == KeyOf \in [Images -> Keys]
ASSUME NothingAssumption == None \notin Images \cup Keys \cup Nat
ASSUME SwitchAssumption == DropWhileBusy \in BOOLEAN /\ BrokerFails \in BOOLEAN

VARIABLES
  key,        \* cache_storage_key of each row, None when empty
  checksum,   \* checksum_sha256 of each row: the content it was taken of
  marker,     \* rows whose mirror_started_at is set
  blob,       \* the objects of the store
  upstream,   \* the content each source URL serves
  replacing,  \* keys whose object a job removed and nobody has saved since
  asked,      \* rows whose sync request has set the marker and not sent yet
  queue,      \* sync messages waiting, per row
  dropping,   \* rows whose object a drop request has removed
  job,        \* what each job is at
  syncs, commands, crashes   \* so far

rows   == <<key, checksum, marker>>
store  == <<blob, upstream, replacing>>
web    == <<asked, queue, dropping>>
counts == <<syncs, commands, crashes>>
vars   == <<rows, store, web, job, counts>>

Steps == {"check", "stamp", "fetch", "remove", "save", "record"}
Running == Steps \cup {"settle", "clear"}
NoJob == [pc |-> "unused", img |-> None, forced |-> FALSE, manual |-> FALSE, raw |-> None]
Job == [pc : Running \cup {"killed"}, img : Images, forced : BOOLEAN, manual : BOOLEAN,
        raw : Nat \cup {None}]

TypeOK ==
  /\ key \in [Images -> Keys \cup {None}]
  /\ checksum \in [Images -> Nat \cup {None}]
  /\ blob \in [Keys -> Nat \cup {None}]
  /\ upstream \in [Keys -> Nat]
  /\ replacing \subseteq Keys
  /\ marker \subseteq Images /\ asked \subseteq Images /\ dropping \subseteq Images
  /\ queue \in [Images -> Nat]
  /\ job \in [Jobs -> Job \cup {NoJob}]
  /\ syncs \in Nat /\ commands \in Nat /\ crashes \in Nat

JobsOf(i) == {j \in Jobs : job[j].img = i /\ job[j].pc \in Running}
Sharing(i) == {s \in Images : KeyOf[s] = KeyOf[i]}
Busy(i) == \E s \in Sharing(i) : s \in asked \/ queue[s] > 0 \/ JobsOf(s) # {}

Init ==
  /\ key = [i \in Images |-> None] /\ checksum = [i \in Images |-> None]
  /\ blob = [k \in Keys |-> None] /\ upstream = [k \in Keys |-> 0]
  /\ queue = [i \in Images |-> 0] /\ job = [j \in Jobs |-> NoJob]
  /\ marker = {} /\ replacing = {} /\ asked = {} /\ dropping = {}
  /\ syncs = 0 /\ commands = 0 /\ crashes = 0

\* A vendor replaces the file behind a "latest" URL.
ReleaseInPlace(k) ==
  /\ upstream[k] < MaxReleases
  /\ upstream' = [upstream EXCEPT ![k] = @ + 1]
  /\ UNCHANGED <<rows, blob, replacing, web, job, counts>>

-----------------------------------------------------------------------------
(* sync_base_image: the marker, then the message. *)

MarkSyncing(i) ==
  /\ syncs < MaxSyncs
  /\ i \notin asked
  /\ DropWhileBusy \/ dropping \cap Sharing(i) = {}
  /\ marker' = marker \cup {i}
  /\ asked' = asked \cup {i}
  /\ syncs' = syncs + 1
  /\ UNCHANGED <<key, checksum, store, queue, dropping, job, commands, crashes>>

\* delay() raises when the broker cannot be reached: the marker stays set.
SendSync(i) ==
  /\ i \in asked
  /\ asked' = asked \ {i}
  /\ \/ queue' = [queue EXCEPT ![i] = @ + 1]
     \/ BrokerFails /\ UNCHANGED queue
  /\ UNCHANGED <<rows, store, dropping, job, counts>>

(* drop_base_image: the object, then the row.  A storage error ends the     *)
(* request before anything has changed.                                     *)

DropBlob(i) ==
  /\ key[i] # None
  /\ i \notin dropping
  /\ DropWhileBusy \/ ~Busy(i)
  /\ blob' = [blob EXCEPT ![key[i]] = None]
  /\ dropping' = dropping \cup {i}
  /\ UNCHANGED <<rows, upstream, replacing, asked, queue, job, counts>>

\* Mutant: the row is left as it is.
ForgetRow(i) ==
  /\ i \in dropping
  /\ dropping' = dropping \ {i}
  /\ UNCHANGED <<rows, store, asked, queue, job, counts>>

DropRow(i) ==
  /\ i \in dropping
  /\ key' = [key EXCEPT ![i] = None]
  /\ marker' = marker \ {i}
  /\ dropping' = dropping \ {i}
  /\ UNCHANGED <<checksum, store, asked, queue, job, counts>>

-----------------------------------------------------------------------------
(* mirror_upstream_image and refresh_upstream *)

\* Jobs are interchangeable: the next free name.
Begin(j, i, byHand, force) ==
  /\ job[j] = NoJob
  /\ j = CHOOSE free \in Jobs : job[free] = NoJob
  /\ job' = [job EXCEPT ![j] = [pc |-> "check", img |-> i, forced |-> force,
                                manual |-> byHand, raw |-> None]]
  /\ UNCHANGED <<rows, store, asked, dropping, syncs, crashes>>

At(j, label) == job[j].pc = label
Goto(j, label) == job' = [job EXCEPT ![j].pc = label]
KeyOfJob(j) == KeyOf[job[j].img]

\* Mutant: a message is taken that was never sent.
TakeUnsent(j, i) ==
  /\ queue' = [queue EXCEPT ![i] = @ - 1]
  /\ Begin(j, i, FALSE, FALSE)
  /\ UNCHANGED commands

\* The page's job never forces.
Take(j, i) ==
  /\ queue[i] > 0
  /\ queue' = [queue EXCEPT ![i] = @ - 1]
  /\ Begin(j, i, FALSE, FALSE)
  /\ UNCHANGED commands

Command(j, i, force) ==
  /\ commands < MaxCommands
  /\ DropWhileBusy \/ dropping \cap Sharing(i) = {}
  /\ commands' = commands + 1
  /\ Begin(j, i, TRUE, force)
  /\ UNCHANGED queue

Check(j) ==
  /\ At(j, "check")
  /\ Goto(j, IF blob[KeyOfJob(j)] # None /\ ~job[j].forced THEN "stamp" ELSE "fetch")
  /\ UNCHANGED <<rows, store, web, counts>>

\* _stamp_existing: the checksum stays what it was.
Stamp(j) ==
  /\ At(j, "stamp")
  /\ key' = [key EXCEPT ![job[j].img] = KeyOfJob(j)]
  /\ Goto(j, "settle")
  /\ UNCHANGED <<checksum, marker, store, web, counts>>

Fetch(j) ==
  /\ At(j, "fetch")
  /\ job' = [job EXCEPT ![j].pc = "remove", ![j].raw = upstream[KeyOfJob(j)]]
  /\ UNCHANGED <<rows, store, web, counts>>

RemoveOld(j) ==
  /\ At(j, "remove")
  /\ blob' = [blob EXCEPT ![KeyOfJob(j)] = None]
  /\ replacing' = replacing \cup {KeyOfJob(j)}
  /\ Goto(j, "save")
  /\ UNCHANGED <<rows, upstream, web, counts>>

Save(j) ==
  /\ At(j, "save")
  /\ blob' = [blob EXCEPT ![KeyOfJob(j)] = job[j].raw]
  /\ replacing' = replacing \ {KeyOfJob(j)}
  /\ Goto(j, "record")
  /\ UNCHANGED <<rows, upstream, web, counts>>

Record(j) ==
  /\ At(j, "record")
  /\ key' = [key EXCEPT ![job[j].img] = KeyOfJob(j)]
  /\ checksum' = [checksum EXCEPT ![job[j].img] = job[j].raw]
  /\ Goto(j, "settle")
  /\ UNCHANGED <<marker, store, web, counts>>

\* A statement of _refresh_one raises; the command reports it and goes on.
Raise(j) ==
  /\ job[j].pc \in Steps
  /\ Goto(j, "settle")
  /\ UNCHANGED <<rows, store, web, counts>>

Retire(j) == job' = [job EXCEPT ![j] = NoJob]

\* Mutant: the finally clause is gone.
SettleNothing(j) ==
  /\ At(j, "settle")
  /\ Retire(j)
  /\ UNCHANGED <<rows, store, web, counts>>

\* The task's finally clause reads the row again, and clears the marker of a
\* row that has no object.
Settle(j) ==
  /\ At(j, "settle")
  /\ IF ~job[j].manual /\ key[job[j].img] = None THEN Goto(j, "clear") ELSE Retire(j)
  /\ UNCHANGED <<rows, store, web, counts>>

ClearMarker(j) ==
  /\ At(j, "clear")
  /\ marker' = marker \ {job[j].img}
  /\ Retire(j)
  /\ UNCHANGED <<key, checksum, store, web, counts>>

Crash(j) ==
  /\ job[j].pc \in Running
  /\ crashes < MaxCrashes
  /\ crashes' = crashes + 1
  /\ UNCHANGED <<rows, store, asked, dropping, syncs, commands>>

\* A killed pool process, or a command that is interrupted.
KillJob(j) == Crash(j) /\ Goto(j, "killed") /\ UNCHANGED queue

\* Mutant: the message is acknowledged before the job has run.
LoseJob(j) == Crash(j) /\ ~job[j].manual /\ Retire(j) /\ UNCHANGED queue

\* The whole worker dies and the message is delivered again.
LoseWorker(j) ==
  /\ Crash(j)
  /\ ~job[j].manual
  /\ Retire(j)
  /\ queue' = [queue EXCEPT ![job[j].img] = @ + 1]

JobStep(j) ==
  \/ Check(j) \/ Stamp(j) \/ Fetch(j) \/ RemoveOld(j) \/ Save(j) \/ Record(j)
  \/ Raise(j) \/ Settle(j) \/ ClearMarker(j)

WebStep(i) == MarkSyncing(i) \/ SendSync(i) \/ DropBlob(i) \/ DropRow(i)

Next ==
  \/ \E k \in Keys : ReleaseInPlace(k)
  \/ \E i \in Images : WebStep(i)
  \/ \E j \in Jobs, i \in Images :
       Take(j, i) \/ \E force \in BOOLEAN : Command(j, i, force)
  \/ \E j \in Jobs : JobStep(j) \/ KillJob(j) \/ LoseWorker(j)

Spec == Init /\ [][Next]_vars

\* Requests are answered, workers consume and their jobs go on.
Fairness ==
  /\ \A i \in Images : WF_vars(SendSync(i)) /\ WF_vars(DropRow(i))
  /\ \A i \in Images : WF_vars(\E j \in Jobs : Take(j, i))
  /\ \A j \in Jobs : WF_vars(JobStep(j))

FairSpec == Spec /\ Fairness

-----------------------------------------------------------------------------

Syncing(i) == i \in marker /\ key[i] = None
Killed(i) == \E j \in Jobs : job[j].img = i /\ job[j].pc = "killed"

\* A row that the page shows as syncing is in the hands of a request, a message
\* or a job, whatever drops, second requests, commands and crashes do in between
\* (UpstreamImage.is_syncing).  Needs a broker that answers: MarkSyncing comes
\* before SendSync and is not undone.
SyncingHasJob ==
  \A i \in Images :
    Syncing(i) =>
      \/ i \in asked \/ queue[i] > 0 \/ Killed(i)
      \/ \E j \in JobsOf(i) : ~job[j].manual

\* A row does not stay "syncing" forever: its job mirrors it or the task's
\* finally clause clears the marker, unless a pool process is killed.
SyncSettles == \A i \in Images : Syncing(i) ~> ~Syncing(i) \/ Killed(i)

\* A mirrored row's object is there, unless a refresh has removed it to put a
\* new one in its place (and perhaps failed), or the row is being dropped
\* (UpstreamImage.is_synced).  Needs rows with objects of their own, and drops
\* that keep clear of refreshes.
MirroredHasBlob ==
  \A i \in Images :
    key[i] # None /\ i \notin dropping =>
      blob[key[i]] # None \/ key[i] \in replacing

=============================================================================
