# Verification of os-bakery

TLA+ models of os-bakery, TLC configurations that check them on small instances, and proofs
that the TLA+ proof system (TLAPS) checks for every size. Source paths are relative to `src/`.

os-bakery bakes customised operating system images. A Django site takes build requests and
keeps the catalogue; Celery workers fetch an upstream image, provision it through loop mounts
and chroots, pack it and publish it to an object store; users download it with tokens. State
lives in PostgreSQL (autocommit, one transaction per write unless a command says otherwise),
Redis (the broker), an object store (S3 when deployed, local files by default) and the work
volume that the workers share.

## 1. Inventory

| component | state | operations | talks to |
| --- | --- | --- | --- |
| dispatch (`builds/signals.py`) | `celery_task_id` | on creation of a row: `apply_async`, save the id | broker, task |
| task (`builds/tasks.py`) | `status`, times, failure text | load, PREPARING, bake, SUCCEEDED or FAILED | orchestrator |
| orchestrator (`builds/orchestrator.py`) | work dir, `status`, `effective_model` | prepare, pillar, provision, pack, publish, sweep | provisioners, store, rows |
| provisioners (`builds/provisioners/`) | loop devices, mounts, qcow2 raw copies | attach, mount, apply, unmount, detach, repack | the kernel, the work dir |
| publishing (`_publish`, `Artifact`, `DownloadToken`) | store objects, `Artifact`, `DownloadToken` rows | replace artifact, save, record, issue token | store |
| fleet command (`bake_gedu_fleet.py`) | `BuildRequest` rows, in one transaction | create, rewrite, requeue | dispatch |
| baked-image pages (`osbakery/views.py`) | rows, objects | list, delete a build with its object | store |
| downloads (`builds/views.py`) | `DownloadToken.use_count` | check, count, stream; revoke | store |
| image mirror (`osbakery/views.py`, `catalog/tasks.py`, `refresh_upstream.py`) | `UpstreamImage` cache columns, `cache/` objects | sync, drop, refresh | broker, store, vendors |
| node registry (`osbakery/views.py`, `tenants/`) | `Node.parameters`, ZeroTier and WireGuard membership | edit, clone, join, add peer | HTTP APIs |
| effective model (`tenants/models.py`, `tenants/pillar.py`, `orchestrator.py`) | none (pure) | deep merge, splices, formula order | pillar |
| recipes (`recipes/models.py`) | versions, `is_current` | save a version | builds |
| catalogue (`catalog/models.py`, `seed_catalog.py`) | releases, the default, images and their devices | seed, prune, pin | recipes, builds |
| upstream pollers (`catalog/upstream/`) | releases | poll | HTTP |
| submission (`builds/serializers.py`, `osbakery/views.py`) | `BuildRequest` rows | choose version and image, insert | catalogue, recipes, dispatch |
| filesystem inventory (`infra/`) | `PackerTemplate`, `SaltFormula` rows | upsert, archive | disk |
| seeds of tenants, clusters and recipes | rows of the registry and the recipes | load, put back | registry, recipes |
| admin site, read-only API | - | framework | - |

What makes each one correct, and where it is hard:

* **Build lifecycle.** Nobody locks a build: messages are acknowledged late and delivered again
  after a crash, the fleet command rewrites and dispatches rows, pages delete them, and the work
  dir and the object key are named after the build. Wanted: one bake at a time; a succeeded build
  has a downloadable, provisioned, verifiable image; no artifact row without object; each bake
  ends; work dirs are reclaimed.
* **Provisioners.** Every command may fail, with half of the mounts made; provisioning may run on
  a raw copy. Wanted: nothing stays attached or mounted, the sweep never descends into a mount,
  what was applied is what is packed.
* **Image mirror.** A request, a message, a job, a drop and an operator's command touch a row and
  an object, two stores without a common transaction. Wanted: "mirrored" means that the object
  is there; "syncing" means that somebody is at it and ends.
* **Downloads.** The use count is read, compared and written back. Wanted: no more downloads than
  granted, none after revocation, the bytes that the checksum is of.
* **Catalogue, submission.** Seeds, a poll, a prune in several statements, pins and submissions meet
  without a lock; an image is chosen in three places by three pieces of code. Wanted: no dangling
  reference, the seed's default, the same image whichever way a build comes in.
* **Filesystem inventory.** The tree and the admin site change under the walk. Wanted: what was
  there stays, what was not is archived.
* **Node registry.** Long HTTP calls between the read and the write of one JSON column. Wanted:
  no lost update, no address given twice.
* **Effective model.** Merged and spliced twice, by the page of a node and by a bake, in separate
  code. Wanted: both give a device the same pillar; precedence of layers.
* **Recipes.** A save unmarks the rows it sees, the seed saves a row it read earlier. Wanted: the
  version that was marked last is the current one, and no other is.

`PROJECT.json` has the hazards line by line, with the property that covers each one.

## 2. Modules

| module | models | role |
| --- | --- | --- |
| `BuildRequests` | what the page of a build promises | abstract specification |
| `BuildLifecycle` | signal, task, orchestrator, publishing, deletion, fleet command | detailed specification, implements `BuildRequests` |
| `BuildLifecycleInv` | - | inductive invariants |
| `BuildLifecycle_proofs` | - | proofs, of the refinement too |
| `MCBuildLifecycle` | - | instances for TLC |
| `UpstreamMirror` | sync, drop and refresh of base images | detailed specification |
| `UpstreamMirror_proofs`, `MCUpstreamMirror` | - | proofs, instances |
| `Provisioning` | choice of a backend; devices, mounts and raw copies; the file published | detailed specification |
| `Provisioning_proofs`, `MCProvisioning` | - | proofs, instances |
| `EffectiveModel` | merge, splices, pillar, salt ids, over JSON trees | pure operators |
| `EffectiveModel_proofs` | - | lemmas about them, and about least and greatest numbers |
| `NodeRegistry` | views of clusters and nodes, enrolment, pillar endpoint, seeds of both | detailed specification, uses `EffectiveModel` |
| `NodeRegistry_proofs`, `MCNodeRegistry` | - | proofs, instance |
| `Catalogue` | seed, prune and poll of releases and images | detailed specification |
| `RecipeVersions` | adding and editing a version, the seed of recipes | detailed specification |
| `Submission` | the three ways to a build | composition of `Catalogue` and `RecipeVersions` |
| `Catalogue_proofs` | - | proofs over the composition |
| `Downloads` | `download_artifact` beside rebakes, removal, revocation | detailed specification |
| `Inventory` | `sync_filesystem` beside commits and the admin site | detailed specification |
| `Downloads_proofs`, `Inventory_proofs` | - | proofs |
| `MCCatalogue` | - | one instance for the last five, side by side |

Operators headed "Mutant" are faulty variants of the action after them. They take no part in
`Next`; they show, one for each property, that the property would notice such a change of the code.

### BuildLifecycle

A *run* is one delivery of a build's message; `pc[r]` names the statement it executes next, and
each statement that writes a row, a file or an object is one action:

    run_build   Load, Start ........ Finish | Fail, Ack
    bake        MakeWorkDir, FetchBase | RaiseInPrepare       (before the try)
                WritePillar, SaveBuilding, Provision, SaveFinalizing, Pack,
                HashPacked, DropPrevious, StoreBlob, RecordArtifact, IssueToken
                | RaiseInTry                                   (the try)
                Sweep                                          (the finally)

The rest are `Submit` (row, signal, message), `FleetRead`, `FleetSave`, `FleetCommit`,
`FleetRollback` and `FleetCreate` (the command's transaction: the signal fires inside it),
`DeleteBlob` and `DeleteRow` (`delete_baked_image`), `KillRun` (a pool process dies and Celery
acknowledges) and `LoseWorker` (the worker dies and the message comes again).

Data is reduced to what the properties tell apart. An image is the run that made it and whether it
was provisioned; a checksum is the content it was taken of; hostname, device and options are one of
`Names`, which is also the object's base name, so the fleet command can rename what a build
publishes. `Overwrites` selects S3 or local files. `FleetWhileBusy` says whether the fleet command
may touch a build that is being baked: the code allows it, and the project says what is lost.

### UpstreamMirror

`key`, `checksum` and `marker` are the columns of the rows, `blob` is the store, `upstream` the
vendor's content, which may change under the same name. `MarkSyncing` and `SendSync` are
`sync_base_image`; `DropBlob` and `DropRow` are `drop_base_image`; a *job* is one
`mirror_upstream_image` delivery or one row of an operator's `refresh_upstream`, and goes through
`Check`, then `Stamp`, or `Fetch`, `RemoveOld`, `Save`, `Record`; any of them may fail (`Raise`);
`Settle` and `ClearMarker` are the task's finally clause. `KeyOf` is `_cache_key`, given as a
constant because only who shares with whom matters.

### Provisioning

One bake per attempt. `Backend` is the dispatch of `_mount_and_provision`; `Start` draws any system,
provisioner and request. `backing` is the table of loop devices, `mounts` the kernel's mount table,
`loopQcow2` the module-level dictionary `_LOOP_QCOW2` (one per pool process), `lo` and `mounted` the locals
that the finally clauses use. An image of any backend may be qcow2 (`UpstreamImage.format` is free):
`_attach_loop` converts it for each of its callers, `_detach_loop` packs the raw copy back, and batocera,
which detaches by hand, does not (`Packs`): what it applied to a qcow2 image is lost, and its entry in the
dictionary stays. `AppliedIsPublished` (`LeftInRaw`) and `EntryMatches` state both outcomes as they are.
`Plan` is the order of mounts and `Inside` the tree they form; `Listed` captures that `_bind_pseudo` hands
over its list only when it has finished. `umount -lf` takes the mounts inside along. Batocera's two nested
finally clauses unmount one after the other, as one list. Packer and Proxmox run a tool instead: `choose`,
`build`, and `answer`, `prepare`; `target` follows the file they leave to be packed.

What the translation shows without a property: `local_salt` returns True or raises, so that
`packer_arm_tools`, called a fallback at `orchestrator.py:372`, only ever runs for builds that ask
for no Salt, and its presets with Salt are dead code. A Packer run that succeeds without
`output.img`, and Proxmox without its assistant, publish the upstream image as a success
(`PackerNoOutput`, `NoAssistant`); `SaltedIsApplied` says that no Salt build comes to that.

### EffectiveModel and NodeRegistry

JSON values are trees: dictionaries, lists, scalars, and addresses and subnets where the code
computes with them. `DeepMerge` is `_deep_merge`, `NodeModel` the model of a node's page and of
the pillar endpoint, `BuildModel` that of a bake; they share the operators only where the code
shares the functions. `Suggestion` is `_suggest_addr`, `Resolve` is `resolve_node`. The recursion
of `_deep_merge` is written out for dictionaries four deep (`Merged1` to `Merged3`), one more than
the layers that the code adds itself; `Parameters` says that a tree is no deeper, and finite.
`Unset` is the empty string, as an absent host name, key or scalar is false in Python.
`Interfaces` are all the names that tunnels have, posted or read from a row.

A *request* is one web request or command that takes several steps; it keeps the row it read
(`snap`) until it writes, and `stale` notes that another request wrote in between. `Join`,
`JoinSave`, `JoinStore`, `JoinRegister` and `JoinDone` are `node_zerotier_join`; `AddPeer`,
`ListClients`, `CreateClient`, `PeerSave`, `PeerKeep` and `PeerStore` are `node_wireguard_add` and
`register_client`; the generators and the backfill likewise. `page` is the edit form, which posts
the whole row as it was shown. The controllers are external: a call answers or fails.
`SeedCluster`, `SeedCreates` and `SeedFinds` are the seeds that a development boot runs again.

What it shows without a property, as no text promises more: the salt id is not unique across
clusters (one slug in two clusters, or a clone; `MinionGetsOwnPillar` excludes them); an edit page
opened before a deletion puts the node back, and one opened before a join takes the network away;
two concurrent requests create two WireGuard clients of one name; a forced generation replaces an
identity that was authorised.

### Catalogue, RecipeVersions and Submission

`SeedCatalog` is one transaction; `--prune` runs after it in statements of its own: `ListImages`,
`CollectImage`, `ListReleases` and `CollectRelease` read what is to go, `Delete` removes it and unpins it,
or ends the command when the database finds another row that points there; it may stop anywhere
(`SeedEnds`). A poll reads (`PollFinds`), then creates (`PollCreates`); the admin site pins (`PinRelease`,
`PinImage`). `save` in `RecipeVersions` is the transaction of an editor, who adds a version (`Publish`) or
saves the row of an existing one (`Edit`), with the box of `is_current` ticked or not, or of the seed
(`SeedReads`, `SeedRefreshes`), which keeps the mark it read. A save of a current object unmarks the other
rows (`ClearOthers`) as it sees them, and commits. Two history variables carry the properties: `marked` is
the version ticked last, unless it was unticked since; `crossed` holds from a save that another one
overlapped to the next ticked save that none did. `ApiImages`, `PageImages` and `NodeImage` are the three
choices of an image; `Post`, `ShowPage`, `PostForm` and `BakeNode` lead to `Insert`.

### Downloads

`reader[q]` is a request in `download_artifact`: `ReadToken`, `ReadArtifact`, `SaveCount`, `Open`.
Beside it `DropArtifact`, `SaveBlob`, `CreateArtifact` and `IssueToken` are a rebake, as in
`BuildLifecycle`; the page removes the object and the row (`RemoveBlob`, `RemoveRow`); `Revoke`,
`ExpireToken` and `ExpireArtifact` may come at any time. `raced` notes that a count was written
over one it was not read from.

### Inventory

`walk` is the command: files met in any order (`VisitTemplate`), `ListStale` and `Archive`, then
the formulas. `always` and `ever` bracket the tree: what was there throughout and what was there at
some time. A template file without a row aborts the command, since its row needs an operating
system: the rows come from the admin site (`Register`), whose forms write whole rows back.

## 3. Runs

| run | instance | question, result |
| --- | --- | --- |
| `lifecycle` | 1 build, 3 deliveries, 2 configurations, 1 fleet operation, 1 crash; S3; idle requeues | one bake at a time, success is delivered, active rows have a run, every bake settles, `BuildRequests` is implemented: holds |
| `overlap` | 1 build, 3 overlapping deliveries, 2 configurations, 1 fleet operation, 1 crash; local files; busy requeues | work dirs are accounted for, artifacts have objects, even so: holds |
| `rebake_local` | 1 build, 2 deliveries; local files | **violated**: second bake, first object, second checksum |
| `fleet_create` | 1 build, 2 deliveries | **violated**: message before commit, build queued for ever |
| `requeue_busy` | 1 build, 2 deliveries; busy requeue | **violated**: an unprovisioned image is published as a success |
| `mirror` | 1 row, 2 syncs, 1 command, 1 release, 1 crash, drops | mirrored has object, syncing has job and settles: holds |
| `mirror_shared` | 2 rows, 1 object | **violated**: dropping one row breaks the other |
| `provisioning` | 2 bakes, 2 processes, 2 devices, 1 kill | devices, mounts, entries and raw copies on every path but the next run's: holds |
| `partitions_missing` | 1 bake | **violated**: `_attach_loop` leaks its device |
| `registry` | 2 clusters, 2 nodes, 2 requests, 3 operations, 2 minted identities or keys; 2 cluster and 3 node forms, 2 preset versions | bake and endpoint agree, declared identities are baked, only edits, the seed and overtaken requests lose an entry: holds |
| `catalogue` | four units side by side, each with the others at rest: catalogue and submission (2 editions, a poll, 1 build), recipes (3 versions, 2 editors, the box ticked or not, the seed), downloads (2 requests, 2 bakings, caps 0 and 2), inventory (2 templates of one slug, 1 formula, 3 changes) | references, default, current version, agreement of the routes, counts, checksums, revocation, reconciliation: holds |
| `two_current` | the recipes unit | **violated**: two versions added at once are both current; the seed's refresh of an older version can also leave none |

The violated properties state what a comment or a document of the repository says; the entries
under `findings` quote it and tell the story of the counterexample.

Why these bounds. Builds do not interact except through devices (work dir, key, row and message
are per build), so one build with several deliveries shows what the lifecycle can do; a third
delivery is needed for a crash, its redelivery and a requeue. Two configurations are needed to see
a renamed object. Rows of the mirror interact only through a shared key, so `mirror` has one row
and `mirror_shared` two; four job names suffice for three messages or commands and a killed job.
Two bakes on two devices meet every hand-over: the same process and device one after the other,
and two processes at once; every system and provisioner is drawn. In `registry` two clusters allow
a move and two tenants of one slug, two nodes a second host of a tunnel, two requests one
overtaking; three operations are an edit page, a request and what comes between them; six
addresses make the pool fill up. The units of `catalogue` have no variable in common, so they
share one run, and while one of them moves the others stay at their first state. Editions only
move forward, as deployments do; three releases are one dropped, one kept and one polled ahead of
the seed; the catalogue unit takes the recipe as the recipes unit can leave it, with a current
version, without, or with none (`HasOne`). Two downloads are one race, a cap of two is reached
within it, two bakings are one replacement. Two files of one slug are the collision that
lower-casing and joining paths allows. Requests, editors and downloads are symmetric. Deadlock is
not checked: when every build is finished, and every bounded request made, the system rightly
stops.

Fairness. Workers consume and their statements go on (`worker-packer` runs permanently, no
statement waits for another actor); an open transaction ends; a request that has begun is answered.
Nothing is assumed of users, operators, vendors and crashes. A killed pool process is outside
what can settle by itself, as the code has no reaper: `ActiveSettles` and `SyncSettles` say so.

## 4. Proofs

TLAPS proves for every value of the constants:

| theorem | statement | assumes |
| --- | --- | --- |
| `BuildLifecycle_proofs!TypeSafety` | `Spec => []TypeOK` | - |
| `BuildLifecycle_proofs!WorkDirSafety` | `Spec => []WorkDirAccounted` | - |
| `BuildLifecycle_proofs!ArtifactSafety` | `Spec => []ArtifactHasBlob` | - |
| `BuildLifecycle_proofs!OneBakeSafety` | `Spec => []OneBakePerBuild` | idle requeues |
| `BuildLifecycle_proofs!ActiveRowSafety` | `Spec => []ActiveRowHasRun` | idle requeues |
| `BuildLifecycle_proofs!DeliverySafety` | `Spec => []SucceededIsDelivered` | idle requeues, S3 |
| `BuildLifecycle_proofs!Implementation` | `Spec => ImplementsRequests` | idle requeues, S3 |
| `UpstreamMirror_proofs!TypeSafety` | `Spec => []TypeOK` | - |
| `UpstreamMirror_proofs!SyncingSafety` | `Spec => []SyncingHasJob` | the broker answers |
| `UpstreamMirror_proofs!BlobSafety` | `Spec => []MirroredHasBlob` | rows with objects of their own, drops clear of refreshes |
| `Provisioning_proofs!ProvisioningTypes` | `Spec => []TypeOK` | - |
| `Provisioning_proofs!LoopSafety` | `Spec => []LoopHeld` | - |
| `Provisioning_proofs!EntrySafety` | `Spec => []EntryMatches` | - |
| `Provisioning_proofs!MountSafety` | `Spec => []MountsInWorkDirs` | - |
| `Provisioning_proofs!PublishedSafety` | `Spec => []AppliedIsPublished` | - |
| `Provisioning_proofs!SaltSafety` | `Spec => []SaltedIsApplied` | - |
| `NodeRegistry_proofs!RegistryTypes` | `Spec => []TypeOK` | - |
| `NodeRegistry_proofs!InLockStep` | `Spec => []LockStep` | - |
| `NodeRegistry_proofs!OwnPillar` | `Spec => []MinionGetsOwnPillar` | - |
| `NodeRegistry_proofs!ParametersJoin` | `Spec => []LayersJoin` | - |
| `NodeRegistry_proofs!IdentitiesBaked` | `Spec => []IdentityBaked` | - |
| `NodeRegistry_proofs!StoredAnswered` | `Spec => []StoredIsAuthorised` | - |
| `NodeRegistry_proofs!SuggestionFree` | `Spec => []SuggestedIsFree` | - |
| `NodeRegistry_proofs!EntriesRemain` | `Spec => EntriesKept` | - |
| `NodeRegistry_proofs!TunnelsHandedOut` | `Spec => TunnelHandedOut` | - |
| `Catalogue_proofs!SubmissionTypes` | `Spec => []TypeOK` (of `Submission`) | - |
| `Catalogue_proofs!SubmissionsAgree` | `Spec => []PathsAgree` | - |
| `Catalogue_proofs!ReferentialSafety` | `Spec => []NoDangling` (of `Submission`) | - |
| `Catalogue_proofs!SeedSafety` | `Spec => []SeedHolds` | - |
| `Catalogue_proofs!CurrentVersion` | `Spec => []OneCurrent` | - |
| `Downloads_proofs!CapSafety` | `DownloadsSpec => []CountWithinCap` | - |
| `Downloads_proofs!ServedSafety` | `DownloadsSpec => []ServedIsCounted` | - |
| `Downloads_proofs!ChecksumSafety` | `DownloadsSpec => []ChecksumFits` | - |
| `Downloads_proofs!RevocationStands` | `DownloadsSpec => StaysRevoked` | - |
| `Inventory_proofs!Reconciliation` | `InventorySpec => SyncReconciles` | - |

*Lifecycle.* `SharedInv` (every configuration) adds to the two properties that a run which is about
to record an artifact has stored its object under the key the row will name (`PublishOrder`) and
that rows being deleted are not rewritten (`Shape`). With idle requeues, `Serial` is the heart:
`Alone` (a message or a run, never two) is inductive only together with `FleetWaits`, which says
that a row in the fleet command's hands is not baked, and that what will be written back is either
a requeue or what the row already has. On top of it `StatusFollows` ties the status to the
only run there is, and `ImageFollows` carries the image from the work dir through the store to the
artifact row as that run made it; at `Finish` they give `SucceededIsDelivered`. The refinement maps
`offered` to the builds that can be downloaded and `leaving` to those being deleted, and shows each
action to be a step of `BuildRequests` or a stutter.

*Mirror.* `SyncingHasJob` is inductive with the types. The proof follows who cares for a row: a
step that ends a job either hands its row to a message or leaves the row not syncing. It does not
need the restriction on drops that `BlobSafety` states: there the invariant adds that a job about
to stamp or record finds the object (`Relies`), and that the row of a drop is in nobody else's
hands (`LeftAlone`), without which the drop would take the object from under the job.

*Provisioning.* The variable `lo` alone does not make `LoopHeld` inductive: `_detach_loop` of one bake would
take the device of another. `Loops` adds that two bakes at work are in different processes (`Alone`), and
ties the entry of `_LOOP_QCOW2` to the file behind the device in both directions (`Entries`, `Entered`), for
the backends that use `_detach_loop`; an entry that batocera left is of a bake that has detached its device
(`Stale`). Then the raw copy that is packed back is the bake's own, or was swept with its bake, so that
there is nothing to pack (`Own`). `Content` follows the provisioned file from the device through the raw
copy to the file that is packed. `Covered` is what the sweep needs: each mount is on the list that is
unwound, or inside one that is.

*Registry.* `TypeInv` adds to the types what the requests hold: the numbers they got are those of
identities and keys there are, their networks and interfaces are known ones, and a node that has no
row has no identity. It carries the invariant of the pure properties, and three more stand on it.
`StoredIsAuthorised` is inductive with it: an identity of the join button is answered for by the
request that made it until that request registers it. `Unstale` says that a request which has read
a row and not yet written it either has the row as it is or is marked as overtaken; with it a join,
a new tunnel and the backfill write back at least the entries they found, which is `EntriesKept`.
`Attaches` says that a request about to store a controller's key, not overtaken, has its tunnel in
the row and its key made for the name of the row; then the pages find that client, a later one of
its name, or the key stored for the first tunnel, which is `TunnelHandedOut`.

`LockStep`, `MinionGetsOwnPillar`, `LayersJoin` and `IdentityBaked` speak of one state, and follow
from the types by lemmas on the operators, for any parameters: `MergeKeeps` (a merge of parameters
is parameters, and extends its upper layer), `MergeSection` (the list under two keys of a merge has
the items of both sides, unless the upper side puts something else there), `SpliceNetworkLemma` (an
entry keeps its network id under its new name and gets the identity stored for it), `NodeModelLemma`
(the salt id and the networks of a model, from its layers), and those of the pillar and its file.
`NodeModel` and `BuildModel` differ in the options alone, which `Pillar` leaves out: the lock-step.
The level of every lemma on merges is written out (`Merged1` to `Merged3`), as induction over the
depth of a tree is not available; the induction over numbers that the written pillar needs
(`Induction`) goes by the strict subset ordering of finite sets.

*Catalogue.* `NoDangling` holds because `Delete` looks again at who points at the rows it collected, and
because a build or a pin names a row that exists when it is written, never one that was only read. For
`SeedHolds` the invariant adds that no prune has a row of the edition in hand (`PruneSpares`). For
`OneCurrent` it adds that what an open save goes by is still so, unless another save was committed since it
began (`Fresh`); that also lets a lone ticked save put right what overlapping ones have left, as it clears
all the rows there are. `PathsAgree` compares what the three ways to a build choose in one state; it needs
that a system has at most one default release, and none before the first seed (`Unseeded`).
`SubmissionTypes` adds what a request looked up (`RequestTypes`).

*Downloads.* A request carries what it read, and the invariant relates it to the token of the same
baking: a count not yet written has passed `is_valid` (`Passed`), the files handed out and those
about to be are counted (`Counted`), and the object is of the artifact's baking or gone
(`BlobOfArtifact`), also between the statements of a rebake (`Publishing`), when requests can only
hold tokens of earlier bakings (`Bounds`). `Counted` is why the readers are assumed finite.

*Inventory.* The invariant says that whatever the walk has seen was there at some time (`Within`);
that the slug of each template it has seen has a row, which points at a file of that slug unless a
form was saved meanwhile (`Met`); and that, before it archives, it has seen all that was there
throughout (`Complete`).

Before they were proved, these invariants were checked by TLC as invariants of the runs' instances:
that of `Provisioning` in `provisioning`; those of the catalogue, the recipes, the downloads and the
inventory in `catalogue`; `SharedInv` in `overlap`; `DeliveryInv`, which contains `Serial`,
`StatusFollows` and `ImageFollows`, in `lifecycle`; and `Unstale` and `Attaches` in `registry`.

Model-checked only: liveness (`ActiveSettles`, `SyncSettles`), as fairness and ENABLED are beyond
the prover; and what the runs that expect a violation refute.

## 5. What is not modelled

Timestamps, failure texts and `BuildEvent` rows; raw ISO artifacts; the ImportError branch of
`run_build`; a database that goes down; deleting a build in the instant in which the fleet command
rewrites it; a bake that takes longer than the 12 hours of the
broker's visibility timeout (`settings.py:147`), whose message would be delivered a second time.

*Provisioning*: what salt states do, partition growth, the squashfs's own device, processes that
keep a lazily unmounted file system busy after `umount -l` (`local_salt.py:438`), and work dirs
shared by two runs. The texts of user-data, `answer.toml` and the scripts are formatting.

*Registry*: fragments of `render_salt_pillar` by host name, the layout of WireGuard
configurations and of the bake script, tenants and integrations (only read), the controllers
beyond their answers.

*Catalogue and recipes*: the tables of the seeds, options and supported hardware, `--reset`, the
deletion of a version, a form that saves several versions at once, waiting for the row lock of
another version, the watchers' pages (a set of candidates stands for them), option values and
uploads of a submission.

*Downloads*: the admin form of a token (`builds/admin.py:56`), which saves every column as it was
shown: opened before a revocation and saved after it, it takes the revocation back. `StaysRevoked`
speaks of requests, rebakes and removals.

What the exemptions of a property let pass is named by a hazard of its own: overtaken requests,
edits and seeds in `EntriesKept`, a row that is being replaced in `MirroredHasBlob`, an artifact
replaced after it was read in `ChecksumFits`, the fleet command on a build that is being baked.
Where a text of the repository promises what an exemption gives up, `two_current` refutes it for
`crossed`, and the list below names it for `raced` and the others.

The admin site beyond the forms named above and the read-only API are the framework's. Fernet
encryption of secret fields is cryptography. `PROJECT.json` repeats this component by component,
and gives, for each hazard without a property, the reason.

Where the code and its texts disagree in ways no run checks:

* "Always reclaim the multi-GB work dir" (`orchestrator.py:575`): a failure in `_prepare_workspace`,
  before the `try`, leaves it (`RaiseInPrepare`; the exception that `WorkDirAccounted` names).
* "`_detach_loop` repacks the raw back into the original qcow2 on teardown" (`local_salt.py:116`):
  not for batocera, which calls `losetup -d` itself (`batocera_pkg.py:591`) and publishes a qcow2
  image as it came. The seed's batocera images are raw.
* "if it was a converted qcow2" (`local_salt.py:155`): the entry that batocera leaves is found by
  the next bake of the process on that device, converted or not; its repack fails, and the bake.
* "404 for ... over-used tokens" (`docs/api.md:76`) and "incremented on every successful download"
  (`docs/data-model.md:198`): two requests that overlap are counted once and pass the cap.
* `sync_filesystem` says that new directories become new rows, and fails on a new template;
  `docs/packer.md:25` says that it updates `UpstreamImage`, which it does not touch.
* `seed_recipes` rewrites the states of existing versions, called frozen snapshots; a pinned release
  gives way to another one when a node is baked.
* `register_use` and `revoke` of a token have no caller.

## 6. Plan

1. A composition of `Provisioning` with `BuildLifecycle`, in which a killed or overlapping run
   leaves mounts in a dir that the next run sweeps.
2. An abstract specification of the registry, one atomic update per request, and the conditions
   under which the views implement it.
3. Status texts and events of a build: what an earlier attempt leaves on the row.
