---------------------------- MODULE Provisioning ----------------------------
(***************************************************************************)
(* Which backend provisions an image, what it does with the kernel (loop   *)
(* devices, mounts, the raw copy of a qcow2 image that has to be packed    *)
(* back), on every path through the try/finally clauses, and which file    *)
(* is published.                                                           *)
(*                                                                         *)
(*   builds/provisioners/local_salt.py     provision, _attach_loop,        *)
(*                                         _detach_loop, _bind_pseudo      *)
(*   builds/provisioners/batocera_pkg.py   provision, _apply_salt_local    *)
(*   builds/provisioners/haos_pkg.py, cloud_init.py, packer_arm_tools.py,  *)
(*                       proxmox_autoinstall.py   provision                *)
(*   builds/orchestrator.py                _mount_and_provision, and the   *)
(*                                         end of bake                     *)
(*                                                                         *)
(* Bakes are attempts with work dirs of their own (BuildLifecycle has the  *)
(* ones that share a dir).  They run in the pool processes of one worker,  *)
(* which share the kernel; the dictionary _LOOP_QCOW2 is per process.      *)
(* Files of a bake are <<bake, "image">>, <<bake, "raw">> and, of Proxmox, *)
(* <<bake, "iso">>.                                                        *)
(***************************************************************************)
EXTENDS Naturals, Sequences, SequencesExt

CONSTANTS
  Bakes, Processes, Devices, None,
  MaxKills     \* bound: pool processes killed

ASSUME LimitAssumption == MaxKills \in Nat

VARIABLES
  pc, kind, qcow2,   \* of each bake: statement, backend, format of its image
  salted,     \* bakes that Salt provisions and that ask for states, or for a minion
  process,    \* the pool process it runs in
  lo,         \* its variable lo: the device it will detach
  mounted,    \* its variable mounted: the mount points it will unmount
  step,       \* mount points of its plan dealt with
  target,     \* ctx.target_image: the file that _pack takes
  outcome,    \* of its provisioner; "missing": it raised for want of partitions
  repacks,    \* the bake whose raw copy it packs back
  backing,    \* the file behind each loop device
  loopQcow2,  \* _LOOP_QCOW2 of each process: the bake of each entry
  mounts,     \* mounts of the kernel: <<bake, point>>
  dirs,       \* bakes whose work dir exists
  provisioned,  \* files that hold a provisioned image
  raws,       \* bakes that have a raw copy
  published,  \* what each bake published
  kills

local  == <<kind, qcow2, salted, process>>
kernel == <<backing, mounts>>
files  == <<dirs, provisioned, raws>>
vars == <<pc, local, lo, mounted, step, target, outcome, repacks, kernel, loopQcow2, files,
          published, kills>>

Systems == {"proxmox-ve", "batocera", "haos", "linux"}   \* "linux": any other
Provisioners == {"salt", "cloud-init", "ansible"}

\* Mutant: the legacy backend comes first.
BackendLegacy(system, provisioner, asks) ==
  CASE system = "proxmox-ve" -> "proxmox"
    [] system = "batocera"   -> "batocera"
    [] system = "haos"       -> "haos"
    [] system = "linux" /\ provisioner = "salt" -> "packer"
    [] system = "linux" /\ provisioner = "cloud-init" -> "cloud"
    [] OTHER -> "none"

\* The backend of a recipe.  local_salt returns True or raises, so that
\* packer_arm_tools is left with the builds that ask for no states.
Backend(system, provisioner, asks) ==
  CASE system = "proxmox-ve" -> "proxmox"
    [] system = "batocera"   -> "batocera"
    [] system = "haos"       -> "haos"
    [] system = "linux" /\ provisioner = "salt" /\ asks  -> "salt"
    [] system = "linux" /\ provisioner = "salt" /\ ~asks -> "packer"
    [] system = "linux" /\ provisioner = "cloud-init" -> "cloud"
    [] OTHER -> "none"

Mounting == {"salt", "batocera", "haos", "cloud"}
Kinds == Mounting \cup {"proxmox", "packer", "none"}

\* The mount points of each backend, in order.  "dev" to "proc" stand for
\* /dev, /dev/pts, /proc, /sys and /run.
SaltPlan == <<"root", "boot", "dev", "pts", "proc">>
HaosPlan == <<"boot">>
CloudPlan == <<"root">>
BatoceraPlan == <<"share", "boot", "squash", "root", "bind", "dev", "pts", "proc">>
Plan == [salt |-> SaltPlan, haos |-> HaosPlan, cloud |-> CloudPlan, batocera |-> BatoceraPlan]
Points == UNION {Range(Plan[k]) : k \in Mounting}

\* The mount points inside a mount point.
Inside(k, point) ==
  CASE point = "root" /\ k = "salt"     -> {"boot", "dev", "pts", "proc"}
    [] point = "root" /\ k = "batocera" -> {"bind", "dev", "pts", "proc"}
    [] point = "dev" -> {"pts"}
    [] OTHER -> {}

Over == {"idle", "over", "killed"}
Labels == Over \cup {"convert", "attach", "wait", "mount", "apply", "unmount", "repack",
                      "pack", "sweep", "choose", "build", "answer", "prepare"}
Files == Bakes \X {"image", "raw", "iso"}
Outcomes == {"applied", "skipped", "raised", "missing"}
Publications == {"upstream", "provisioned"}

ASSUME NothingAssumption ==
  /\ None \notin Bakes \cup Processes \cup Devices \cup Files
  /\ None \notin Kinds \cup Outcomes \cup Publications

TypeOK ==
  /\ pc \in [Bakes -> Labels]
  /\ kind \in [Bakes -> Kinds \cup {None}]
  /\ qcow2 \subseteq Bakes /\ salted \subseteq Bakes
  /\ process \in [Bakes -> Processes \cup {None}]
  /\ lo \in [Bakes -> Devices \cup {None}]
  /\ mounted \in [Bakes -> Seq(Points)]
  /\ step \in [Bakes -> 0 .. 8]
  /\ target \in [Bakes -> {"image", "iso"}]
  /\ outcome \in [Bakes -> Outcomes \cup {None}]
  /\ repacks \in [Bakes -> Bakes \cup {None}]
  /\ backing \in [Devices -> Files \cup {None}]
  /\ loopQcow2 \in [Processes -> [Devices -> Bakes \cup {None}]]
  /\ mounts \subseteq Bakes \X Points
  /\ dirs \subseteq Bakes /\ raws \subseteq Bakes /\ provisioned \subseteq Files
  /\ published \in [Bakes -> Publications \cup {None}]
  /\ kills \in 0 .. MaxKills

Init ==
  /\ pc = [b \in Bakes |-> "idle"]
  /\ kind = [b \in Bakes |-> None] /\ process = [b \in Bakes |-> None]
  /\ lo = [b \in Bakes |-> None] /\ mounted = [b \in Bakes |-> <<>>]
  /\ step = [b \in Bakes |-> 0] /\ target = [b \in Bakes |-> "image"]
  /\ outcome = [b \in Bakes |-> None]
  /\ repacks = [b \in Bakes |-> None] /\ published = [b \in Bakes |-> None]
  /\ backing = [d \in Devices |-> None]
  /\ loopQcow2 = [p \in Processes |-> [d \in Devices |-> None]]
  /\ qcow2 = {} /\ salted = {} /\ mounts = {} /\ dirs = {} /\ raws = {} /\ provisioned = {}
  /\ kills = 0

Goto(b, label) == pc' = [pc EXCEPT ![b] = label]
Image(b) == <<b, "image">>
Raw(b) == <<b, "raw">>
Target(b) == <<b, target[b]>>
FilesOf(b) == {b} \X {"image", "raw", "iso"}

\* The first statement of each backend; "none" ships the image as it is.
Entry(k, q) ==
  CASE k \in Mounting -> IF q THEN "convert" ELSE "attach"
    [] k = "packer"  -> "choose"
    [] k = "proxmox" -> "answer"
    [] OTHER -> "pack"

\* _prepare_workspace has copied the base image, whatever its format.
Start(b, p, system, provisioner, asks, q) ==
  LET k == Backend(system, provisioner, asks) IN
  /\ pc[b] = "idle"
  /\ \A o \in Bakes : process[o] = p => pc[o] \in Over
  /\ kind' = [kind EXCEPT ![b] = k]
  /\ process' = [process EXCEPT ![b] = p]
  /\ qcow2' = IF q THEN qcow2 \cup {b} ELSE qcow2
  /\ salted' = IF system = "linux" /\ provisioner = "salt" /\ asks
               THEN salted \cup {b} ELSE salted
  /\ dirs' = dirs \cup {b}
  /\ outcome' = IF k = "none" THEN [outcome EXCEPT ![b] = "skipped"] ELSE outcome
  /\ Goto(b, Entry(k, q))
  /\ UNCHANGED <<lo, mounted, step, target, repacks, kernel, loopQcow2, provisioned,
                 raws, published, kills>>

\* qemu-img convert to a raw copy: _attach_loop, for each of its callers, or
\* cloud_init before it calls it.
Convert(b) ==
  /\ pc[b] = "convert"
  /\ raws' = raws \cup {b}
  /\ Goto(b, "attach")
  /\ UNCHANGED <<local, lo, mounted, step, target, outcome, repacks, kernel, loopQcow2, dirs,
                 provisioned, published, kills>>

\* Mutant: a failing losetup is not noticed, and prints nothing.
AttachUnchecked(b, d) ==
  /\ pc[b] = "attach"
  /\ lo' = [lo EXCEPT ![b] = ""]
  /\ Goto(b, "wait")
  /\ UNCHANGED <<local, mounted, step, target, outcome, repacks, kernel, loopQcow2, files,
                 published, kills>>

\* losetup -f; cloud_init has converted the image itself, and makes no entry.
Attach(b, d) ==
  /\ pc[b] = "attach"
  /\ backing[d] = None
  /\ backing' = [backing EXCEPT ![d] = IF b \in qcow2 THEN Raw(b) ELSE Image(b)]
  /\ lo' = [lo EXCEPT ![b] = d]
  /\ loopQcow2' = IF b \in qcow2 /\ kind[b] # "cloud"
                  THEN [loopQcow2 EXCEPT ![process[b]][d] = b] ELSE loopQcow2
  /\ Goto(b, "wait")
  /\ UNCHANGED <<local, mounted, step, target, outcome, repacks, mounts, files, published, kills>>

ShowPartitions(b) ==
  /\ pc[b] = "wait"
  /\ Goto(b, "mount")
  /\ UNCHANGED <<local, lo, mounted, step, target, outcome, repacks, kernel, loopQcow2, files,
                 published, kills>>

\* _attach_loop raises after 40 attempts: its caller has no lo.
MissPartitions(b) ==
  /\ pc[b] = "wait"
  /\ lo' = [lo EXCEPT ![b] = None]
  /\ outcome' = [outcome EXCEPT ![b] = "missing"]
  /\ Goto(b, "unmount")
  /\ UNCHANGED <<local, mounted, step, target, repacks, kernel, loopQcow2, files, published, kills>>

\* local_salt lists the points of _bind_pseudo when it has mounted them all.
Listed(b, point) ==
  CASE kind[b] = "salt" /\ point \in {"dev", "pts"} -> mounted[b]
    [] kind[b] = "salt" /\ point = "proc" -> mounted[b] \o <<"dev", "pts", "proc">>
    [] OTHER -> Append(mounted[b], point)

\* The next mount; an image of local_salt may have no boot partition.
Mount(b) ==
  /\ pc[b] = "mount"
  /\ step[b] < Len(Plan[kind[b]])
  /\ LET point == Plan[kind[b]][step[b] + 1] IN
       \/ /\ mounts' = mounts \cup {<<b, point>>}
          /\ mounted' = [mounted EXCEPT ![b] = Listed(b, point)]
       \/ /\ kind[b] = "salt" /\ point = "boot"
          /\ UNCHANGED <<mounts, mounted>>
  /\ step' = [step EXCEPT ![b] = @ + 1]
  /\ Goto(b, IF step'[b] = Len(Plan[kind[b]]) THEN "apply" ELSE "mount")
  /\ UNCHANGED <<local, lo, target, outcome, repacks, backing, loopQcow2, files, published, kills>>

\* The states are applied to the file behind the device.
Apply(b) ==
  /\ pc[b] = "apply"
  /\ provisioned' = provisioned \cup {backing[lo[b]]}
  /\ outcome' = [outcome EXCEPT ![b] = "applied"]
  /\ Goto(b, "unmount")
  /\ UNCHANGED <<local, lo, mounted, step, target, repacks, kernel, loopQcow2, dirs, raws,
                 published, kills>>

\* No boot partition (haos, batocera) or no squashfs (batocera): return False.
Skip(b) ==
  /\ pc[b] = "mount"
  /\ \/ kind[b] = "haos"
     \/ kind[b] = "batocera" /\ step[b] \in {1, 2}
  /\ outcome' = [outcome EXCEPT ![b] = "skipped"]
  /\ Goto(b, "unmount")
  /\ UNCHANGED <<local, lo, mounted, step, target, repacks, kernel, loopQcow2, files, published,
                 kills>>

\* Mutant: an exception passes the finally clauses by.
RaisePastFinally(b) ==
  /\ pc[b] \in {"convert", "attach", "mount", "apply"}
  /\ outcome' = [outcome EXCEPT ![b] = "raised"]
  /\ Goto(b, "sweep")
  /\ UNCHANGED <<local, lo, mounted, step, target, repacks, kernel, loopQcow2, files, published,
                 kills>>

\* A command fails: convert, losetup, mount, or the salt run.
Raise(b) ==
  /\ pc[b] \in {"convert", "attach", "mount", "apply"}
  /\ outcome' = [outcome EXCEPT ![b] = "raised"]
  /\ Goto(b, "unmount")
  /\ UNCHANGED <<local, lo, mounted, step, target, repacks, kernel, loopQcow2, files, published,
                 kills>>

-----------------------------------------------------------------------------
(* The backends that run a tool and mount nothing *)

Skipped(b, from) ==
  /\ pc[b] = from
  /\ outcome' = [outcome EXCEPT ![b] = "skipped"]
  /\ Goto(b, "pack")
  /\ UNCHANGED <<local, lo, mounted, step, target, repacks, kernel, loopQcow2, files,
                 published, kills>>

\* packer_arm_tools: no preset for the system, not enabled, or no packer.
RefusePacker(b) == Skipped(b, "choose")

\* _prepare_packer_workspace, under the work dir.
PreparePacker(b) ==
  /\ pc[b] = "choose"
  /\ Goto(b, "build")
  /\ UNCHANGED <<local, lo, mounted, step, target, outcome, repacks, kernel, loopQcow2,
                 files, published, kills>>

\* packer build has downloaded an image of its own; its output takes the
\* place of the target image.
PackerBuild(b) ==
  /\ pc[b] = "build"
  /\ provisioned' = provisioned \cup {Image(b)}
  /\ outcome' = [outcome EXCEPT ![b] = "applied"]
  /\ Goto(b, "pack")
  /\ UNCHANGED <<local, lo, mounted, step, target, repacks, kernel, loopQcow2, dirs, raws,
                 published, kills>>

\* packer build succeeds without an output.img: return False.
PackerNoOutput(b) == Skipped(b, "build")

\* proxmox_autoinstall: the assistant is not in this worker.
NoAssistant(b) == Skipped(b, "answer")

\* answer.toml is valid, first-boot.sh is written.
Answer(b) ==
  /\ pc[b] = "answer"
  /\ Goto(b, "prepare")
  /\ UNCHANGED <<local, lo, mounted, step, target, outcome, repacks, kernel, loopQcow2,
                 files, published, kills>>

\* Mutant: the context keeps pointing at the installer it started from.
PrepareIsoBeside(b) ==
  /\ pc[b] = "prepare"
  /\ provisioned' = provisioned \cup {<<b, "iso">>}
  /\ outcome' = [outcome EXCEPT ![b] = "applied"]
  /\ Goto(b, "pack")
  /\ UNCHANGED <<local, lo, mounted, step, target, repacks, kernel, loopQcow2, dirs, raws,
                 published, kills>>

\* prepare-iso writes a second file, and the context is pointed at it.
PrepareIso(b) ==
  /\ pc[b] = "prepare"
  /\ provisioned' = provisioned \cup {<<b, "iso">>}
  /\ target' = [target EXCEPT ![b] = "iso"]
  /\ outcome' = [outcome EXCEPT ![b] = "applied"]
  /\ Goto(b, "pack")
  /\ UNCHANGED <<local, lo, mounted, step, repacks, kernel, loopQcow2, dirs, raws,
                 published, kills>>

\* A preset file is missing, the answer invalid, or the tool fails.
ToolFails(b) ==
  /\ pc[b] \in {"choose", "build", "answer", "prepare"}
  /\ outcome' = [outcome EXCEPT ![b] = "raised"]
  /\ Goto(b, "sweep")
  /\ UNCHANGED <<local, lo, mounted, step, target, repacks, kernel, loopQcow2, files,
                 published, kills>>

-----------------------------------------------------------------------------
(* The finally clauses *)

\* Mutant: umount -f, which leaves a mount that has others inside.
UnmountPlain(b) ==
  /\ pc[b] = "unmount"
  /\ mounted[b] # <<>>
  /\ mounts' = IF mounts \cap ({b} \X Inside(kind[b], Last(mounted[b]))) = {}
               THEN mounts \ {<<b, Last(mounted[b])>>} ELSE mounts
  /\ mounted' = [mounted EXCEPT ![b] = Front(@)]
  /\ UNCHANGED <<pc, local, lo, step, target, outcome, repacks, backing, loopQcow2, files,
                 published, kills>>

\* umount -lf takes the mounts inside along.
Unmount(b) ==
  /\ pc[b] = "unmount"
  /\ mounted[b] # <<>>
  /\ LET point == Last(mounted[b]) IN
       mounts' = mounts \ ({b} \X ({point} \cup Inside(kind[b], point)))
  /\ mounted' = [mounted EXCEPT ![b] = Front(@)]
  /\ UNCHANGED <<pc, local, lo, step, target, outcome, repacks, backing, loopQcow2, files,
                 published, kills>>

Returned(b) == IF outcome[b] = "raised" THEN "sweep" ELSE "pack"

\* Mutant: _detach_loop leaves the entry of the device in the dictionary.
DetachKeepEntry(b) ==
  /\ pc[b] = "unmount"
  /\ mounted[b] = <<>>
  /\ lo[b] # None
  /\ backing' = [backing EXCEPT ![lo[b]] = None]
  /\ lo' = [lo EXCEPT ![b] = None]
  /\ repacks' = [repacks EXCEPT ![b] = loopQcow2[process[b]][lo[b]]]
  /\ Goto(b, IF repacks'[b] # None THEN "repack" ELSE Returned(b))
  /\ UNCHANGED <<local, mounted, step, target, outcome, mounts, loopQcow2, files, published, kills>>

\* Mutant: losetup -d as in batocera_pkg, for every backend.
DetachOnly(b) ==
  /\ pc[b] = "unmount"
  /\ mounted[b] = <<>>
  /\ lo[b] # None
  /\ backing' = [backing EXCEPT ![lo[b]] = None]
  /\ lo' = [lo EXCEPT ![b] = None]
  /\ Goto(b, Returned(b))
  /\ UNCHANGED <<local, mounted, step, target, outcome, repacks, mounts, loopQcow2, files,
                 published, kills>>

\* The bake whose raw copy is packed back: the one of the device's entry in
\* _detach_loop (local_salt, haos_pkg); cloud_init packs its own copy, unless it
\* is raising; batocera_pkg calls losetup -d itself and packs nothing.
Packs(b) ==
  CASE kind[b] \in {"salt", "haos"} -> loopQcow2[process[b]][lo[b]]
    [] kind[b] = "cloud" /\ b \in qcow2 /\ outcome[b] # "raised" -> b
    [] OTHER -> None

\* losetup -d; _detach_loop takes the device's entry out of the dictionary.
Detach(b) ==
  /\ pc[b] = "unmount"
  /\ mounted[b] = <<>>
  /\ lo[b] # None
  /\ backing' = [backing EXCEPT ![lo[b]] = None]
  /\ lo' = [lo EXCEPT ![b] = None]
  /\ loopQcow2' = IF kind[b] \in {"salt", "haos"}
                  THEN [loopQcow2 EXCEPT ![process[b]][lo[b]] = None] ELSE loopQcow2
  /\ repacks' = [repacks EXCEPT ![b] = Packs(b)]
  /\ Goto(b, IF Packs(b) # None THEN "repack" ELSE Returned(b))
  /\ UNCHANGED <<local, mounted, step, target, outcome, mounts, files, published, kills>>

\* There is no lo to detach.
Leave(b) ==
  /\ pc[b] = "unmount"
  /\ mounted[b] = <<>>
  /\ lo[b] = None
  /\ Goto(b, "sweep")
  /\ UNCHANGED <<local, lo, mounted, step, target, outcome, repacks, kernel, loopQcow2, files,
                 published, kills>>

\* qemu-img convert back to the qcow2 image, and removal of the raw copy.
Repack(b) ==
  LET r == repacks[b] IN
  /\ pc[b] = "repack"
  /\ r \in raws
  /\ provisioned' = IF Raw(r) \in provisioned THEN provisioned \cup {Image(r)}
                    ELSE provisioned
  /\ raws' = raws \ {r}
  /\ Goto(b, Returned(b))
  /\ UNCHANGED <<local, lo, mounted, step, target, outcome, repacks, kernel, loopQcow2, dirs,
                 published, kills>>

\* No space, or no raw copy: the finally clause itself raises.
FailRepack(b) ==
  /\ pc[b] = "repack"
  /\ outcome' = [outcome EXCEPT ![b] = "raised"]
  /\ Goto(b, "sweep")
  /\ UNCHANGED <<local, lo, mounted, step, target, repacks, kernel, loopQcow2, files, published,
                 kills>>

\* _pack and _publish (BuildLifecycle has their steps), or their failure.
PackAndPublish(b) ==
  /\ pc[b] = "pack"
  /\ \/ published' = [published EXCEPT ![b] =
                        IF Target(b) \in provisioned THEN "provisioned" ELSE "upstream"]
     \/ UNCHANGED published
  /\ Goto(b, "sweep")
  /\ UNCHANGED <<local, lo, mounted, step, target, outcome, repacks, kernel, loopQcow2, files,
                 kills>>

\* rmtree of the work dir, in bake's finally clause.
Sweep(b) ==
  /\ pc[b] = "sweep"
  /\ dirs' = dirs \ {b}
  /\ raws' = raws \ {b}
  /\ provisioned' = provisioned \ FilesOf(b)
  /\ Goto(b, "over")
  /\ UNCHANGED <<local, lo, mounted, step, target, outcome, repacks, kernel, loopQcow2, published,
                 kills>>

\* A pool process is killed; its successor has an empty dictionary.
Kill(b) ==
  /\ pc[b] \notin Over
  /\ kills < MaxKills
  /\ kills' = kills + 1
  /\ loopQcow2' = [loopQcow2 EXCEPT ![process[b]] = [d \in Devices |-> None]]
  /\ Goto(b, "killed")
  /\ UNCHANGED <<local, lo, mounted, step, target, outcome, repacks, kernel, files, published>>

BakeStep(b) ==
  \/ Convert(b) \/ (\E d \in Devices : Attach(b, d))
  \/ ShowPartitions(b) \/ MissPartitions(b)
  \/ Mount(b) \/ Apply(b) \/ Skip(b) \/ Raise(b)
  \/ Unmount(b) \/ Detach(b) \/ Leave(b) \/ Repack(b) \/ FailRepack(b)
  \/ RefusePacker(b) \/ PreparePacker(b) \/ PackerBuild(b) \/ PackerNoOutput(b)
  \/ NoAssistant(b) \/ Answer(b) \/ PrepareIso(b) \/ ToolFails(b)
  \/ PackAndPublish(b) \/ Sweep(b)

Next ==
  \/ \E b \in Bakes, p \in Processes, system \in Systems, provisioner \in Provisioners,
       asks, q \in BOOLEAN : Start(b, p, system, provisioner, asks, q)
  \/ \E b \in Bakes : BakeStep(b) \/ Kill(b)

Spec == Init /\ [][Next]_vars

-----------------------------------------------------------------------------

\* A loop device has a file of a bake behind it exactly as long as that bake will
\* detach it, on every way through the finally clauses but the one that starts in
\* _attach_loop (LoopReleased), unless its process is killed.
LoopHeld ==
  \A d \in Devices, b \in Bakes :
    pc[b] # "killed" /\ outcome[b] # "missing" =>
      (lo[b] = d /\ pc[b] # "over" <=> backing[d] \in {Image(b), Raw(b)})

\* A bake that has ended holds no device ("mounts + the loop device are always torn
\* down, even on failure", local_salt.py).  Fails when the partitions are missing:
\* provision has not been given the device that _attach_loop has attached.
LoopReleased ==
  \A d \in Devices, b \in Bakes : pc[b] = "over" => backing[d] \notin {Image(b), Raw(b)}

\* An entry of _LOOP_QCOW2 is of the raw copy behind its device, or a batocera bake
\* has left it there; and a bake that finds such an entry under its own device has
\* no raw copy to convert: it fails, and packs no other one's copy.
EntryMatches ==
  /\ \A p \in Processes, d \in Devices, b \in Bakes :
       loopQcow2[p][d] = b => backing[d] = Raw(b) \/ kind[b] = "batocera"
  /\ \A b \in Bakes : pc[b] = "repack" => repacks[b] = b \/ repacks[b] \notin raws

\* bake's rmtree never descends into a mount, /dev of the worker among them,
\* also when a bind mount failed half way and is on no list (_bind_pseudo).
MountsInWorkDirs == \A m \in mounts : m[1] \in dirs

\* batocera_pkg leaves what it applied in the raw copy of a qcow2 image.
LeftInRaw(b) == kind[b] = "batocera" /\ b \in qcow2

\* What is published holds what a successful provisioner applied, also to a raw copy
\* or a second file, but for a qcow2 image of batocera, which goes out as it came;
\* what is not provisioned was skipped, and a failure is not published.
AppliedIsPublished ==
  \A b \in Bakes :
    published[b] # None =>
      \/ outcome[b] = "applied" /\ published[b] = (IF LeftInRaw(b) THEN "upstream" ELSE "provisioned")
      \/ outcome[b] = "skipped" /\ published[b] = "upstream"

\* A build that Salt provisions, and that has states or asks for a minion, is never
\* published as the plain upstream image: a backend that may decline, as the legacy
\* packer-arm-tools does for three reasons, is not on its way (_mount_and_provision).
SaltedIsApplied == \A b \in salted : published[b] # "upstream"

=============================================================================
