------------------------ MODULE Provisioning_proofs ------------------------
(***************************************************************************)
(* What local_salt, haos_pkg, cloud_init and batocera_pkg promise about    *)
(* loop devices, mounts and the file that is published, for any number of  *)
(* bakes, pool processes and devices.                                      *)
(*                                                                         *)
(* The inductive invariant has six parts.  Flow says of each bake which    *)
(* of its variables are set at which statement; Loops ties its variable lo *)
(* to the device behind it and to the entry of _LOOP_QCOW2, which outlives *)
(* the device after a batocera bake; Own says that a bake packs its own    *)
(* copy, or one that was swept; Content follows the provisioned file       *)
(* through the raw copy; Covered says that every mount is on the list that *)
(* the finally clause unwinds, or inside one that is.                      *)
(***************************************************************************)
EXTENDS Provisioning, TLAPS

\* The file behind the device of a bake.
Behind(b) == IF b \in qcow2 THEN Raw(b) ELSE Image(b)

Tools == {"choose", "build", "answer", "prepare"}
Mounters == {"convert", "attach", "wait", "mount", "apply"}
Before == {"idle"} \cup Tools \cup Mounters

Flow(b) ==
  /\ pc[b] = "idle" => kind[b] = None /\ b \notin qcow2
  /\ pc[b] # "idle" => process[b] \in Processes
  /\ pc[b] \in Mounters \cup {"unmount", "repack"} => kind[b] \in Mounting
  /\ pc[b] \in {"choose", "build"} => kind[b] = "packer"
  /\ pc[b] \in {"answer", "prepare"} => kind[b] = "proxmox"
  /\ b \in salted => kind[b] = "salt" /\ outcome[b] # "skipped"
  /\ pc[b] \notin {"idle", "over"} => b \in dirs
  /\ pc[b] \in Before => outcome[b] = None
  /\ pc[b] \in Before \cup {"unmount", "repack"} => target[b] = "image"
  /\ pc[b] \in Before \cup {"unmount", "repack", "pack"} => published[b] = None
  /\ pc[b] = "unmount" => outcome[b] # None
  /\ pc[b] = "repack" => /\ outcome[b] \in {"applied", "skipped", "raised"}
                         /\ kind[b] # "batocera"
  /\ kind[b] # "proxmox" => target[b] = "image"
  /\ b \in raws => pc[b] \notin {"idle", "over"}
  /\ pc[b] = "pack" => outcome[b] \in {"applied", "skipped"}
  /\ pc[b] \in {"idle", "convert", "attach", "wait"} => step[b] = 0
  /\ outcome[b] = "missing" => lo[b] = None
  /\ pc[b] \in {"wait", "mount", "apply"} => lo[b] # None
  /\ pc[b] = "unmount" /\ outcome[b] = "applied" => lo[b] # None
  /\ pc[b] \notin {"wait", "mount", "apply", "unmount", "killed"} => lo[b] = None

Holds(b) == \A d \in Devices : lo[b] = d /\ pc[b] # "killed" => backing[d] = Behind(b)
Held(b) ==
  \A d \in Devices :
    backing[d] \in {Image(b), Raw(b)} /\ pc[b] # "killed" /\ outcome[b] # "missing" => lo[b] = d
\* What a batocera bake has left in the dictionary.
Done == {"pack", "sweep", "over"}
Stale(b) == kind[b] = "batocera" /\ pc[b] \in Done

Entries(b) ==
  \A p \in Processes, d \in Devices :
    loopQcow2[p][d] = b => /\ process[b] = p /\ pc[b] # "idle" /\ b \in qcow2
                           /\ kind[b] \in {"salt", "haos", "batocera"}
                           /\ backing[d] = Raw(b) \/ Stale(b)
Entered(b) ==
  b \in qcow2 /\ kind[b] \in {"salt", "haos"} /\ lo[b] # None /\ pc[b] # "killed"
    => loopQcow2[process[b]][lo[b]] = b
Alone(b) ==
  \A o \in Bakes : o # b /\ pc[b] \notin Over /\ pc[o] \notin Over => process[b] # process[o]

\* A bake packs its own copy, or is sent after one that has gone with its bake.
Own(b) ==
  pc[b] = "repack" => \/ repacks[b] = b /\ b \in qcow2
                      \/ repacks[b] \in Bakes \ {b} /\ pc[repacks[b]] = "over"

Loops(b) == Holds(b) /\ Held(b) /\ Entries(b) /\ Entered(b) /\ Alone(b)

Content(b) ==
  /\ outcome[b] \in {None, "skipped"} => \A f \in {"image", "raw", "iso"} : <<b, f>> \notin provisioned
  /\ LeftInRaw(b) => Image(b) \notin provisioned
  /\ outcome[b] = "applied" =>
       /\ pc[b] \in {"unmount", "repack"} => Behind(b) \in provisioned
       /\ pc[b] = "pack" /\ ~LeftInRaw(b) => Target(b) \in provisioned
  /\ published[b] # None =>
       \/ outcome[b] = "applied" /\ published[b] = (IF LeftInRaw(b) THEN "upstream" ELSE "provisioned")
       \/ outcome[b] = "skipped" /\ published[b] = "upstream"

Covered(b) ==
  /\ \A q \in Points :
       <<b, q>> \in mounts =>
         /\ pc[b] \in {"mount", "apply", "unmount", "killed"}
         /\ pc[b] = "killed" \/ \E m \in Range(mounted[b]) : q = m \/ q \in Inside(kind[b], m)
  /\ pc[b] = "mount" /\ kind[b] = "salt" /\ step[b] # 0 => "root" \in Range(mounted[b])

IInv ==
  /\ TypeOK
  /\ \A b \in Bakes : Flow(b)
  /\ \A b \in Bakes : Loops(b)
  /\ \A b \in Bakes : Own(b)
  /\ \A b \in Bakes : Content(b)
  /\ \A b \in Bakes : Covered(b)

Begins(b) ==
  \E p \in Processes, system \in Systems, provisioner \in Provisioners, asks, q \in BOOLEAN :
    Start(b, p, system, provisioner, asks, q)
Acts(b) == Begins(b) \/ BakeStep(b) \/ Kill(b)

-----------------------------------------------------------------------------

LEMMA ByBake == ASSUME Next PROVE \E b \in Bakes : Acts(b)
  BY DEF Next, Acts, Begins

\* What the actions of a bake that run a tool or only move on have in common.
Rest(b) ==
  \/ Convert(b) \/ ShowPartitions(b) \/ MissPartitions(b) \/ Skip(b) \/ Raise(b)
  \/ Leave(b) \/ FailRepack(b) \/ RefusePacker(b) \/ PreparePacker(b) \/ PackerNoOutput(b)
  \/ NoAssistant(b) \/ Answer(b) \/ ToolFails(b) \/ PackAndPublish(b)

LEMMA Cases ==
  ASSUME NEW b \in Bakes, Acts(b)
  PROVE  \/ Begins(b) \/ (\E d \in Devices : Attach(b, d)) \/ Mount(b) \/ Apply(b) \/ Unmount(b)
         \/ Detach(b) \/ Repack(b) \/ PackerBuild(b) \/ PrepareIso(b) \/ Sweep(b) \/ Kill(b)
         \/ Rest(b)
  BY DEF Acts, BakeStep, Rest

LEMMA BackendKinds ==
  ASSUME NEW system \in Systems, NEW provisioner \in Provisioners, NEW asks \in BOOLEAN
  PROVE  /\ Backend(system, provisioner, asks) \in Kinds
         /\ Backend(system, provisioner, asks) = "salt"
              <=> system = "linux" /\ provisioner = "salt" /\ asks
  BY DEF Backend, Kinds, Mounting, Systems, Provisioners

LEMMA PlanPoints ==
  ASSUME NEW k \in Mounting
  PROVE  /\ Plan[k] \in Seq(Points) /\ Len(Plan[k]) \in 1 .. 8
         /\ k = "salt" => Plan[k] = SaltPlan
         /\ {"dev", "pts", "proc", "root", "boot"} \subseteq Points
PROOF
<1>1. SaltPlan \in Seq(Range(SaltPlan)) /\ HaosPlan \in Seq(Range(HaosPlan))
      /\ CloudPlan \in Seq(Range(CloudPlan)) /\ BatoceraPlan \in Seq(Range(BatoceraPlan))
  BY DEF SaltPlan, HaosPlan, CloudPlan, BatoceraPlan, Range
<1>2. Plan["salt"] = SaltPlan /\ Plan["haos"] = HaosPlan /\ Plan["cloud"] = CloudPlan
      /\ Plan["batocera"] = BatoceraPlan
  BY DEF Plan
<1>3. \A m \in Mounting : Range(Plan[m]) \subseteq Points
  BY DEF Points
<1>4. Plan[k] \in Seq(Range(Plan[k]))
  BY <1>1, <1>2 DEF Mounting
<1>5. Plan[k] \in Seq(Points)
  BY <1>3, <1>4
<1>6. Len(Plan[k]) \in 1 .. 8
  <2>1. Len(SaltPlan) = 5 /\ Len(HaosPlan) = 1 /\ Len(CloudPlan) = 1 /\ Len(BatoceraPlan) = 8
    BY DEF SaltPlan, HaosPlan, CloudPlan, BatoceraPlan
  <2> QED BY <1>2, <2>1 DEF Mounting
<1>7. {"dev", "pts", "proc", "root", "boot"} \subseteq Range(SaltPlan)
  <2>1. 1 \in DOMAIN SaltPlan /\ 2 \in DOMAIN SaltPlan /\ 3 \in DOMAIN SaltPlan
        /\ 4 \in DOMAIN SaltPlan /\ 5 \in DOMAIN SaltPlan
    BY DEF SaltPlan
  <2>2. SaltPlan[1] = "root" /\ SaltPlan[2] = "boot" /\ SaltPlan[3] = "dev" /\ SaltPlan[4] = "pts"
        /\ SaltPlan[5] = "proc"
    BY DEF SaltPlan
  <2> QED BY <2>1, <2>2 DEF Range
<1>8. "salt" \in Mounting
  BY DEF Mounting
<1> QED BY <1>2, <1>3, <1>5, <1>6, <1>7, <1>8

LEMMA LastIn ==
  ASSUME NEW s \in Seq(Points), s # <<>>
  PROVE  /\ Front(s) \in Seq(Points) /\ Last(s) \in Points
         /\ \A m \in Range(s) : m = Last(s) \/ m \in Range(Front(s))
PROOF
<1>1. Len(s) \in Nat /\ Len(s) >= 1 /\ DOMAIN s = 1 .. Len(s)
  OBVIOUS
<1>2. Front(s) \in Seq(Points) /\ Len(Front(s)) = Len(s) - 1
      /\ \A i \in 1 .. Len(s) - 1 : Front(s)[i] = s[i]
  BY <1>1 DEF Front
<1>3. Last(s) = s[Len(s)] /\ s[Len(s)] \in Points
  BY <1>1 DEF Last
<1>4. DOMAIN Front(s) = 1 .. Len(s) - 1
  BY <1>2
<1>5. ASSUME NEW i \in 1 .. Len(s)
      PROVE  s[i] = Last(s) \/ s[i] \in Range(Front(s))
  <2>1. CASE i = Len(s)
    BY <2>1, <1>3
  <2>2. CASE i # Len(s)
    <3>1. i \in 1 .. Len(s) - 1
      BY <2>2, Len(s) \in Nat
    <3> QED BY <3>1, <1>2, <1>4 DEF Range
  <2> QED BY <2>1, <2>2
<1> QED BY <1>1, <1>2, <1>3, <1>5 DEF Range

LEMMA RangeGrows ==
  ASSUME NEW s \in Seq(Points), NEW t \in Seq(Points)
  PROVE  /\ s \o t \in Seq(Points)
         /\ Range(s) \subseteq Range(s \o t) /\ Range(t) \subseteq Range(s \o t)
PROOF
<1>1. Len(s) \in Nat /\ Len(t) \in Nat /\ DOMAIN s = 1 .. Len(s) /\ DOMAIN t = 1 .. Len(t)
  OBVIOUS
<1>2. s \o t \in Seq(Points) /\ Len(s \o t) = Len(s) + Len(t)
      /\ DOMAIN (s \o t) = 1 .. Len(s) + Len(t)
  OBVIOUS
<1>3. \A i \in 1 .. Len(s) : (s \o t)[i] = s[i] /\ i \in 1 .. Len(s) + Len(t)
  BY <1>1
<1>4. \A i \in 1 .. Len(t) : (s \o t)[Len(s) + i] = t[i] /\ Len(s) + i \in 1 .. Len(s) + Len(t)
  BY <1>1
<1>5. Range(s) \subseteq Range(s \o t)
  BY <1>1, <1>2, <1>3 DEF Range
<1>6. Range(t) \subseteq Range(s \o t)
  BY <1>1, <1>2, <1>4 DEF Range
<1> QED BY <1>2, <1>5, <1>6

LEMMA Nothing ==
  /\ None \notin Bakes /\ None \notin Processes /\ None \notin Devices
  /\ \A b \in Bakes : None # Image(b) /\ None # Raw(b)
  /\ None \notin Kinds
  /\ None \notin {"applied", "skipped", "raised", "missing"}
  /\ None \notin {"upstream", "provisioned"}
  BY NothingAssumption DEF Files, Image, Raw, Outcomes, Publications

-----------------------------------------------------------------------------
(* Types *)

\* The part of TypeOK whose variables hold one value for each bake.
LEMMA TypesStep ==
  ASSUME TypeOK, NEW b \in Bakes, Flow(b), Loops(b), Acts(b)
  PROVE  TypeOK'
PROOF
<1> USE DEF TypeOK, Goto, local, kernel, files, Labels, Over, Outcomes, Publications
<1>1. CASE Begins(b)
  <2> PICK p \in Processes, system \in Systems, provisioner \in Provisioners, asks \in BOOLEAN,
           q \in BOOLEAN : Start(b, p, system, provisioner, asks, q)
    BY <1>1 DEF Begins
  <2> DEFINE k == Backend(system, provisioner, asks)
  <2>1. k \in Kinds
    BY BackendKinds
  <2>2. Entry(k, q) \in Labels
    BY <2>1 DEF Entry, Kinds, Mounting
  <2> HIDE DEF k
  <2>3. /\ kind' = [kind EXCEPT ![b] = k] /\ process' = [process EXCEPT ![b] = p]
        /\ pc' = [pc EXCEPT ![b] = Entry(k, q)]
        /\ qcow2' \subseteq qcow2 \cup {b} /\ salted' \subseteq salted \cup {b} /\ dirs' = dirs \cup {b}
        /\ outcome' = IF k = "none" THEN [outcome EXCEPT ![b] = "skipped"] ELSE outcome
        /\ UNCHANGED <<lo, mounted, step, target, repacks, kernel, loopQcow2, provisioned,
                       raws, published, kills>>
    BY DEF Start, k
  <2> QED BY <2>1, <2>2, <2>3
<1>2. CASE \E d \in Devices : Attach(b, d)
  <2> PICK d \in Devices : Attach(b, d)
    BY <1>2
  <2>1. process[b] \in Processes /\ Image(b) \in Files /\ Raw(b) \in Files
    BY DEF Attach, Flow, Image, Raw, Files
  <2>2. backing' \in [Devices -> Files \cup {None}]
    BY <2>1 DEF Attach
  <2>3. loopQcow2' \in [Processes -> [Devices -> Bakes \cup {None}]]
    BY <2>1 DEF Attach
  <2> QED BY <2>2, <2>3 DEF Attach
<1>3. CASE Mount(b)
  <2>1. kind[b] \in Mounting
    BY <1>3 DEF Mount, Flow, Mounters
  <2> DEFINE plan == Plan[kind[b]]  n == step[b] + 1  point == plan[n]
  <2>2. /\ plan \in Seq(Points) /\ Len(plan) \in 1 .. 8 /\ {"dev", "pts", "proc"} \subseteq Points
    BY <2>1, PlanPoints
  <2> HIDE DEF plan
  <2>3. n \in 1 .. Len(plan) /\ n \in 0 .. 8
    <3>1. step[b] \in 0 .. 8 /\ step[b] < Len(plan)
      BY <1>3 DEF Mount, plan
    <3>2. ASSUME NEW i \in 0 .. 8, NEW l \in 1 .. 8, i < l
          PROVE  i + 1 \in 1 .. l /\ i + 1 \in 0 .. 8
      BY <3>2
    <3> QED BY <3>1, <3>2, <2>2
  <2>4. point \in Points
    BY <2>2, <2>3
  <2> HIDE DEF point
  <2>5. mounted[b] \in Seq(Points)
    OBVIOUS
  <2>6. Listed(b, point) \in Seq(Points)
    BY <2>2, <2>4, <2>5 DEF Listed
  <2>7. /\ step' = [step EXCEPT ![b] = n]
        /\ pc' = [pc EXCEPT ![b] = "apply"] \/ pc' = [pc EXCEPT ![b] = "mount"]
        /\ \/ mounts' = mounts \cup {<<b, point>>} /\ mounted' = [mounted EXCEPT ![b] = Listed(b, point)]
           \/ UNCHANGED <<mounts, mounted>>
        /\ UNCHANGED <<local, lo, target, outcome, repacks, backing, loopQcow2, files, published, kills>>
    BY <1>3 DEF Mount, plan, point
  <2> HIDE DEF n
  <2>8. mounts' \subseteq Bakes \X Points
    BY <2>4, <2>7
  <2>9. mounted' \in [Bakes -> Seq(Points)]
    BY <2>6, <2>7
  <2>10. step' \in [Bakes -> 0 .. 8] /\ pc' \in [Bakes -> Labels]
    BY <2>3, <2>7
  <2> QED BY <2>7, <2>8, <2>9, <2>10
<1>4. CASE Apply(b)
  <2>1. lo[b] \in Devices
    BY <1>4 DEF Apply, Flow
  <2>2. backing[lo[b]] \in Files
    BY <1>4, <2>1 DEF Apply, Loops, Holds, Behind, Image, Raw, Files
  <2> QED BY <1>4, <2>2 DEF Apply
<1>5. CASE Unmount(b)
  <2>1. Front(mounted[b]) \in Seq(Points)
    BY <1>5, LastIn DEF Unmount
  <2> QED BY <1>5, <2>1 DEF Unmount
<1>6. CASE Detach(b)
  <2>1. lo[b] \in Devices /\ process[b] \in Processes
    BY <1>6 DEF Detach, Flow
  <2>2. Packs(b) \in Bakes \cup {None}
    BY <2>1 DEF Packs
  <2>3. loopQcow2' \in [Processes -> [Devices -> Bakes \cup {None}]]
    BY <1>6, <2>1 DEF Detach
  <2> QED BY <1>6, <2>1, <2>2, <2>3 DEF Detach, Returned
<1>7. CASE Repack(b)
  <2>1. raws' \subseteq raws
    BY <1>7 DEF Repack
  <2>2. provisioned' \subseteq Files
    BY <1>7 DEF Repack, Image, Raw, Files
  <2> QED BY <1>7, <2>1, <2>2 DEF Repack, Returned
<1>8. CASE PackerBuild(b)
  BY <1>8 DEF PackerBuild, Image, Files
<1>9. CASE PrepareIso(b)
  BY <1>9 DEF PrepareIso, Files
<1>10. CASE Sweep(b)
  BY <1>10 DEF Sweep
<1>11. CASE Kill(b)
  <2>1. process[b] \in Processes /\ kills + 1 \in 0 .. MaxKills
    BY <1>11, LimitAssumption DEF Kill, Flow
  <2> QED BY <1>11, <2>1 DEF Kill
<1>12. CASE Rest(b)
  <2>1. CASE Convert(b) \/ ShowPartitions(b) \/ MissPartitions(b) \/ Skip(b) \/ Raise(b)
    BY <2>1 DEF Convert, ShowPartitions, MissPartitions, Skip, Raise
  <2>2. CASE Leave(b) \/ FailRepack(b) \/ RefusePacker(b) \/ PreparePacker(b) \/ PackerNoOutput(b)
    BY <2>2 DEF Leave, FailRepack, RefusePacker, PreparePacker, PackerNoOutput, Skipped
  <2>3. CASE NoAssistant(b) \/ Answer(b) \/ ToolFails(b) \/ PackAndPublish(b)
    BY <2>3 DEF NoAssistant, Answer, ToolFails, PackAndPublish, Skipped
  <2> QED BY <1>12, <2>1, <2>2, <2>3 DEF Rest
<1> QED BY Cases, <1>1, <1>2, <1>3, <1>4, <1>5, <1>6, <1>7, <1>8, <1>9, <1>10, <1>11, <1>12


-----------------------------------------------------------------------------
(* Which variable is set at which statement *)

Same(o) ==
  /\ pc'[o] = pc[o] /\ kind'[o] = kind[o] /\ process'[o] = process[o] /\ lo'[o] = lo[o]
  /\ mounted'[o] = mounted[o] /\ step'[o] = step[o] /\ target'[o] = target[o]
  /\ outcome'[o] = outcome[o] /\ repacks'[o] = repacks[o] /\ published'[o] = published[o]
  /\ o \in qcow2' <=> o \in qcow2
  /\ o \in salted' <=> o \in salted
  /\ o \in dirs' <=> o \in dirs
  /\ o \in raws' => o \in raws

\* A step of a bake leaves the variables of the others alone.
LEMMA OthersStay ==
  ASSUME TypeOK, NEW b \in Bakes, NEW o \in Bakes, o # b, Acts(b)
  PROVE  Same(o)
PROOF
<1> USE DEF TypeOK, Same, Goto, local, kernel, files
<1>1. CASE Begins(b)
  BY <1>1 DEF Begins, Start
<1>2. CASE (\E d \in Devices : Attach(b, d)) \/ Mount(b) \/ Apply(b) \/ Unmount(b)
  BY <1>2 DEF Attach, Mount, Apply, Unmount
<1>3. CASE Detach(b) \/ Repack(b) \/ PackerBuild(b) \/ PrepareIso(b) \/ Sweep(b) \/ Kill(b)
  BY <1>3 DEF Detach, Repack, PackerBuild, PrepareIso, Sweep, Kill
<1>4. CASE Rest(b)
  <2>1. CASE Convert(b) \/ ShowPartitions(b) \/ MissPartitions(b) \/ Skip(b) \/ Raise(b)
    BY <2>1 DEF Convert, ShowPartitions, MissPartitions, Skip, Raise
  <2>2. CASE Leave(b) \/ FailRepack(b) \/ RefusePacker(b) \/ PreparePacker(b) \/ PackerNoOutput(b)
    BY <2>2 DEF Leave, FailRepack, RefusePacker, PreparePacker, PackerNoOutput, Skipped
  <2>3. CASE NoAssistant(b) \/ Answer(b) \/ ToolFails(b) \/ PackAndPublish(b)
    BY <2>3 DEF NoAssistant, Answer, ToolFails, PackAndPublish, Skipped
  <2> QED BY <1>4, <2>1, <2>2, <2>3 DEF Rest
<1> QED BY Cases, <1>1, <1>2, <1>3, <1>4

LEMMA FlowOthers ==
  ASSUME NEW o \in Bakes, Same(o), Flow(o)
  PROVE  Flow(o)'
  BY DEF Same, Flow

\* The raw copy that _detach_loop finds in the dictionary is the bake's own, or one
\* that a batocera bake of the process has left; that one is over.
LEMMA OwnCopy ==
  ASSUME TypeOK, \A o \in Bakes : Loops(o), NEW b \in Bakes, Flow(b), Detach(b), Packs(b) # None
  PROVE  /\ kind[b] # "batocera"
         /\ \/ Packs(b) = b /\ b \in qcow2
            \/ Packs(b) \in Bakes \ {b} /\ pc[Packs(b)] = "over"
PROOF
<1>1. lo[b] \in Devices /\ process[b] \in Processes /\ pc[b] = "unmount"
  BY DEF Detach, Flow, TypeOK
<1>2. backing[lo[b]] = Behind(b)
  BY <1>1 DEF Loops, Holds
<1>3. CASE kind[b] \in {"salt", "haos"}
  <2> DEFINE r == loopQcow2[process[b]][lo[b]]
  <2>1. r = Packs(b) /\ r \in Bakes
    BY <1>1, <1>3 DEF Packs, TypeOK
  <2>2. process[r] = process[b] /\ r \in qcow2 /\ (backing[lo[b]] = Raw(r) \/ Stale(r))
    BY <1>1, <2>1 DEF Loops, Entries
  <2> HIDE DEF r
  <2>3. CASE r = b
    BY <1>3, <2>1, <2>2, <2>3
  <2>4. CASE r # b
    <3>1. Stale(r)
      BY <1>2, <2>2, <2>4 DEF Behind, Raw, Image
    <3>2. pc[r] \in Over
      BY <1>1, <2>1, <2>2, <2>4 DEF Loops, Alone, Over
    <3> QED BY <1>3, <2>1, <2>4, <3>1, <3>2 DEF Stale, Done, Over
  <2> QED BY <2>3, <2>4
<1>4. CASE kind[b] \notin {"salt", "haos"}
  BY <1>4 DEF Packs
<1> QED BY <1>3, <1>4

LEMMA FlowStep ==
  ASSUME TypeOK, \A o \in Bakes : Loops(o), NEW b \in Bakes, Flow(b), Acts(b)
  PROVE  Flow(b)'
PROOF
<1> USE Nothing DEF Goto, local, kernel, files, Outcomes, Tools, Mounters, Before
<1>1. CASE Begins(b)
  <2> PICK p \in Processes, system \in Systems, provisioner \in Provisioners, asks \in BOOLEAN,
           q \in BOOLEAN : Start(b, p, system, provisioner, asks, q)
    BY <1>1 DEF Begins
  <2> DEFINE k == Backend(system, provisioner, asks)
  <2>1. /\ k \in Kinds
        /\ k = "salt" <=> system = "linux" /\ provisioner = "salt" /\ asks
    BY BackendKinds
  <2>2. b \notin salted /\ b \notin qcow2 /\ outcome[b] = None /\ target[b] = "image"
        /\ published[b] = None /\ step[b] = 0 /\ lo[b] = None /\ b \notin raws
    BY DEF Start, Flow, Kinds, Mounting
  <2> HIDE DEF k
  <2>3. /\ kind'[b] = k /\ process'[b] = p /\ pc'[b] = Entry(k, q)
        /\ b \in qcow2' <=> q
        /\ b \in salted' <=> k = "salt"
        /\ b \in dirs'
        /\ outcome'[b] = IF k = "none" THEN "skipped" ELSE None
        /\ UNCHANGED <<lo, step, target, repacks, published, raws>>
    BY <2>1, <2>2 DEF Start, k, TypeOK
  <2>4. \/ k \in Mounting /\ pc'[b] \in {"convert", "attach"}
        \/ k = "packer" /\ pc'[b] = "choose"
        \/ k = "proxmox" /\ pc'[b] = "answer"
        \/ k = "none" /\ pc'[b] = "pack"
    BY <2>1, <2>3 DEF Entry, Kinds, Mounting
  <2> QED BY <2>2, <2>3, <2>4 DEF Flow, Mounting
<1>2. CASE \E d \in Devices : Attach(b, d)
  BY <1>2 DEF Attach, TypeOK, Flow
<1>3. CASE Mount(b)
  BY <1>3 DEF Mount, TypeOK, Flow
<1>4. CASE Apply(b)
  BY <1>4 DEF Apply, TypeOK, Flow
<1>5. CASE Unmount(b)
  BY <1>5 DEF Unmount, TypeOK, Flow
<1>6. CASE Detach(b)
  <2>1. Packs(b) # None => kind[b] # "batocera"
    BY <1>6, OwnCopy
  <2>2. outcome[b] \in {"applied", "skipped", "raised"}
    BY <1>6 DEF Detach, Flow, TypeOK
  <2> QED BY <1>6, <2>1, <2>2 DEF Detach, Returned, TypeOK, Flow
<1>7. CASE Repack(b)
  BY <1>7 DEF Repack, Returned, TypeOK, Flow
<1>8. CASE PackerBuild(b)
  BY <1>8 DEF PackerBuild, TypeOK, Flow
<1>9. CASE PrepareIso(b)
  BY <1>9 DEF PrepareIso, TypeOK, Flow
<1>10. CASE Sweep(b)
  BY <1>10 DEF Sweep, TypeOK, Flow
<1>11. CASE Kill(b)
  BY <1>11 DEF Kill, TypeOK, Flow, Over
<1>12. CASE Rest(b)
  <2>1. CASE Convert(b) \/ ShowPartitions(b)
    BY <2>1 DEF Convert, ShowPartitions, TypeOK, Flow
  <2>2. CASE MissPartitions(b) \/ Raise(b)
    BY <2>2 DEF MissPartitions, Raise, TypeOK, Flow
  <2>3. CASE Skip(b) \/ Leave(b) \/ FailRepack(b)
    BY <2>3 DEF Skip, Leave, FailRepack, TypeOK, Flow
  <2>4. CASE RefusePacker(b) \/ PackerNoOutput(b) \/ NoAssistant(b)
    BY <2>4 DEF RefusePacker, PackerNoOutput, NoAssistant, Skipped, TypeOK, Flow
  <2>5. CASE PreparePacker(b) \/ Answer(b) \/ ToolFails(b)
    BY <2>5 DEF PreparePacker, Answer, ToolFails, TypeOK, Flow
  <2>6. CASE PackAndPublish(b)
    BY <2>6 DEF PackAndPublish, TypeOK, Flow
  <2> QED BY <1>12, <2>1, <2>2, <2>3, <2>4, <2>5, <2>6 DEF Rest
<1> QED BY Cases, <1>1, <1>2, <1>3, <1>4, <1>5, <1>6, <1>7, <1>8, <1>9, <1>10, <1>11, <1>12


-----------------------------------------------------------------------------
(* The device, the variable lo and the entry of _LOOP_QCOW2 *)

\* A step that touches neither devices nor entries.
LEMMA Quiet ==
  ASSUME UNCHANGED <<kind, qcow2, process, lo, backing, loopQcow2>>,
         \A o \in Bakes : Loops(o),
         \A o \in Bakes : /\ pc'[o] = "killed" <=> pc[o] = "killed"
                          /\ pc'[o] \notin Over => pc[o] \notin Over
                          /\ pc[o] # "idle" => pc'[o] # "idle"
                          /\ pc[o] \in Done => pc'[o] \in Done
                          /\ outcome[o] = "missing" => outcome'[o] = "missing"
  PROVE  \A o \in Bakes : Loops(o)'
PROOF
<1> SUFFICES ASSUME NEW o \in Bakes PROVE Loops(o)'
  OBVIOUS
<1>1. Holds(o)' /\ Held(o)'
  BY DEF Loops, Holds, Held, Behind, Image, Raw
<1>2. Entries(o)' /\ Entered(o)'
  BY DEF Loops, Entries, Entered, Stale, Raw
<1>3. Alone(o)'
  BY DEF Loops, Alone
<1> QED BY <1>1, <1>2, <1>3 DEF Loops

LEMMA LoopsBegin ==
  ASSUME TypeOK, \A o \in Bakes : Flow(o) /\ Loops(o), NEW b \in Bakes, Begins(b), Flow(b)',
         \A o \in Bakes : o # b => Same(o)
  PROVE  \A o \in Bakes : Loops(o)'
PROOF
<1> USE Nothing
<1> PICK p \in Processes, system \in Systems, provisioner \in Provisioners, asks \in BOOLEAN,
         q \in BOOLEAN : Start(b, p, system, provisioner, asks, q)
  BY DEF Begins
<1>1. /\ pc[b] = "idle" /\ lo[b] = None /\ b \notin qcow2 /\ outcome[b] = None
      /\ process'[b] = p /\ \A o \in Bakes : process[o] = p => pc[o] \in Over
      /\ UNCHANGED <<lo, backing, loopQcow2>>
  <2>1. /\ pc[b] = "idle" /\ process'[b] = p /\ \A o \in Bakes : process[o] = p => pc[o] \in Over
        /\ UNCHANGED <<lo, backing, loopQcow2>>
    BY DEF Start, TypeOK, kernel
  <2>2. lo[b] = None /\ b \notin qcow2 /\ outcome[b] = None
    BY <2>1 DEF Flow, Before
  <2> QED BY <2>1, <2>2
<1>2. \A d \in Devices : backing[d] \notin {Image(b), Raw(b)}
  BY <1>1 DEF Loops, Held, Outcomes
<1>3. \A e \in Processes, d \in Devices : loopQcow2[e][d] # b
  BY <1>1 DEF Loops, Entries
<1>4. Loops(b)'
  <2>1. Holds(b)' /\ Entered(b)'
    BY <1>1 DEF Holds, Entered
  <2>2. Held(b)' /\ Entries(b)'
    BY <1>1, <1>2, <1>3 DEF Held, Entries, Image, Raw
  <2>3. Alone(b)'
    BY <1>1 DEF Alone, Same
  <2> QED BY <2>1, <2>2, <2>3 DEF Loops
<1>5. ASSUME NEW o \in Bakes, o # b PROVE Loops(o)'
  <2>1. Same(o)
    BY <1>5
  <2>2. Holds(o)' /\ Held(o)'
    BY <1>1, <2>1 DEF Loops, Holds, Held, Same, Behind, Image, Raw
  <2>3. Entries(o)' /\ Entered(o)'
    BY <1>1, <2>1 DEF Loops, Entries, Entered, Stale, Same, Raw
  <2>4. Alone(o)'
    BY <1>1, <2>1 DEF Loops, Alone, Same
  <2> QED BY <2>2, <2>3, <2>4 DEF Loops
<1> QED BY <1>4, <1>5

LEMMA LoopsAttach ==
  ASSUME TypeOK, \A o \in Bakes : Flow(o) /\ Loops(o), NEW b \in Bakes,
         NEW d \in Devices, Attach(b, d), \A o \in Bakes : o # b => Same(o)
  PROVE  \A o \in Bakes : Loops(o)'
PROOF
<1> USE Nothing
<1> DEFINE entry == b \in qcow2 /\ kind[b] # "cloud"
<1>1. /\ pc[b] = "attach" /\ lo[b] = None /\ backing[d] = None /\ outcome[b] = None
      /\ process[b] \in Processes /\ pc'[b] = "wait" /\ lo'[b] = d
      /\ kind[b] \in Mounting
      /\ UNCHANGED <<kind, qcow2, process, outcome>>
  <2>1. pc[b] = "attach" /\ backing[d] = None /\ UNCHANGED <<kind, qcow2, process, outcome>>
    BY DEF Attach, local
  <2>2. pc'[b] = "wait" /\ lo'[b] = d
    BY DEF Attach, Goto, TypeOK
  <2>3. /\ lo[b] = None /\ outcome[b] = None /\ process[b] \in Processes
        /\ kind[b] \in Mounting
    BY <2>1 DEF Flow, Before, Mounters
  <2> QED BY <2>1, <2>2, <2>3
<1>2. backing' = [backing EXCEPT ![d] = Behind(b)]
  BY DEF Attach, Behind
<1>3. /\ backing'[d] = Behind(b)
      /\ \A e \in Devices : e # d => backing'[e] = backing[e]
  BY <1>2 DEF TypeOK
<1>4. \A o \in Bakes : o # b => lo[o] # d \/ pc[o] = "killed"
  BY <1>1 DEF Loops, Holds, Behind
<1>5. ASSUME NEW p \in Processes, NEW o \in Bakes, loopQcow2[p][d] = o PROVE Stale(o)
  <2>1. backing[d] = Raw(o) \/ Stale(o)
    BY <1>5 DEF Loops, Entries
  <2>2. backing[d] # Raw(o)
    BY <1>1
  <2> QED BY <2>1, <2>2
<1>6. \A e \in Devices : backing[e] \notin {Image(b), Raw(b)}
  BY <1>1 DEF Loops, Held, Outcomes
<1>7. \A p \in Processes, e \in Devices :
        loopQcow2'[p][e] = IF entry /\ p = process[b] /\ e = d THEN b ELSE loopQcow2[p][e]
  BY <1>1 DEF Attach, TypeOK
<1> HIDE DEF entry
<1>8. \A p \in Processes, e \in Devices : loopQcow2[p][e] # b
  BY <1>1, <1>6 DEF Loops, Entries, Stale, Done
<1>9. Loops(b)'
  <2>1. Holds(b)' /\ Held(b)'
    BY <1>1, <1>3, <1>6 DEF Holds, Held, Behind, Image, Raw
  <2>2. Entries(b)'
    BY <1>1, <1>3, <1>7, <1>8 DEF Entries, entry, Behind, Raw, Mounting
  <2>3. Entered(b)'
    BY <1>1, <1>7 DEF Entered, entry
  <2>4. Alone(b)'
    BY <1>1 DEF Loops, Alone, Same, Over
  <2> QED BY <2>1, <2>2, <2>3, <2>4 DEF Loops
<1>10. ASSUME NEW o \in Bakes, o # b PROVE Loops(o)'
  <2>1. Same(o) /\ Loops(o)
    BY <1>10
  <2>2. Holds(o)'
    BY <1>1, <1>3, <1>4, <2>1 DEF Loops, Holds, Same, Behind, Image, Raw
  <2>3. Held(o)'
    BY <1>1, <1>3, <1>10, <2>1 DEF Loops, Held, Same, Behind, Image, Raw
  <2>4. Entries(o)'
    <3> SUFFICES ASSUME NEW p \in Processes, NEW e \in Devices, loopQcow2'[p][e] = o
                 PROVE  /\ process'[o] = p /\ pc'[o] # "idle" /\ o \in qcow2'
                        /\ kind'[o] \in {"salt", "haos", "batocera"}
                        /\ backing'[e] = Raw(o) \/ Stale(o)'
      BY DEF Entries, Raw
    <3>1. loopQcow2[p][e] = o
      BY <1>7, <1>10
    <3>2. CASE e # d
      BY <3>1, <3>2, <1>3, <2>1 DEF Loops, Entries, Stale, Same
    <3>3. CASE e = d
      BY <3>1, <3>3, <1>5, <2>1 DEF Loops, Entries, Stale, Same
    <3> QED BY <3>2, <3>3
  <2>5. Entered(o)'
    <3>1. \/ loopQcow2'[process[o]][lo[o]] = loopQcow2[process[o]][lo[o]]
          \/ process[o] \notin Processes \/ lo[o] \notin Devices \/ pc[o] = "killed"
      BY <1>4, <1>7, <1>10
    <3> QED BY <1>1, <2>1, <3>1 DEF Loops, Entered, Same, TypeOK, Flow
  <2>6. Alone(o)'
    BY <1>1, <2>1 DEF Loops, Alone, Same, Over
  <2> QED BY <2>2, <2>3, <2>4, <2>5, <2>6 DEF Loops
<1> QED BY <1>9, <1>10


LEMMA LoopsMiss ==
  ASSUME TypeOK, \A o \in Bakes : Flow(o) /\ Loops(o), NEW b \in Bakes, MissPartitions(b),
         \A o \in Bakes : o # b => Same(o)
  PROVE  \A o \in Bakes : Loops(o)'
PROOF
<1> USE Nothing
<1>1. /\ pc[b] = "wait" /\ pc'[b] = "unmount" /\ lo'[b] = None /\ outcome'[b] = "missing"
      /\ UNCHANGED <<kind, qcow2, process, backing, loopQcow2>>
  BY DEF MissPartitions, Goto, TypeOK, local, kernel
<1>2. Loops(b)'
  BY <1>1 DEF Loops, Holds, Held, Entries, Entered, Alone, Same, Stale, Done, Raw, Image, Over
<1>3. ASSUME NEW o \in Bakes, o # b PROVE Loops(o)'
  <2>1. Same(o) /\ Loops(o)
    BY <1>3
  <2>2. Holds(o)' /\ Held(o)'
    BY <1>1, <2>1 DEF Loops, Holds, Held, Same, Behind, Image, Raw
  <2>3. Entries(o)' /\ Entered(o)'
    BY <1>1, <2>1 DEF Loops, Entries, Entered, Stale, Same, Raw
  <2>4. Alone(o)'
    BY <1>1, <2>1 DEF Loops, Alone, Same, Over
  <2> QED BY <2>2, <2>3, <2>4 DEF Loops
<1> QED BY <1>2, <1>3

LEMMA LoopsDetach ==
  ASSUME TypeOK, \A o \in Bakes : Flow(o) /\ Loops(o), NEW b \in Bakes, Detach(b),
         \A o \in Bakes : o # b => Same(o)
  PROVE  \A o \in Bakes : Loops(o)'
PROOF
<1> USE Nothing
<1> DEFINE d == lo[b]  taken == kind[b] \in {"salt", "haos"}
<1>1. /\ pc[b] = "unmount" /\ d \in Devices /\ process[b] \in Processes /\ outcome[b] # "missing"
      /\ UNCHANGED <<kind, qcow2, process, outcome>>
  BY DEF Detach, TypeOK, Flow, local
<1>2. lo'[b] = None /\ pc'[b] \in {"repack", "sweep", "pack"}
  BY DEF Detach, TypeOK, Goto, Returned
<1>3. /\ backing[d] = Behind(b) /\ backing'[d] = None
      /\ \A e \in Devices : e # d => backing'[e] = backing[e]
  BY <1>1 DEF Detach, TypeOK, Loops, Holds
<1>4. \A p \in Processes, e \in Devices :
        loopQcow2'[p][e] = IF taken /\ p = process[b] /\ e = d THEN None ELSE loopQcow2[p][e]
  BY <1>1 DEF Detach, TypeOK
<1> HIDE DEF d, taken
<1>5. \A o \in Bakes : o # b => lo[o] # d \/ pc[o] = "killed"
  <2>1. ASSUME NEW o \in Bakes, o # b PROVE Behind(o) # Behind(b)
    BY <2>1 DEF Behind, Image, Raw
  <2>2. ASSUME NEW o \in Bakes, lo[o] = d, pc[o] # "killed" PROVE backing[d] = Behind(o)
    BY <1>1, <2>2 DEF Loops, Holds
  <2> QED BY <1>3, <2>1, <2>2
<1>6. ASSUME NEW p \in Processes, NEW o \in Bakes, o # b, loopQcow2[p][d] = o PROVE Stale(o)
  <2>1. backing[d] = Raw(o) \/ Stale(o)
    BY <1>1, <1>6 DEF Loops, Entries
  <2> QED BY <1>3, <1>6, <2>1 DEF Behind, Raw, Image
<1>7. Loops(b)'
  <2>1. Holds(b)' /\ Entered(b)'
    BY <1>2 DEF Holds, Entered
  <2>2. Held(b)'
    BY <1>1, <1>3 DEF Loops, Held, Image, Raw, d
  <2>3. Entries(b)'
    <3> SUFFICES ASSUME NEW p \in Processes, NEW e \in Devices, loopQcow2'[p][e] = b
                 PROVE  /\ process'[b] = p /\ pc'[b] # "idle" /\ b \in qcow2'
                        /\ kind'[b] \in {"salt", "haos", "batocera"}
                        /\ Stale(b)'
      BY DEF Entries
    <3>1. loopQcow2[p][e] = b /\ ~(taken /\ p = process[b] /\ e = d)
      BY <1>4, Nothing
    <3>2. /\ process[b] = p /\ b \in qcow2 /\ kind[b] \in {"salt", "haos", "batocera"}
          /\ backing[e] = Raw(b)
      BY <1>1, <3>1 DEF Loops, Entries, Stale, Done
    <3>3. e = d
      BY <1>1, <3>2 DEF Loops, Held, d
    <3>4. kind[b] = "batocera"
      BY <3>1, <3>2, <3>3 DEF taken
    <3>5. pc'[b] \in {"sweep", "pack"}
      BY <1>1, <3>4 DEF Detach, Packs, Returned, Goto, TypeOK
    <3> QED BY <1>1, <3>2, <3>4, <3>5 DEF Stale, Done
  <2>4. Alone(b)'
    BY <1>1 DEF Loops, Alone, Same, Over
  <2> QED BY <2>1, <2>2, <2>3, <2>4 DEF Loops
<1>8. ASSUME NEW o \in Bakes, o # b PROVE Loops(o)'
  <2>1. Same(o) /\ Loops(o)
    BY <1>8
  <2>2. Holds(o)'
    <3> SUFFICES ASSUME NEW e \in Devices, lo'[o] = e, pc'[o] # "killed"
                 PROVE  backing'[e] = IF o \in qcow2' THEN Raw(o) ELSE Image(o)
      BY DEF Holds, Behind, Image, Raw
    <3>1. lo[o] = e /\ pc[o] # "killed" /\ e # d
      BY <1>5, <1>8, <2>1 DEF Same
    <3> QED BY <1>1, <1>3, <2>1, <3>1 DEF Loops, Holds, Behind
  <2>3. Held(o)'
    BY <1>1, <1>3, <1>8, <2>1 DEF Loops, Held, Same, Behind, Image, Raw
  <2>4. Entries(o)'
    <3> SUFFICES ASSUME NEW p \in Processes, NEW e \in Devices, loopQcow2'[p][e] = o
                 PROVE  /\ process'[o] = p /\ pc'[o] # "idle" /\ o \in qcow2'
                        /\ kind'[o] \in {"salt", "haos", "batocera"}
                        /\ backing'[e] = Raw(o) \/ Stale(o)'
      BY DEF Entries, Raw
    <3>1. loopQcow2[p][e] = o
      BY <1>4, Nothing
    <3>2. CASE e # d
      BY <3>1, <3>2, <1>3, <2>1 DEF Loops, Entries, Stale, Same
    <3>3. CASE e = d
      BY <3>1, <3>3, <1>6, <1>8, <2>1 DEF Loops, Entries, Stale, Same
    <3> QED BY <3>2, <3>3
  <2>5. Entered(o)'
    <3>1. loopQcow2'[process[o]][lo[o]] = loopQcow2[process[o]][lo[o]]
          \/ process[o] \notin Processes \/ lo[o] \notin Devices \/ pc[o] = "killed"
      BY <1>4, <1>5, <1>8
    <3> QED BY <1>1, <2>1, <3>1 DEF Loops, Entered, Same, TypeOK, Flow
  <2>6. Alone(o)'
    BY <1>1, <2>1 DEF Loops, Alone, Same, Over
  <2> QED BY <2>2, <2>3, <2>4, <2>5, <2>6 DEF Loops
<1> QED BY <1>7, <1>8

LEMMA LoopsKill ==
  ASSUME TypeOK, \A o \in Bakes : Flow(o) /\ Loops(o), NEW b \in Bakes, Kill(b),
         \A o \in Bakes : o # b => Same(o)
  PROVE  \A o \in Bakes : Loops(o)'
PROOF
<1> USE Nothing
<1>1. /\ pc[b] \notin Over /\ process[b] \in Processes /\ pc'[b] = "killed"
      /\ UNCHANGED <<kind, qcow2, process, lo, outcome, backing>>
  BY DEF Kill, Goto, TypeOK, Flow, Over, local, kernel
<1>2. \A p \in Processes, e \in Devices :
        loopQcow2'[p][e] = IF p = process[b] THEN None ELSE loopQcow2[p][e]
  BY <1>1 DEF Kill, TypeOK
<1>3. Loops(b)'
  <2>1. Holds(b)' /\ Held(b)' /\ Entered(b)' /\ Alone(b)'
    BY <1>1 DEF Holds, Held, Entered, Alone, Over
  <2>2. Entries(b)'
    BY <1>1, <1>2 DEF Loops, Entries, Raw
  <2> QED BY <2>1, <2>2 DEF Loops
<1>4. ASSUME NEW o \in Bakes, o # b PROVE Loops(o)'
  <2>1. Same(o) /\ Loops(o) /\ Flow(o)
    BY <1>4
  <2>2. Holds(o)' /\ Held(o)'
    BY <1>1, <2>1 DEF Loops, Holds, Held, Same, Behind, Image, Raw
  <2>3. Entries(o)'
    BY <1>1, <1>2, <2>1 DEF Loops, Entries, Stale, Same, Raw
  <2>4. Entered(o)'
    <3> SUFFICES ASSUME lo[o] # None, pc[o] # "killed", o \in qcow2, kind[o] \in {"salt", "haos"}
                 PROVE  loopQcow2'[process[o]][lo[o]] = o
      BY <1>1, <2>1 DEF Entered, Same
    <3>1. pc[o] \notin Over /\ process[o] \in Processes /\ lo[o] \in Devices
      BY <2>1 DEF Flow, Over, TypeOK
    <3>2. process[o] # process[b]
      BY <1>1, <1>4, <2>1, <3>1 DEF Loops, Alone
    <3> QED BY <1>2, <2>1, <3>1, <3>2 DEF Loops, Entered
  <2>5. Alone(o)'
    BY <1>1, <2>1 DEF Loops, Alone, Same, Over
  <2> QED BY <2>2, <2>3, <2>4, <2>5 DEF Loops
<1> QED BY <1>3, <1>4

LEMMA LoopsStep ==
  ASSUME TypeOK, \A o \in Bakes : Flow(o) /\ Loops(o), NEW b \in Bakes, Acts(b), Flow(b)'
  PROVE  \A o \in Bakes : Loops(o)'
PROOF
<1> USE Nothing
<1>1. \A o \in Bakes : o # b => Same(o)
  BY OthersStay
<1>2. CASE Begins(b)
  BY <1>1, <1>2, LoopsBegin
<1>3. CASE \E d \in Devices : Attach(b, d)
  BY <1>1, <1>3, LoopsAttach
<1>4. CASE Detach(b)
  BY <1>1, <1>4, LoopsDetach
<1>5. CASE Kill(b)
  BY <1>1, <1>5, LoopsKill
<1>6. CASE MissPartitions(b)
  BY <1>1, <1>6, LoopsMiss
<1>7. ASSUME UNCHANGED <<kind, qcow2, process, lo, backing, loopQcow2>>,
             pc[b] \notin Over, pc'[b] \notin {"idle", "killed"}, pc[b] \in Done => pc'[b] \in Done,
             outcome[b] # "missing" \/ UNCHANGED outcome
      PROVE  \A o \in Bakes : Loops(o)'
  <2>1. \A o \in Bakes : /\ pc'[o] = "killed" <=> pc[o] = "killed"
                         /\ pc'[o] \notin Over => pc[o] \notin Over
                         /\ pc[o] # "idle" => pc'[o] # "idle"
                         /\ pc[o] \in Done => pc'[o] \in Done
                         /\ outcome[o] = "missing" => outcome'[o] = "missing"
    BY <1>1, <1>7 DEF Same, Over
  <2> QED BY <1>7, <2>1, Quiet
<1> USE DEF TypeOK, Goto, local, kernel, files, Over, Flow, Before, Mounters, Tools, Done
<1>8. CASE Mount(b) \/ Apply(b) \/ Unmount(b)
  <2>1. UNCHANGED <<kind, qcow2, process, lo, backing, loopQcow2>>
    BY <1>8 DEF Mount, Apply, Unmount
  <2>2. /\ pc[b] \notin Over /\ pc'[b] \notin {"idle", "killed"} /\ (pc[b] \in Done => pc'[b] \in Done)
        /\ outcome[b] # "missing" \/ UNCHANGED outcome
    BY <1>8 DEF Mount, Apply, Unmount
  <2> QED BY <1>7, <2>1, <2>2
<1>9. CASE Repack(b) \/ PackerBuild(b) \/ PrepareIso(b) \/ Sweep(b)
  <2>1. UNCHANGED <<kind, qcow2, process, lo, backing, loopQcow2>>
    BY <1>9 DEF Repack, PackerBuild, PrepareIso, Sweep
  <2>2. /\ pc[b] \notin Over /\ pc'[b] \notin {"idle", "killed"} /\ (pc[b] \in Done => pc'[b] \in Done)
        /\ outcome[b] # "missing" \/ UNCHANGED outcome
    BY <1>9 DEF Repack, PackerBuild, PrepareIso, Sweep, Returned
  <2> QED BY <1>7, <2>1, <2>2
<1>10. CASE Convert(b) \/ ShowPartitions(b) \/ Skip(b) \/ Raise(b) \/ Leave(b) \/ FailRepack(b)
  <2>1. UNCHANGED <<kind, qcow2, process, lo, backing, loopQcow2>>
    BY <1>10 DEF Convert, ShowPartitions, Skip, Raise, Leave, FailRepack
  <2>2. /\ pc[b] \notin Over /\ pc'[b] \notin {"idle", "killed"} /\ (pc[b] \in Done => pc'[b] \in Done)
        /\ outcome[b] # "missing" \/ UNCHANGED outcome
    BY <1>10 DEF Convert, ShowPartitions, Skip, Raise, Leave, FailRepack
  <2> QED BY <1>7, <2>1, <2>2
<1>11. CASE \/ RefusePacker(b) \/ PreparePacker(b) \/ PackerNoOutput(b) \/ NoAssistant(b)
            \/ Answer(b) \/ ToolFails(b) \/ PackAndPublish(b)
  <2>1. UNCHANGED <<kind, qcow2, process, lo, backing, loopQcow2>>
    BY <1>11 DEF RefusePacker, PreparePacker, PackerNoOutput, NoAssistant, Answer, ToolFails,
                 PackAndPublish, Skipped
  <2>2. /\ pc[b] \notin Over /\ pc'[b] \notin {"idle", "killed"} /\ (pc[b] \in Done => pc'[b] \in Done)
        /\ outcome[b] # "missing" \/ UNCHANGED outcome
    BY <1>11 DEF RefusePacker, PreparePacker, PackerNoOutput, NoAssistant, Answer, ToolFails,
                 PackAndPublish, Skipped
  <2> QED BY <1>7, <2>1, <2>2
<1> QED BY Cases, <1>2, <1>3, <1>4, <1>5, <1>6, <1>8, <1>9, <1>10, <1>11 DEF Rest


-----------------------------------------------------------------------------
(* The raw copy that is packed back *)

\* A bake that is over takes no step, and a step goes to the repacking from the
\* detaching only.
LEMMA OverStays ==
  ASSUME TypeOK, NEW b \in Bakes, Acts(b)
  PROVE  pc[b] # "over" /\ (pc'[b] = "repack" => Detach(b))
PROOF
<1> USE DEF TypeOK, Goto, Over
<1>1. CASE Begins(b)
  BY <1>1 DEF Begins, Start, Entry
<1>2. CASE (\E d \in Devices : Attach(b, d)) \/ Mount(b) \/ Apply(b) \/ Unmount(b)
  BY <1>2 DEF Attach, Mount, Apply, Unmount
<1>3. CASE Detach(b)
  BY <1>3 DEF Detach
<1>4. CASE Repack(b) \/ PackerBuild(b) \/ PrepareIso(b) \/ Sweep(b) \/ Kill(b)
  BY <1>4 DEF Repack, PackerBuild, PrepareIso, Sweep, Kill, Returned
<1>5. CASE Rest(b)
  BY <1>5 DEF Rest, Convert, ShowPartitions, MissPartitions, Skip, Raise, Leave, FailRepack, RefusePacker,
              PreparePacker, PackerNoOutput, NoAssistant, Answer, ToolFails, PackAndPublish, Skipped
<1> QED BY Cases, <1>1, <1>2, <1>3, <1>4, <1>5

LEMMA OwnStep ==
  ASSUME TypeOK, \A o \in Bakes : Flow(o) /\ Loops(o) /\ Own(o), NEW b \in Bakes, Acts(b),
         \A o \in Bakes : o # b => Same(o)
  PROVE  \A o \in Bakes : Own(o)'
PROOF
<1>1. pc[b] # "over"
  BY OverStays
<1>2. ASSUME pc'[b] = "repack" PROVE Own(b)'
  <2>1. Detach(b)
    BY <1>2, OverStays
  <2>2. Packs(b) # None /\ repacks'[b] = Packs(b) /\ UNCHANGED qcow2
    BY <1>2, <2>1 DEF Detach, Goto, Returned, TypeOK, local
  <2>3. \/ Packs(b) = b /\ b \in qcow2
        \/ Packs(b) \in Bakes \ {b} /\ pc[Packs(b)] = "over"
    BY <2>1, <2>2, OwnCopy
  <2> QED BY <2>2, <2>3 DEF Own, Same
<1>3. ASSUME NEW o \in Bakes, o # b, pc'[o] = "repack" PROVE Own(o)'
  BY <1>1, <1>3 DEF Own, Same
<1> QED BY <1>2, <1>3 DEF Own

\* The raw copy is there only if it is the bake's own.
LEMMA RepacksOwn ==
  ASSUME \A o \in Bakes : Flow(o), NEW b \in Bakes, Own(b), pc[b] = "repack", repacks[b] \in raws
  PROVE  repacks[b] = b /\ b \in qcow2
  BY DEF Own, Flow

-----------------------------------------------------------------------------
(* The provisioned file *)

\* A step provisions files of its own bake only.
LEMMA FilesStay ==
  ASSUME TypeOK, \A o \in Bakes : Flow(o) /\ Loops(o) /\ Own(o), NEW b \in Bakes, Acts(b),
         NEW o \in Bakes, o # b, NEW f \in {"image", "raw", "iso"}
  PROVE  <<o, f>> \in provisioned' <=> <<o, f>> \in provisioned
PROOF
<1>1. CASE Apply(b)
  <2>1. lo[b] \in Devices /\ backing[lo[b]] = Behind(b)
    BY <1>1 DEF Apply, Flow, TypeOK, Loops, Holds
  <2> QED BY <1>1, <2>1 DEF Apply, Behind, Image, Raw
<1>2. CASE Repack(b)
  <2>1. repacks[b] = b
    BY <1>2, RepacksOwn DEF Repack
  <2> QED BY <1>2, <2>1 DEF Repack, Image, Raw
<1>3. CASE PackerBuild(b) \/ PrepareIso(b) \/ Sweep(b)
  BY <1>3 DEF PackerBuild, PrepareIso, Sweep, FilesOf, Image
<1>4. CASE \/ Begins(b) \/ (\E d \in Devices : Attach(b, d)) \/ Mount(b)
           \/ Unmount(b) \/ Detach(b) \/ Kill(b)
  <2>1. CASE Begins(b)
    BY <2>1 DEF Begins, Start
  <2>2. CASE (\E d \in Devices : Attach(b, d)) \/ Mount(b)
    BY <2>2 DEF Attach, Mount, files
  <2>3. CASE Unmount(b) \/ Detach(b) \/ Kill(b)
    BY <2>3 DEF Unmount, Detach, Kill, files
  <2> QED BY <1>4, <2>1, <2>2, <2>3
<1>5. CASE Rest(b)
  BY <1>5 DEF Rest, Convert, ShowPartitions, MissPartitions, Skip, Raise, Leave, FailRepack, RefusePacker,
              PreparePacker, PackerNoOutput, NoAssistant, Answer, ToolFails, PackAndPublish, Skipped, files
<1> QED BY Cases, <1>1, <1>2, <1>3, <1>4, <1>5

LEMMA ContentOthers ==
  ASSUME NEW o \in Bakes, Same(o), Content(o),
         \A f \in {"image", "raw", "iso"} : <<o, f>> \in provisioned' <=> <<o, f>> \in provisioned,
         target[o] \in {"image", "iso"}
  PROVE  Content(o)'
  BY DEF Same, Content, Behind, LeftInRaw, Target, Image, Raw

LEMMA ContentStep ==
  ASSUME TypeOK, \A o \in Bakes : Flow(o) /\ Loops(o) /\ Own(o), NEW b \in Bakes, Acts(b), Content(b)
  PROVE  Content(b)'
PROOF
<1> USE Nothing DEF Goto, local, kernel, files, Outcomes, Tools, Mounters, Before, Flow, TypeOK, LeftInRaw
<1>1. CASE Begins(b)
  <2> PICK p \in Processes, system \in Systems, provisioner \in Provisioners, asks \in BOOLEAN,
           q \in BOOLEAN : Start(b, p, system, provisioner, asks, q)
    BY <1>1 DEF Begins
  <2>1. /\ pc[b] = "idle" /\ outcome'[b] \in {None, "skipped"}
        /\ UNCHANGED <<provisioned, published>>
    BY DEF Start
  <2>2. Image(b) \notin provisioned
    BY <2>1 DEF Content, Image
  <2> QED BY <2>1, <2>2 DEF Content, Image
<1>2. CASE (\E d \in Devices : Attach(b, d)) \/ Mount(b) \/ Unmount(b) \/ Kill(b)
  <2>1. CASE \E d \in Devices : Attach(b, d)
    BY <2>1 DEF Attach, Content, Image
  <2>2. CASE Mount(b)
    BY <2>2 DEF Mount, Content, Image
  <2>3. CASE Unmount(b)
    BY <2>3 DEF Unmount, Content, Behind, Image, Raw
  <2>4. CASE Kill(b)
    BY <2>4 DEF Kill, Content, Image
  <2> QED BY <1>2, <2>1, <2>2, <2>3, <2>4
<1>3. CASE Apply(b)
  <2>1. lo[b] \in Devices /\ backing[lo[b]] = Behind(b)
    BY <1>3 DEF Apply, Loops, Holds
  <2>2. /\ outcome'[b] = "applied" /\ pc'[b] = "unmount" /\ published'[b] = None
        /\ provisioned' = provisioned \cup {Behind(b)} /\ UNCHANGED <<qcow2, kind>>
    BY <1>3, <2>1 DEF Apply
  <2> QED BY <2>2 DEF Content, Behind, Image, Raw
<1>4. CASE Detach(b)
  <2>1. outcome[b] = "applied" /\ b \in qcow2 /\ ~LeftInRaw(b) => Packs(b) # None
    <3>1. lo[b] # None /\ pc[b] = "unmount"
      BY <1>4 DEF Detach
    <3>2. b \in qcow2 /\ kind[b] \in {"salt", "haos"} => Packs(b) = b
      BY <3>1 DEF Loops, Entered, Packs
    <3>3. b \in qcow2 /\ kind[b] = "cloud" /\ outcome[b] = "applied" => Packs(b) = b
      BY DEF Packs
    <3> QED BY <3>1, <3>2, <3>3 DEF Mounting
  <2>2. /\ UNCHANGED <<outcome, provisioned, published, qcow2, target, kind>> /\ published[b] = None
        /\ pc[b] = "unmount" /\ target[b] = "image"
        /\ pc'[b] = IF Packs(b) # None THEN "repack" ELSE Returned(b)
    BY <1>4 DEF Detach
  <2>3. outcome[b] = "applied" => Behind(b) \in provisioned
    BY <2>2 DEF Content
  <2>4. outcome[b] = "applied" =>
          /\ pc'[b] = "pack" /\ ~LeftInRaw(b) => Image(b) \in provisioned
          /\ pc'[b] # "unmount"
    BY <2>1, <2>2, <2>3 DEF Behind, Returned
  <2> QED BY <2>2, <2>3, <2>4 DEF Content, Behind, Target, Image, Raw
<1>5. CASE Repack(b)
  <2>1. repacks[b] = b /\ b \in qcow2
    BY <1>5, RepacksOwn DEF Repack
  <2>2. /\ pc[b] = "repack" /\ target[b] = "image" /\ published[b] = None /\ kind[b] # "batocera"
        /\ UNCHANGED <<outcome, published, target, kind, qcow2>> /\ pc'[b] = Returned(b)
    BY <1>5 DEF Repack
  <2>3. provisioned' = IF Raw(b) \in provisioned THEN provisioned \cup {Image(b)} ELSE provisioned
    BY <1>5, <2>1 DEF Repack
  <2>4. outcome[b] = "applied" => Image(b) \in provisioned'
    BY <2>1, <2>2, <2>3 DEF Content, Behind
  <2>5. outcome[b] \in {None, "skipped"} => provisioned' = provisioned
    BY <2>3 DEF Content, Raw
  <2> QED BY <2>2, <2>4, <2>5 DEF Content, Returned, Target, Image
<1>6. CASE PackerBuild(b)
  BY <1>6 DEF PackerBuild, Content, Target, Image
<1>7. CASE PrepareIso(b)
  BY <1>7 DEF PrepareIso, Content, Target, Image
<1>8. CASE Sweep(b)
  BY <1>8 DEF Sweep, Content, FilesOf, Image
<1>9. CASE Rest(b)
  <2>1. CASE Convert(b) \/ ShowPartitions(b) \/ Answer(b) \/ PreparePacker(b)
    BY <2>1 DEF Convert, ShowPartitions, Answer, PreparePacker, Content
  <2>2. CASE MissPartitions(b) \/ Raise(b) \/ ToolFails(b) \/ FailRepack(b)
    BY <2>2 DEF MissPartitions, Raise, ToolFails, FailRepack, Content
  <2>3. CASE Skip(b) \/ RefusePacker(b) \/ PackerNoOutput(b) \/ NoAssistant(b)
    BY <2>3 DEF Skip, RefusePacker, PackerNoOutput, NoAssistant, Skipped, Content
  <2>4. CASE Leave(b)
    BY <2>4 DEF Leave, Content
  <2>5. CASE PackAndPublish(b)
    <3>1. /\ pc[b] = "pack" /\ outcome[b] \in {"applied", "skipped"} /\ pc'[b] = "sweep"
          /\ UNCHANGED <<outcome, provisioned, kind, qcow2>> /\ published[b] = None
          /\ target[b] \in {"image", "iso"} /\ (kind[b] # "proxmox" => target[b] = "image")
      BY <2>5 DEF PackAndPublish
    <3>2. published'[b] \in {None, IF Target(b) \in provisioned THEN "provisioned" ELSE "upstream"}
      BY <2>5 DEF PackAndPublish
    <3>3. Target(b) \in provisioned <=> outcome[b] = "applied" /\ ~LeftInRaw(b)
      BY <3>1 DEF Content, Target, Image
    <3> QED BY <3>1, <3>2, <3>3 DEF Content
  <2> QED BY <1>9, <2>1, <2>2, <2>3, <2>4, <2>5 DEF Rest
<1> QED BY Cases, <1>1, <1>2, <1>3, <1>4, <1>5, <1>6, <1>7, <1>8, <1>9


-----------------------------------------------------------------------------
(* The mounts *)

LEMMA MountsStay ==
  ASSUME NEW b \in Bakes, Acts(b), NEW o \in Bakes, o # b, NEW q \in Points
  PROVE  <<o, q>> \in mounts' <=> <<o, q>> \in mounts
PROOF
<1>1. CASE Mount(b) \/ Unmount(b)
  BY <1>1 DEF Mount, Unmount
<1>2. CASE Begins(b) \/ (\E d \in Devices : Attach(b, d)) \/ Detach(b) \/ Apply(b) \/ Kill(b)
  <2>1. CASE Begins(b)
    BY <2>1 DEF Begins, Start, kernel
  <2>2. CASE \E d \in Devices : Attach(b, d)
    BY <2>2 DEF Attach
  <2>3. CASE Detach(b) \/ Apply(b) \/ Kill(b)
    BY <2>3 DEF Detach, Apply, Kill, kernel
  <2> QED BY <1>2, <2>1, <2>2, <2>3
<1>3. CASE Repack(b) \/ PackerBuild(b) \/ PrepareIso(b) \/ Sweep(b)
  BY <1>3 DEF Repack, PackerBuild, PrepareIso, Sweep, kernel
<1>4. CASE Rest(b)
  BY <1>4 DEF Rest, Convert, ShowPartitions, MissPartitions, Skip, Raise, Leave, FailRepack, RefusePacker,
              PreparePacker, PackerNoOutput, NoAssistant, Answer, ToolFails, PackAndPublish, Skipped, kernel
<1> QED BY Cases, <1>1, <1>2, <1>3, <1>4

LEMMA CoveredOthers ==
  ASSUME NEW o \in Bakes, Same(o), Covered(o), \A q \in Points : <<o, q>> \in mounts' <=> <<o, q>> \in mounts
  PROVE  Covered(o)'
  BY DEF Same, Covered

\* The mount is on the list, or will be and is inside the root that is.
LEMMA CoveredMount ==
  ASSUME TypeOK, NEW b \in Bakes, Flow(b), Covered(b), Mount(b)
  PROVE  Covered(b)'
PROOF
<1> DEFINE plan == Plan[kind[b]]  n == step[b] + 1  point == plan[n]  list == Listed(b, point)
<1>1. kind[b] \in Mounting /\ pc[b] = "mount" /\ mounted[b] \in Seq(Points) /\ step[b] \in 0 .. 8
  BY DEF Mount, Flow, Mounters, TypeOK
<1>2. /\ plan \in Seq(Points) /\ Len(plan) \in 1 .. 8 /\ {"dev", "pts", "proc", "root", "boot"} \subseteq Points
      /\ kind[b] = "salt" => plan = SaltPlan
  BY <1>1, PlanPoints
<1>3. n \in 1 .. Len(plan)
  <2>1. step[b] < Len(plan)
    BY DEF Mount
  <2>2. ASSUME NEW i \in 0 .. 8, NEW l \in 1 .. 8, i < l PROVE i + 1 \in 1 .. l
    BY <2>2
  <2> HIDE DEF plan
  <2> QED BY <1>1, <1>2, <2>1, <2>2
<1>4. point \in Points
  <2> HIDE DEF plan, n
  <2> QED BY <1>2, <1>3
<1>5. /\ step'[b] = n /\ pc'[b] \in {"apply", "mount"} /\ UNCHANGED kind
      /\ \/ mounts' = mounts \cup {<<b, point>>} /\ mounted'[b] = list
         \/ kind[b] = "salt" /\ point = "boot" /\ UNCHANGED <<mounts, mounted>>
  BY DEF Mount, TypeOK, Goto, local
<1>6. /\ kind[b] = "salt" /\ step[b] = 0 => point = "root"
      /\ kind[b] = "salt" /\ point \in {"dev", "pts"} => step[b] # 0
  <2>1. kind[b] = "salt" => plan[1] = "root"
    BY <1>2 DEF SaltPlan
  <2> HIDE DEF plan
  <2> QED BY <1>1, <2>1
<1> HIDE DEF plan, n, point
<1>7. Append(mounted[b], point) = mounted[b] \o <<point>> /\ <<point>> \in Seq(Points)
      /\ <<"dev", "pts", "proc">> \in Seq(Points)
  BY <1>1, <1>2, <1>4
<1>8. Range(<<point>>) = {point} /\ "proc" \in Range(<<"dev", "pts", "proc">>)
  <2>1. DOMAIN <<point>> = {1} /\ <<point>>[1] = point
    OBVIOUS
  <2>2. 3 \in DOMAIN <<"dev", "pts", "proc">> /\ <<"dev", "pts", "proc">>[3] = "proc"
    OBVIOUS
  <2> QED BY <2>1, <2>2 DEF Range
<1>9. /\ Range(mounted[b]) \subseteq Range(list)
      /\ point \in Range(list) \/ (kind[b] = "salt" /\ point \in {"dev", "pts"})
  <2>1. Range(mounted[b]) \subseteq Range(mounted[b] \o <<point>>)
        /\ point \in Range(mounted[b] \o <<point>>)
    BY <1>1, <1>7, <1>8, RangeGrows
  <2>2. Range(mounted[b]) \subseteq Range(mounted[b] \o <<"dev", "pts", "proc">>)
        /\ "proc" \in Range(mounted[b] \o <<"dev", "pts", "proc">>)
    BY <1>1, <1>7, <1>8, RangeGrows
  <2>3. list = IF kind[b] = "salt" /\ point \in {"dev", "pts"} THEN mounted[b]
               ELSE IF kind[b] = "salt" /\ point = "proc" THEN mounted[b] \o <<"dev", "pts", "proc">>
               ELSE Append(mounted[b], point)
    BY DEF Listed
  <2> HIDE DEF list
  <2>4. CASE kind[b] = "salt" /\ point \in {"dev", "pts"}
    BY <2>3, <2>4
  <2>5. CASE kind[b] = "salt" /\ point = "proc"
    BY <2>2, <2>3, <2>5
  <2>6. CASE ~(kind[b] = "salt" /\ point \in {"dev", "pts", "proc"})
    <3>1. list = mounted[b] \o <<point>>
      BY <1>7, <2>3, <2>6
    <3> QED BY <2>1, <3>1
  <2> QED BY <2>4, <2>5, <2>6
<1> HIDE DEF list
<1>10. kind[b] = "salt" /\ step[b] # 0 => "root" \in Range(mounted[b])
  BY <1>1 DEF Covered
<1>11. ASSUME NEW q \in Points, <<b, q>> \in mounts'
       PROVE  \E m \in Range(mounted'[b]) : q = m \/ q \in Inside(kind[b], m)
  <2>1. CASE <<b, q>> \in mounts
    <3>1. PICK m \in Range(mounted[b]) : q = m \/ q \in Inside(kind[b], m)
      BY <1>1, <2>1 DEF Covered
    <3>2. m \in Range(mounted'[b])
      BY <1>5, <1>9
    <3> QED BY <3>1, <3>2
  <2>2. CASE <<b, q>> \notin mounts
    <3>1. q = point /\ mounted'[b] = list
      BY <1>5, <1>11, <2>2
    <3>2. CASE point \in Range(list)
      BY <3>1, <3>2
    <3>3. CASE kind[b] = "salt" /\ point \in {"dev", "pts"}
      <4>1. "root" \in Range(list)
        BY <1>6, <1>9, <1>10, <3>3
      <4>2. q \in Inside("salt", "root")
        BY <3>1, <3>3 DEF Inside
      <4> QED BY <3>1, <3>3, <4>1, <4>2
    <3> QED BY <1>9, <3>2, <3>3
  <2> QED BY <2>1, <2>2
<1>12. kind[b] = "salt" => "root" \in Range(mounted'[b])
  <2>1. CASE step[b] = 0
    BY <1>5, <1>6, <1>9, <2>1
  <2>2. CASE step[b] # 0
    BY <1>5, <1>9, <1>10, <2>2
  <2> QED BY <2>1, <2>2
<1> QED BY <1>5, <1>11, <1>12 DEF Covered

LEMMA CoveredStep ==
  ASSUME TypeOK, NEW b \in Bakes, Flow(b), Acts(b), Covered(b)
  PROVE  Covered(b)'
PROOF
<1> USE DEF Goto, local, kernel, files, TypeOK
<1>1. CASE Mount(b)
  BY <1>1, CoveredMount
<1>2. CASE Unmount(b)
  <2> DEFINE point == Last(mounted[b])
  <2>1. /\ pc[b] = "unmount" /\ pc'[b] = "unmount" /\ UNCHANGED kind
        /\ mounts' = mounts \ ({b} \X ({point} \cup Inside(kind[b], point)))
        /\ mounted'[b] = Front(mounted[b])
    BY <1>2 DEF Unmount
  <2>2. \A m \in Range(mounted[b]) : m = point \/ m \in Range(Front(mounted[b]))
    BY <1>2, LastIn DEF Unmount
  <2> HIDE DEF point
  <2>3. ASSUME NEW q \in Points, <<b, q>> \in mounts'
        PROVE  \E m \in Range(mounted'[b]) : q = m \/ q \in Inside(kind[b], m)
    <3>1. PICK m \in Range(mounted[b]) : q = m \/ q \in Inside(kind[b], m)
      BY <2>1, <2>3 DEF Covered
    <3>2. m # point
      BY <2>1, <2>3, <3>1
    <3> QED BY <2>1, <2>2, <3>1, <3>2
  <2> QED BY <2>1, <2>3 DEF Covered
<1>3. CASE Detach(b)
  <2>1. pc[b] = "unmount" /\ mounted[b] = <<>> /\ pc'[b] \in {"repack", "sweep", "pack"} /\ UNCHANGED mounts
    BY <1>3 DEF Detach, Returned
  <2>2. Range(mounted[b]) = {}
    BY <2>1 DEF Range
  <2> QED BY <2>1, <2>2 DEF Covered
<1>4. CASE Leave(b)
  <2>1. pc[b] = "unmount" /\ mounted[b] = <<>> /\ pc'[b] = "sweep" /\ UNCHANGED mounts
    BY <1>4 DEF Leave
  <2>2. Range(mounted[b]) = {}
    BY <2>1 DEF Range
  <2> QED BY <2>1, <2>2 DEF Covered
<1>5. CASE Begins(b)
  <2> PICK p \in Processes, system \in Systems, provisioner \in Provisioners, asks \in BOOLEAN,
           q \in BOOLEAN : Start(b, p, system, provisioner, asks, q)
    BY <1>5 DEF Begins
  <2>1. pc[b] = "idle" /\ step[b] = 0 /\ UNCHANGED <<mounts, step>>
    BY DEF Start, Flow
  <2> QED BY <2>1 DEF Covered
<1>6. CASE \E d \in Devices : Attach(b, d)
  BY <1>6 DEF Attach, Covered
<1>7. CASE Apply(b)
  BY <1>7 DEF Apply, Covered
<1>8. CASE Kill(b)
  BY <1>8 DEF Kill, Covered, Over
<1>9. CASE Repack(b) \/ PackerBuild(b) \/ PrepareIso(b) \/ Sweep(b)
  BY <1>9 DEF Repack, PackerBuild, PrepareIso, Sweep, Returned, Covered
<1>10. CASE Convert(b) \/ MissPartitions(b) \/ FailRepack(b)
  BY <1>10 DEF Convert, MissPartitions, FailRepack, Covered
<1>11. CASE ShowPartitions(b)
  BY <1>11 DEF ShowPartitions, Flow, Covered
<1>12. CASE Skip(b) \/ Raise(b)
  <2>1. pc'[b] = "unmount" /\ pc[b] # "killed" /\ UNCHANGED <<mounts, mounted, kind>>
    BY <1>12 DEF Skip, Raise
  <2> QED BY <2>1 DEF Covered
<1>13. CASE \/ RefusePacker(b) \/ PreparePacker(b) \/ PackerNoOutput(b) \/ NoAssistant(b)
            \/ Answer(b) \/ ToolFails(b) \/ PackAndPublish(b)
  BY <1>13 DEF RefusePacker, PreparePacker, PackerNoOutput, NoAssistant, Answer, ToolFails,
               PackAndPublish, Skipped, Covered
<1> QED BY Cases, <1>1, <1>2, <1>3, <1>4, <1>5, <1>6, <1>7, <1>8, <1>9, <1>10, <1>11, <1>12, <1>13 DEF Rest


-----------------------------------------------------------------------------
(* The theorems *)

LEMMA InitHolds == ASSUME Init PROVE IInv
PROOF
<1> USE Nothing DEF Init
<1>1. <<>> \in Seq(Points) /\ 0 \in 0 .. 8 /\ 0 \in 0 .. MaxKills
  BY LimitAssumption
<1>2. TypeOK
  BY <1>1 DEF TypeOK, Labels, Over
<1>3. \A b \in Bakes : Flow(b)
  BY DEF Flow, Before, Mounters, Tools, Outcomes
<1>4. \A b \in Bakes : Loops(b)
  BY DEF Loops, Holds, Held, Entries, Entered, Alone, Over
<1>5. \A b \in Bakes : Content(b) /\ Own(b)
  BY DEF Content, Own, Outcomes
<1>6. \A b \in Bakes : Covered(b)
  BY DEF Covered
<1> QED BY <1>2, <1>3, <1>4, <1>5, <1>6 DEF IInv

LEMMA Inductive == ASSUME IInv, [Next]_vars PROVE IInv'
PROOF
<1>1. CASE Next
  <2> PICK b \in Bakes : Acts(b)
    BY <1>1, ByBake
  <2>1. TypeOK /\ \A o \in Bakes : Flow(o) /\ Loops(o) /\ Own(o) /\ Content(o) /\ Covered(o)
    BY DEF IInv
  <2>2. \A o \in Bakes : o # b => Same(o)
    BY <2>1, OthersStay
  <2>3. TypeOK'
    BY <2>1, TypesStep
  <2>4. \A o \in Bakes : Flow(o)'
    <3>1. Flow(b)'
      BY <2>1, FlowStep
    <3>2. ASSUME NEW o \in Bakes, o # b PROVE Flow(o)'
      BY <2>1, <2>2, <3>2, FlowOthers
    <3> QED BY <3>1, <3>2
  <2>5. \A o \in Bakes : Loops(o)'
    BY <2>1, <2>4, LoopsStep
  <2>6. \A o \in Bakes : Content(o)'
    <3>1. Content(b)'
      BY <2>1, ContentStep
    <3>2. ASSUME NEW o \in Bakes, o # b PROVE Content(o)'
      <4>1. \A f \in {"image", "raw", "iso"} : <<o, f>> \in provisioned' <=> <<o, f>> \in provisioned
        BY <2>1, <3>2, FilesStay
      <4>2. target[o] \in {"image", "iso"}
        BY <2>1 DEF TypeOK
      <4> QED BY <2>1, <2>2, <3>2, <4>1, <4>2, ContentOthers
    <3> QED BY <3>1, <3>2
  <2>7. \A o \in Bakes : Covered(o)'
    <3>1. Covered(b)'
      BY <2>1, CoveredStep
    <3>2. ASSUME NEW o \in Bakes, o # b PROVE Covered(o)'
      <4>1. \A q \in Points : <<o, q>> \in mounts' <=> <<o, q>> \in mounts
        BY <3>2, MountsStay
      <4> QED BY <2>1, <2>2, <3>2, <4>1, CoveredOthers
    <3> QED BY <3>1, <3>2
  <2>8. \A o \in Bakes : Own(o)'
    BY <2>1, <2>2, OwnStep
  <2> QED BY <2>3, <2>4, <2>5, <2>6, <2>7, <2>8 DEF IInv
<1>2. CASE UNCHANGED vars
  <2>1. TypeOK'
    BY <1>2 DEF IInv, TypeOK, vars, local, kernel, files
  <2>2. ASSUME NEW b \in Bakes PROVE Flow(b)' /\ Loops(b)' /\ Own(b)' /\ Content(b)' /\ Covered(b)'
    <3>1. Flow(b) /\ Loops(b) /\ Own(b) /\ Content(b) /\ Covered(b)
      BY DEF IInv
    <3>2. Flow(b)'
      BY <1>2, <3>1 DEF vars, local, kernel, files, Flow
    <3>3. Loops(b)' /\ Own(b)'
      BY <1>2, <3>1 DEF vars, local, kernel, files, Loops, Holds, Held, Entries, Entered, Alone,
                        Own, Stale, Done, Behind, Image, Raw
    <3>4. Content(b)'
      BY <1>2, <3>1 DEF vars, local, kernel, files, Content, Behind, LeftInRaw, Target, Image, Raw
    <3>5. Covered(b)'
      BY <1>2, <3>1 DEF vars, local, kernel, files, Covered
    <3> QED BY <3>2, <3>3, <3>4, <3>5
  <2> QED BY <2>1, <2>2 DEF IInv
<1> QED BY <1>1, <1>2

LEMMA Invariant == Spec => []IInv
PROOF
<1>1. Init => IInv
  BY InitHolds
<1>2. IInv /\ [Next]_vars => IInv'
  BY Inductive
<1> QED BY <1>1, <1>2, PTL DEF Spec

\* The statements of provision, of the finally clauses and of bake leave every
\* variable with a value of its type.
THEOREM ProvisioningTypes == Spec => []TypeOK
PROOF
<1>1. IInv => TypeOK
  BY DEF IInv
<1> QED BY <1>1, Invariant, PTL

\* For any number of bakes, processes and devices: a device holds a file of a bake
\* as long as that bake will detach it, except where the partitions never showed
\* (_attach_loop, _detach_loop, and the losetup calls of the other backends).
THEOREM LoopSafety == Spec => []LoopHeld
PROOF
<1>1. ASSUME IInv, NEW d \in Devices, NEW b \in Bakes, pc[b] # "killed", outcome[b] # "missing"
      PROVE  lo[b] = d /\ pc[b] # "over" <=> backing[d] \in {Image(b), Raw(b)}
  <2>1. Flow(b) /\ Loops(b)
    BY <1>1 DEF IInv
  <2>2. lo[b] = d => pc[b] # "over" /\ backing[d] \in {Image(b), Raw(b)}
    BY <1>1, <2>1, Nothing DEF Flow, Loops, Holds, Behind
  <2>3. backing[d] \in {Image(b), Raw(b)} => lo[b] = d
    BY <1>1, <2>1 DEF Loops, Held
  <2> QED BY <2>2, <2>3
<1>2. IInv => LoopHeld
  BY <1>1 DEF LoopHeld
<1> QED BY <1>2, Invariant, PTL

\* For any number of bakes, processes and devices: an entry of _LOOP_QCOW2 outlives its
\* device after a batocera bake only (batocera_pkg calls losetup -d itself), and no
\* bake ever packs the raw copy of another one (_attach_loop, _detach_loop).
THEOREM EntrySafety == Spec => []EntryMatches
PROOF
<1>1. ASSUME IInv, NEW p \in Processes, NEW d \in Devices, NEW b \in Bakes, loopQcow2[p][d] = b
      PROVE  backing[d] = Raw(b) \/ kind[b] = "batocera"
  BY <1>1 DEF IInv, Loops, Entries, Stale
<1>2. ASSUME IInv, NEW b \in Bakes, pc[b] = "repack", repacks[b] \in raws PROVE repacks[b] = b
  BY <1>2, RepacksOwn DEF IInv
<1>3. IInv => EntryMatches
  BY <1>1, <1>2 DEF EntryMatches
<1> QED BY <1>3, Invariant, PTL

\* However provision leaves its try block, the rmtree of bake meets no mount.
THEOREM MountSafety == Spec => []MountsInWorkDirs
PROOF
<1>1. ASSUME IInv, NEW m \in mounts PROVE m[1] \in dirs
  <2>1. PICK b \in Bakes, q \in Points : m = <<b, q>>
    BY <1>1 DEF IInv, TypeOK
  <2>2. Flow(b) /\ Covered(b)
    BY <1>1 DEF IInv
  <2>3. pc[b] \notin {"idle", "over"}
    BY <2>1, <2>2 DEF Covered
  <2> QED BY <2>1, <2>2, <2>3 DEF Flow
<1>2. IInv => MountsInWorkDirs
  BY <1>1 DEF MountsInWorkDirs
<1> QED BY <1>2, Invariant, PTL

\* The file that is published is the one that the states were applied to, whether
\* it was mounted as it is, through a raw copy, or written by a tool; a qcow2 image
\* of batocera, and no other, is published as it came (batocera_pkg, _detach_loop).
THEOREM PublishedSafety == Spec => []AppliedIsPublished
PROOF
<1>1. IInv => AppliedIsPublished
  BY DEF IInv, Content, AppliedIsPublished
<1> QED BY <1>1, Invariant, PTL

\* A build with states to apply is applied or fails (_mount_and_provision).
THEOREM SaltSafety == Spec => []SaltedIsApplied
PROOF
<1>1. ASSUME IInv, NEW b \in salted PROVE published[b] # "upstream"
  <2>1. b \in Bakes
    BY <1>1 DEF IInv, TypeOK
  <2>2. Flow(b) /\ Content(b)
    BY <1>1, <2>1 DEF IInv
  <2>3. outcome[b] # "skipped" /\ ~LeftInRaw(b)
    BY <1>1, <2>2 DEF Flow, LeftInRaw
  <2> QED BY <2>2, <2>3, NothingAssumption DEF Content, Publications
<1>2. IInv => SaltedIsApplied
  BY <1>1 DEF SaltedIsApplied
<1> QED BY <1>2, Invariant, PTL
=============================================================================
