------------------------ MODULE UpstreamMirror_proofs ------------------------
(***************************************************************************)
(* Type correctness of UpstreamMirror, and: a row that is shown as syncing *)
(* has a request, a message or a job that will settle it, however many     *)
(* rows share an object and however drops and refreshes overlap; and, with *)
(* objects of their own and drops that keep clear of refreshes, a mirrored *)
(* row has its object.                                                     *)
(***************************************************************************)
EXTENDS UpstreamMirror, TLAPS

\* What settles row i.
Cared(i) ==
  \/ i \in asked \/ queue[i] > 0 \/ Killed(i)
  \/ \E j \in JobsOf(i) : ~job[j].manual

USE DEF Steps, Running, Job, NoJob

LEMMA InitTypes == Init => TypeOK
BY KeyAssumption DEF Init, TypeOK

LEMMA NoJobIsNone == \A r \in Job : r # NoJob /\ r.img \in Images
BY NothingAssumption

LEMMA BeginTypes ==
  ASSUME TypeOK, NEW j \in Jobs, NEW i \in Images,
         NEW byHand \in BOOLEAN, NEW force \in BOOLEAN, Begin(j, i, byHand, force)
  PROVE  job' \in [Jobs -> Job \cup {NoJob}]
BY DEF Begin, TypeOK

LEMMA GotoTypes ==
  ASSUME TypeOK, NEW j \in Jobs, NEW label \in Running \cup {"killed"},
         job[j].pc # "unused", Goto(j, label)
  PROVE  job' \in [Jobs -> Job \cup {NoJob}]
<1>1. job[j] \in Job
  BY DEF TypeOK
<1>2. [job[j] EXCEPT !.pc = label] \in Job
  BY <1>1
<1> QED
  BY <1>2 DEF Goto, TypeOK

LEMMA RetireTypes ==
  ASSUME TypeOK, NEW j \in Jobs, Retire(j)
  PROVE  job' \in [Jobs -> Job \cup {NoJob}]
BY DEF Retire, TypeOK

LEMMA MirroredKey ==
  ASSUME TypeOK, NEW j \in Jobs, job[j].pc \in Running
  PROVE  job[j] \in Job /\ job[j].img \in Images /\ KeyOfJob(j) \in Keys
BY KeyAssumption DEF TypeOK, KeyOfJob

\* Every operation keeps the types.
LEMMA WebTypes ==
  ASSUME TypeOK, NEW i \in Images, WebStep(i)
  PROVE  TypeOK'
<1>1. CASE MarkSyncing(i)
  BY <1>1 DEF TypeOK, MarkSyncing, store
<1>2. CASE SendSync(i)
  <2>1. queue' \in [Images -> Nat]
    BY <1>2 DEF TypeOK, SendSync
  <2> QED
    BY <1>2, <2>1 DEF TypeOK, SendSync, rows, store, counts
<1>3. CASE DropBlob(i)
  <2>1. blob' \in [Keys -> Nat \cup {None}]
    BY <1>3 DEF TypeOK, DropBlob
  <2> QED
    BY <1>3, <2>1 DEF TypeOK, DropBlob, rows, counts
<1>4. CASE DropRow(i)
  BY <1>4 DEF TypeOK, DropRow, store, counts
<1> QED
  BY <1>1, <1>2, <1>3, <1>4 DEF WebStep

LEMMA StartTypes ==
  ASSUME TypeOK, NEW i \in Images, NEW j \in Jobs,
         Take(j, i) \/ \E force \in BOOLEAN : Command(j, i, force)
  PROVE  TypeOK'
<1>1. CASE Take(j, i)
  <2>1. job' \in [Jobs -> Job \cup {NoJob}]
    BY <1>1, BeginTypes DEF Take
  <2>2. queue' \in [Images -> Nat]
    BY <1>1 DEF TypeOK, Take
  <2> QED
    BY <1>1, <2>1, <2>2 DEF TypeOK, Take, Begin, rows, store
<1>2. ASSUME NEW force \in BOOLEAN, Command(j, i, force)
      PROVE  TypeOK'
  <2>1. job' \in [Jobs -> Job \cup {NoJob}]
    BY <1>2, BeginTypes DEF Command
  <2> QED
    BY <1>2, <2>1 DEF TypeOK, Command, Begin, rows, store
<1> QED
  BY <1>1, <1>2

LEMMA JobTypes ==
  ASSUME TypeOK, NEW j \in Jobs, JobStep(j)
  PROVE  TypeOK'
<1>0. job[j].pc \in Running /\ job[j].pc # "unused"
  BY DEF JobStep, Check, Stamp, Fetch, RemoveOld, Save, Record, Raise, Settle, ClearMarker, At
<1>a. job[j] \in Job /\ job[j].img \in Images /\ KeyOfJob(j) \in Keys
  BY <1>0, MirroredKey
<1>1. CASE Check(j) \/ Raise(j)
  <2>1. job' \in [Jobs -> Job \cup {NoJob}]
    BY <1>0, <1>1, GotoTypes DEF Check, Raise
  <2> QED
    BY <1>1, <2>1 DEF TypeOK, Check, Raise, rows, store, web, counts
<1>2. CASE Stamp(j)
  <2>1. job' \in [Jobs -> Job \cup {NoJob}]
    BY <1>0, <1>2, GotoTypes DEF Stamp
  <2>2. key' \in [Images -> Keys \cup {None}]
    BY <1>a, <1>2 DEF Stamp, TypeOK
  <2> QED
    BY <1>2, <2>1, <2>2 DEF TypeOK, Stamp, store, web, counts
<1>3. CASE Fetch(j)
  <2>1. upstream[KeyOfJob(j)] \in Nat
    BY <1>a DEF TypeOK
  <2>2. [job[j] EXCEPT !.pc = "remove", !.raw = upstream[KeyOfJob(j)]] \in Job
    BY <1>a, <2>1
  <2>3. job' \in [Jobs -> Job \cup {NoJob}]
    BY <1>3, <2>2 DEF Fetch, TypeOK
  <2> QED
    BY <1>3, <2>3 DEF TypeOK, Fetch, rows, store, web, counts
<1>4. CASE RemoveOld(j)
  <2>1. job' \in [Jobs -> Job \cup {NoJob}]
    BY <1>0, <1>4, GotoTypes DEF RemoveOld
  <2>2. blob' \in [Keys -> Nat \cup {None}] /\ replacing' \subseteq Keys
    BY <1>a, <1>4 DEF RemoveOld, TypeOK
  <2> QED
    BY <1>4, <2>1, <2>2 DEF TypeOK, RemoveOld, rows, web, counts
<1>5. CASE Save(j)
  <2>1. job' \in [Jobs -> Job \cup {NoJob}]
    BY <1>0, <1>5, GotoTypes DEF Save
  <2>2. blob' \in [Keys -> Nat \cup {None}] /\ replacing' \subseteq Keys
    BY <1>a, <1>5 DEF Save, TypeOK
  <2> QED
    BY <1>5, <2>1, <2>2 DEF TypeOK, Save, rows, web, counts
<1>6. CASE Record(j)
  <2>1. job' \in [Jobs -> Job \cup {NoJob}]
    BY <1>0, <1>6, GotoTypes DEF Record
  <2>2. key' \in [Images -> Keys \cup {None}] /\ checksum' \in [Images -> Nat \cup {None}]
    BY <1>a, <1>6 DEF Record, TypeOK
  <2> QED
    BY <1>6, <2>1, <2>2 DEF TypeOK, Record, store, web, counts
<1>7. CASE Settle(j)
  <2>1. job' \in [Jobs -> Job \cup {NoJob}]
    BY <1>0, <1>7, GotoTypes, RetireTypes DEF Settle
  <2> QED
    BY <1>7, <2>1 DEF TypeOK, Settle, rows, store, web, counts
<1>8. CASE ClearMarker(j)
  <2>1. job' \in [Jobs -> Job \cup {NoJob}]
    BY <1>8, RetireTypes DEF ClearMarker
  <2> QED
    BY <1>8, <2>1 DEF TypeOK, ClearMarker, store, web, counts
<1> QED
  BY <1>1, <1>2, <1>3, <1>4, <1>5, <1>6, <1>7, <1>8 DEF JobStep

LEMMA CrashTypes ==
  ASSUME TypeOK, NEW j \in Jobs, KillJob(j) \/ LoseWorker(j)
  PROVE  TypeOK'
<1>0. job[j].pc \in Running /\ job[j].pc # "unused"
  BY DEF KillJob, LoseWorker, Crash
<1>a. job[j].img \in Images
  BY <1>0, MirroredKey
<1>1. job' \in [Jobs -> Job \cup {NoJob}]
  BY <1>0, GotoTypes, RetireTypes DEF KillJob, LoseWorker
<1>2. queue' \in [Images -> Nat]
  BY <1>a DEF KillJob, LoseWorker, TypeOK
<1>3. crashes' \in Nat /\ UNCHANGED <<rows, store, asked, dropping, syncs, commands>>
  BY DEF KillJob, LoseWorker, Crash, TypeOK
<1> QED
  BY <1>1, <1>2, <1>3 DEF TypeOK, rows, store

LEMMA TypeStep == TypeOK /\ [Next]_vars => TypeOK'
<1> SUFFICES ASSUME TypeOK, [Next]_vars PROVE TypeOK'
  OBVIOUS
<1>1. ASSUME NEW k \in Keys, ReleaseInPlace(k) PROVE TypeOK'
  BY <1>1 DEF TypeOK, ReleaseInPlace, rows, web, counts
<1>2. CASE UNCHANGED vars
  BY <1>2 DEF TypeOK, vars, rows, store, web, counts
<1> QED
  BY <1>1, <1>2, WebTypes, StartTypes, JobTypes, CrashTypes DEF Next

\* Every reachable state has the declared types (any rows, keys and sharing).
THEOREM TypeSafety == Spec => []TypeOK
<1> QED
  BY InitTypes, TypeStep, PTL DEF Spec

-----------------------------------------------------------------------------
(* SyncingHasJob is inductive: a step that takes the last thing away that   *)
(* cares for a row either hands the row on or leaves it not syncing.        *)

\* A job that cares for a row.
Cares(j, i) ==
  job[j].img = i /\ (job[j].pc = "killed" \/ (job[j].pc \in Running /\ ~job[j].manual))

LEMMA CaredBy ==
  ASSUME NEW i \in Images
  PROVE  Cared(i) <=> i \in asked \/ queue[i] > 0 \/ \E j \in Jobs : Cares(j, i)
BY DEF Cared, Cares, Killed, JobsOf

LEMMA SyncingCared == SyncingHasJob <=> \A i \in Images : Syncing(i) => Cared(i)
BY DEF SyncingHasJob, Cared

\* A job goes on: its row is still in its hands, and so are the others'.
LEMMA GotoCares ==
  ASSUME TypeOK, NEW j \in Jobs, NEW label \in Running \cup {"killed"},
         job[j].pc \in Running, Goto(j, label), NEW c \in Jobs, NEW i \in Images,
         Cares(c, i)
  PROVE  Cares(c, i)'
<1>1. job[j] \in Job /\ job \in [Jobs -> Job \cup {NoJob}]
  BY MirroredKey DEF TypeOK
<1>2. CASE c = j
  <2>1. job'[c] = [job[j] EXCEPT !.pc = label]
    BY <1>1, <1>2 DEF Goto
  <2>2. job'[c].pc = label /\ job'[c].img = job[j].img /\ job'[c].manual = job[j].manual
    BY <1>1, <2>1
  <2> QED
    BY <1>2, <2>2 DEF Cares
<1>3. CASE c # j
  BY <1>1, <1>3 DEF Goto, Cares
<1> QED
  BY <1>2, <1>3

\* A job ends: it lets go of its own row only.
LEMMA RetireCares ==
  ASSUME TypeOK, NEW j \in Jobs, Retire(j), NEW c \in Jobs, NEW i \in Images,
         Cares(c, i), job[j].img # i
  PROVE  Cares(c, i)'
BY DEF TypeOK, Retire, Cares

LEMMA BeginCares ==
  ASSUME TypeOK, NEW j \in Jobs, NEW i \in Images, NEW byHand \in BOOLEAN,
         NEW force \in BOOLEAN, Begin(j, i, byHand, force)
  PROVE  /\ \A c \in Jobs, r \in Images : Cares(c, r) => Cares(c, r)'
         /\ ~byHand => Cares(j, i)'
BY DEF TypeOK, Begin, Cares

LEMMA WebKeepsJob ==
  ASSUME ~BrokerFails, TypeOK, SyncingHasJob, NEW w \in Images, WebStep(w)
  PROVE  SyncingHasJob'
<1> SUFFICES ASSUME NEW i \in Images, Syncing(i)' PROVE Cared(i)'
  BY DEF SyncingHasJob, Cared
<1>0. job' = job /\ (Killed(i)' <=> Killed(i)) /\ JobsOf(i)' = JobsOf(i)
  BY DEF WebStep, MarkSyncing, SendSync, DropBlob, DropRow, Killed, JobsOf
<1>1. CASE MarkSyncing(w)
  <2>1. CASE i = w
    BY <1>1, <2>1 DEF MarkSyncing, Cared
  <2>2. CASE i # w
    <3>1. Cared(i)
      BY <1>1, <2>2, SyncingCared DEF MarkSyncing, Syncing
    <3> QED
      BY <1>0, <1>1, <3>1 DEF MarkSyncing, Cared
  <2> QED
    BY <2>1, <2>2
<1>2. CASE SendSync(w)
  <2>1. Cared(i)
    BY <1>2, SyncingCared DEF SendSync, Syncing, rows
  <2>2. queue'[i] >= queue[i] /\ (i = w => queue'[i] > 0)
    BY <1>2 DEF SendSync, TypeOK
  <2>3. queue[i] \in Nat /\ queue'[i] \in Nat
    BY <1>2 DEF SendSync, TypeOK
  <2> QED
    BY <1>0, <1>2, <2>1, <2>2, <2>3 DEF SendSync, Cared
<1>3. CASE DropBlob(w)
  <2>1. Cared(i)
    BY <1>3, SyncingCared DEF DropBlob, Syncing, rows
  <2> QED
    BY <1>0, <1>3, <2>1 DEF DropBlob, Cared
<1>4. CASE DropRow(w)
  <2>1. i # w /\ Syncing(i)
    BY <1>4 DEF DropRow, Syncing, TypeOK
  <2>2. Cared(i)
    BY <2>1, SyncingCared
  <2> QED
    BY <1>0, <1>4, <2>2 DEF DropRow, Cared
<1> QED
  BY <1>1, <1>2, <1>3, <1>4 DEF WebStep

LEMMA StartKeepsJob ==
  ASSUME TypeOK, SyncingHasJob, NEW j \in Jobs, NEW n \in Images,
         Take(j, n) \/ \E force \in BOOLEAN : Command(j, n, force)
  PROVE  SyncingHasJob'
<1> SUFFICES ASSUME NEW i \in Images, Syncing(i)' PROVE Cared(i)'
  BY DEF SyncingHasJob, Cared
<1>1. Cared(i)
  BY SyncingCared DEF Take, Command, Begin, Syncing, rows
<1>2. CASE Take(j, n)
  <2>1. asked' = asked /\ queue' = [queue EXCEPT ![n] = @ - 1]
    BY <1>2 DEF Take, Begin
  <2>2. (\A c \in Jobs, r \in Images : Cares(c, r) => Cares(c, r)') /\ Cares(j, n)'
    BY <1>2, BeginCares DEF Take
  <2>3. CASE i = n
    BY <2>2, <2>3 DEF Cared, Cares, Killed, JobsOf
  <2>4. CASE i # n
    <3>1. queue'[i] = queue[i]
      BY <2>1, <2>4 DEF TypeOK
    <3>2. i \in asked' \/ queue'[i] > 0 \/ \E c \in Jobs : Cares(c, i)'
      BY <1>1, <2>1, <2>2, <3>1, CaredBy
    <3> QED
      BY <3>2 DEF Cared, Cares, Killed, JobsOf
  <2> QED
    BY <2>3, <2>4
<1>3. ASSUME NEW force \in BOOLEAN, Command(j, n, force)
      PROVE  Cared(i)'
  <2>1. asked' = asked /\ queue' = queue
    BY <1>3 DEF Command, Begin
  <2>2. \A c \in Jobs, r \in Images : Cares(c, r) => Cares(c, r)'
    BY <1>3, BeginCares DEF Command
  <2>3. i \in asked' \/ queue'[i] > 0 \/ \E c \in Jobs : Cares(c, i)'
    BY <1>1, <2>1, <2>2, CaredBy
  <2> QED
    BY <2>3 DEF Cared, Cares, Killed, JobsOf
<1> QED
  BY <1>2, <1>3

LEMMA JobKeepsJob ==
  ASSUME TypeOK, SyncingHasJob, NEW j \in Jobs, JobStep(j)
  PROVE  SyncingHasJob'
<1> SUFFICES ASSUME NEW i \in Images, Syncing(i)' PROVE Cared(i)'
  BY DEF SyncingHasJob, Cared
<1>0. /\ job[j].pc \in Running
      /\ asked' = asked /\ queue' = queue
  BY DEF JobStep, Check, Stamp, Fetch, RemoveOld, Save, Record, Raise, Settle, ClearMarker,
         At, web
<1>a. job[j] \in Job /\ job[j].img \in Images /\ KeyOfJob(j) \in Keys
  BY <1>0, MirroredKey
<1>b. SUFFICES (\E c \in Jobs : Cares(c, i)) => \E c \in Jobs : Cares(c, i)'
  <2>1. Syncing(i)
    BY <1>a, NothingAssumption DEF JobStep, Check, Stamp, Fetch, RemoveOld, Save, Record,
       Raise, Settle, ClearMarker, Syncing, rows, TypeOK
  <2>2. Cared(i)
    BY <2>1, SyncingCared
  <2>3. i \in asked' \/ queue'[i] > 0 \/ \E c \in Jobs : Cares(c, i)'
    BY <1>0, <1>b, <2>2, CaredBy
  <2> QED
    BY <2>3 DEF Cared, Cares, Killed, JobsOf
<1> SUFFICES ASSUME NEW c \in Jobs, Cares(c, i) PROVE \E d \in Jobs : Cares(d, i)'
  OBVIOUS
<1>1. ASSUME NEW label \in Running, Goto(j, label) PROVE Cares(c, i)'
  BY <1>0, <1>1, GotoCares
<1>2. CASE Check(j) \/ Stamp(j) \/ RemoveOld(j) \/ Save(j) \/ Record(j) \/ Raise(j)
  <2>1. \E label \in Running : Goto(j, label)
    BY <1>2 DEF Check, Stamp, RemoveOld, Save, Record, Raise
  <2> QED
    BY <1>1, <2>1
<1>3. CASE Fetch(j)
  <2>1. CASE c = j
    <3>1. job'[c] = [job[j] EXCEPT !.pc = "remove", !.raw = upstream[KeyOfJob(j)]]
      BY <1>3, <2>1 DEF Fetch, TypeOK
    <3>2. job'[c].pc = "remove" /\ job'[c].img = job[j].img /\ job'[c].manual = job[j].manual
      BY <1>a, <3>1
    <3> QED
      BY <1>0, <2>1, <3>2 DEF Cares
  <2>2. CASE c # j
    BY <1>3, <2>2 DEF Fetch, Cares, TypeOK
  <2> QED
    BY <2>1, <2>2
<1>4. CASE Settle(j)
  <2>1. CASE ~job[j].manual /\ key[job[j].img] = None
    BY <1>1, <1>4, <2>1 DEF Settle
  <2>2. CASE job[j].manual \/ key[job[j].img] # None
    <3>1. Retire(j)
      BY <1>4, <2>2 DEF Settle
    <3>2. CASE job[j].img # i
      BY <3>1, <3>2, RetireCares
    <3>3. CASE job[j].img = i
      <4>1. job[j].manual
        BY <1>4, <2>2, <3>3 DEF Settle, Syncing, rows
      <4>2. c # j
        BY <1>0, <4>1 DEF Cares
      <4> QED
        BY <3>1, <4>2 DEF Retire, Cares, TypeOK
    <3> QED
      BY <3>2, <3>3
  <2> QED
    BY <2>1, <2>2
<1>5. CASE ClearMarker(j)
  <2>1. Retire(j) /\ job[j].img # i
    BY <1>5 DEF ClearMarker, Syncing
  <2> QED
    BY <2>1, RetireCares
<1> QED
  BY <1>2, <1>3, <1>4, <1>5 DEF JobStep

LEMMA CrashKeepsJob ==
  ASSUME TypeOK, SyncingHasJob, NEW j \in Jobs, KillJob(j) \/ LoseWorker(j)
  PROVE  SyncingHasJob'
<1> SUFFICES ASSUME NEW i \in Images, Syncing(i)' PROVE Cared(i)'
  BY DEF SyncingHasJob, Cared
<1>0. job[j].pc \in Running /\ asked' = asked
  BY DEF KillJob, LoseWorker, Crash
<1>a. job[j].img \in Images
  BY <1>0, MirroredKey
<1>1. Cared(i)
  BY SyncingCared DEF KillJob, LoseWorker, Crash, Syncing, rows
<1>2. CASE KillJob(j)
  <2>1. queue' = queue /\ Goto(j, "killed")
    BY <1>2 DEF KillJob
  <2>2. \A c \in Jobs : Cares(c, i) => Cares(c, i)'
    BY <1>0, <2>1, GotoCares
  <2>3. i \in asked' \/ queue'[i] > 0 \/ \E c \in Jobs : Cares(c, i)'
    BY <1>0, <1>1, <2>1, <2>2, CaredBy
  <2> QED
    BY <2>3 DEF Cared, Cares, Killed, JobsOf
<1>3. CASE LoseWorker(j)
  <2>1. queue' = [queue EXCEPT ![job[j].img] = @ + 1] /\ Retire(j)
    BY <1>3 DEF LoseWorker
  <2>2. CASE job[j].img = i
    <3>1. queue'[i] > 0
      BY <1>a, <2>1, <2>2 DEF TypeOK
    <3> QED
      BY <3>1 DEF Cared
  <2>3. CASE job[j].img # i
    <3>1. queue'[i] = queue[i]
      BY <1>a, <2>1, <2>3 DEF TypeOK
    <3>2. \A c \in Jobs : Cares(c, i) => Cares(c, i)'
      BY <2>1, <2>3, RetireCares
    <3>3. i \in asked' \/ queue'[i] > 0 \/ \E c \in Jobs : Cares(c, i)'
      BY <1>0, <1>1, <3>1, <3>2, CaredBy
    <3> QED
      BY <3>3 DEF Cared, Cares, Killed, JobsOf
  <2> QED
    BY <2>2, <2>3
<1> QED
  BY <1>2, <1>3 DEF KillJob, LoseWorker

\* A row shown as syncing is in somebody's hands, whatever rows share an object
\* and also when drops run into refreshes (DropWhileBusy), given a broker that
\* takes the message.
THEOREM SyncingSafety ==
  ASSUME ~BrokerFails
  PROVE  Spec => []SyncingHasJob
<1>1. Init => SyncingHasJob
  BY DEF Init, SyncingHasJob, Syncing
<1>2. TypeOK /\ SyncingHasJob /\ [Next]_vars => SyncingHasJob'
  <2> SUFFICES ASSUME TypeOK, SyncingHasJob, [Next]_vars PROVE SyncingHasJob'
    OBVIOUS
  <2>1. ASSUME NEW k \in Keys, ReleaseInPlace(k) PROVE SyncingHasJob'
    BY <2>1 DEF ReleaseInPlace, SyncingHasJob, Syncing, Killed, JobsOf, rows, web
  <2>2. CASE UNCHANGED vars
    BY <2>2 DEF SyncingHasJob, Syncing, Killed, JobsOf, vars, rows, web
  <2> QED
    BY <2>1, <2>2, WebKeepsJob, StartKeepsJob, JobKeepsJob, CrashKeepsJob DEF Next
<1> QED
  BY <1>1, <1>2, TypeSafety, PTL DEF Spec

-----------------------------------------------------------------------------
(* MirroredHasBlob                                                         *)
(*                                                                         *)
(* The object of a key is there from the moment a job stamps or records it *)
(* until a drop removes it; a drop waits for the jobs, messages and        *)
(* requests of its row, and they wait for it.                              *)

There(k) == blob[k] # None \/ k \in replacing

\* What a job relies on: the object it is about to write into the row, and the
\* content it is about to save.
Relies(j) ==
  /\ job[j].pc \in {"stamp", "record"} => There(KeyOfJob(j))
  /\ job[j].pc \in {"remove", "save"} => job[j].raw # None

\* A row that is being dropped is nobody else's.
LeftAlone(i) ==
  i \in dropping =>
    /\ i \notin asked /\ queue[i] = 0
    /\ \A j \in Jobs : job[j].img = i => job[j].pc \notin Running

RowOK(i) == key[i] # None => key[i] = KeyOf[i] /\ (i \in dropping \/ There(KeyOf[i]))

BlobInv ==
  /\ \A i \in Images : RowOK(i) /\ LeftAlone(i)
  /\ \A j \in Jobs : Relies(j)

Owned == ~DropWhileBusy /\ \A i, s \in Images : KeyOf[i] = KeyOf[s] => i = s

LEMMA InitBlob == Init => BlobInv
BY DEF Init, BlobInv, RowOK, LeftAlone, Relies, NoJob, Running, Steps

LEMMA NotBusy ==
  ASSUME NEW i \in Images, ~Busy(i)
  PROVE  i \notin asked /\ ~(queue[i] > 0) /\ \A j \in Jobs : job[j].img = i => job[j].pc \notin Running
<1>1. i \in Sharing(i)
  BY DEF Sharing
<1> QED
  BY <1>1 DEF Busy, JobsOf

LEMMA WebKeepsBlob ==
  ASSUME Owned, TypeOK, BlobInv, NEW i \in Images, WebStep(i)
  PROVE  BlobInv'
<1>0. i \in Sharing(i)
  BY DEF Sharing
<1>1. CASE MarkSyncing(i)
  <2>1. i \notin dropping
    BY <1>0, <1>1 DEF MarkSyncing, Owned
  <2>2. asked' = asked \cup {i} /\ UNCHANGED <<key, store, queue, dropping, job>>
    BY <1>1 DEF MarkSyncing
  <2> QED
    BY <2>1, <2>2 DEF BlobInv, RowOK, LeftAlone, Relies, There, KeyOfJob, store
<1>2. CASE SendSync(i)
  <2>1. i \notin dropping
    BY <1>2 DEF SendSync, BlobInv, LeftAlone
  <2>2. /\ asked' \subseteq asked /\ UNCHANGED <<rows, store, dropping, job>>
        /\ \A s \in Images : s # i => queue'[s] = queue[s]
    BY <1>2 DEF SendSync, TypeOK
  <2> QED
    BY <2>1, <2>2 DEF BlobInv, RowOK, LeftAlone, Relies, There, KeyOfJob, store, rows
<1>3. CASE DropBlob(i)
  <2>1. key[i] = KeyOf[i] /\ key[i] \in Keys
    BY <1>3, KeyAssumption DEF DropBlob, BlobInv, RowOK
  <2>2. /\ dropping' = dropping \cup {i} /\ UNCHANGED <<key, replacing, asked, queue, job>>
        /\ \A k \in Keys : k # KeyOf[i] => blob'[k] = blob[k]
    BY <1>3, <2>1 DEF DropBlob, TypeOK, rows
  <2>3. /\ i \notin asked /\ ~(queue[i] > 0)
        /\ \A j \in Jobs : job[j].img = i => job[j].pc \notin Running
    BY <1>3, NotBusy DEF DropBlob, Owned
  <2>4. queue[i] = 0
    BY <2>3 DEF TypeOK
  <2>5. ASSUME NEW s \in Images PROVE RowOK(s)' /\ LeftAlone(s)'
    <3>1. s # i => KeyOf[s] # KeyOf[i] /\ KeyOf[s] \in Keys
      BY KeyAssumption DEF Owned
    <3>2. RowOK(s)'
      BY <2>2, <3>1 DEF BlobInv, RowOK, There
    <3>3. LeftAlone(s)'
      BY <2>2, <2>3, <2>4 DEF BlobInv, LeftAlone
    <3> QED
      BY <3>2, <3>3
  <2>6. ASSUME NEW j \in Jobs PROVE Relies(j)'
    <3>1. CASE job[j].pc \in {"stamp", "record"}
      <4>1. job[j].img \in Images /\ job[j].img # i /\ KeyOfJob(j) \in Keys
        BY <2>3, <3>1, MirroredKey DEF Running, Steps
      <4>2. KeyOfJob(j) # KeyOf[i]
        BY <4>1 DEF Owned, KeyOfJob
      <4>3. There(KeyOfJob(j))
        BY <3>1 DEF BlobInv, Relies
      <4> QED
        BY <2>2, <3>1, <4>1, <4>2, <4>3 DEF Relies, There, KeyOfJob
    <3>2. CASE job[j].pc \notin {"stamp", "record"}
      BY <2>2, <3>2 DEF BlobInv, Relies
    <3> QED
      BY <3>1, <3>2
  <2> QED
    BY <2>5, <2>6 DEF BlobInv
<1>4. CASE DropRow(i)
  <2>1. /\ key'[i] = None /\ dropping' \subseteq dropping /\ UNCHANGED <<store, asked, queue, job>>
        /\ \A s \in Images : s # i => key'[s] = key[s] /\ (s \in dropping' <=> s \in dropping)
    BY <1>4 DEF DropRow, TypeOK
  <2> QED
    BY <2>1 DEF BlobInv, RowOK, LeftAlone, Relies, There, KeyOfJob, store
<1> QED
  BY <1>1, <1>2, <1>3, <1>4 DEF WebStep

LEMMA StartKeepsBlob ==
  ASSUME Owned, TypeOK, BlobInv, NEW j \in Jobs, NEW i \in Images,
         Take(j, i) \/ (\E force \in BOOLEAN : Command(j, i, force))
  PROVE  BlobInv'
<1>1. i \notin dropping
  <2>1. i \in Sharing(i)
    BY DEF Sharing
  <2>2. CASE Take(j, i)
    BY <2>2 DEF Take, BlobInv, LeftAlone, TypeOK
  <2>3. CASE \E force \in BOOLEAN : Command(j, i, force)
    BY <2>1, <2>3 DEF Command, Owned
  <2> QED
    BY <2>2, <2>3
<1>2. UNCHANGED <<rows, store, asked, dropping>>
  BY DEF Take, Command, Begin
<1>3. \A s \in Images : s # i => queue'[s] = queue[s]
  BY DEF Take, Command, TypeOK
<1>4. PICK byHand \in BOOLEAN, force \in BOOLEAN : Begin(j, i, byHand, force)
  BY DEF Take, Command
<1>5. /\ job'[j].pc = "check" /\ job'[j].img = i
      /\ \A c \in Jobs : c # j => job'[c] = job[c]
  BY <1>4 DEF Begin, TypeOK
<1>6. ASSUME NEW s \in Images PROVE RowOK(s)' /\ LeftAlone(s)'
  BY <1>1, <1>2, <1>3, <1>5 DEF BlobInv, RowOK, LeftAlone, There, rows, store
<1>7. ASSUME NEW c \in Jobs PROVE Relies(c)'
  BY <1>2, <1>5 DEF BlobInv, Relies, There, KeyOfJob, store
<1> QED
  BY <1>6, <1>7 DEF BlobInv

\* What the steps of a job have in common: it is of a row that is not being
\* dropped, goes on with it or ends, and no object disappears but in its hands.
JobMoves(j) ==
  /\ job[j].pc \in Running
  /\ job'[j] = NoJob \/ job'[j].img = job[j].img
  /\ \A c \in Jobs : c # j => job'[c] = job[c]
  /\ UNCHANGED <<asked, dropping>>
  /\ \A s \in Images : s # job[j].img => queue'[s] = queue[s]
  /\ \A k \in Keys : There(k) => There(k)'
  /\ \A s \in Images : key'[s] # key[s] => key'[s] = KeyOf[s] /\ There(KeyOf[s])
  /\ Relies(j)'

LEMMA MovesKeepBlob ==
  ASSUME TypeOK, BlobInv, NEW j \in Jobs, JobMoves(j)
  PROVE  BlobInv'
<1>1. job[j].img \in Images /\ job[j].img \notin dropping
  BY MirroredKey DEF JobMoves, BlobInv, LeftAlone
<1>2. ASSUME NEW s \in Images PROVE RowOK(s)'
  <2>1. KeyOf[s] \in Keys
    BY KeyAssumption
  <2> QED
    BY <2>1 DEF JobMoves, BlobInv, RowOK
<1>3. ASSUME NEW s \in Images PROVE LeftAlone(s)'
  BY <1>1, NoJobIsNone, NothingAssumption DEF JobMoves, BlobInv, LeftAlone, NoJob
<1>4. ASSUME NEW c \in Jobs PROVE Relies(c)'
  <2>1. CASE c = j
    BY <2>1 DEF JobMoves
  <2>2. CASE c # j
    <3>1. job'[c] = job[c]
      BY <2>2 DEF JobMoves
    <3>2. CASE job[c].pc \in {"stamp", "record"}
      <4>1. KeyOfJob(c) \in Keys
        BY <3>2, MirroredKey DEF Running, Steps
      <4> QED
        BY <3>1, <3>2, <4>1 DEF JobMoves, BlobInv, Relies, KeyOfJob
    <3>3. CASE job[c].pc \notin {"stamp", "record"}
      BY <3>1, <3>3 DEF BlobInv, Relies
    <3> QED
      BY <3>2, <3>3
  <2> QED
    BY <2>1, <2>2
<1> QED
  BY <1>2, <1>3, <1>4 DEF BlobInv

LEMMA JobKeepsBlob ==
  ASSUME TypeOK, BlobInv, NEW j \in Jobs, JobStep(j) \/ KillJob(j) \/ LoseWorker(j)
  PROVE  BlobInv'
<1>1. job[j].pc \in Running
  BY DEF JobStep, Check, Stamp, Fetch, RemoveOld, Save, Record, Raise, Settle, ClearMarker,
         KillJob, LoseWorker, Crash, At, Running, Steps
<1>2. job[j] \in Job /\ job[j].img \in Images /\ KeyOfJob(j) \in Keys
  BY <1>1, MirroredKey
<1>3. ASSUME NEW label, Goto(j, label)
      PROVE  /\ job'[j].pc = label /\ job'[j].img = job[j].img /\ job'[j].raw = job[j].raw
             /\ \A c \in Jobs : c # j => job'[c] = job[c]
  <2>1. job'[j] = [job[j] EXCEPT !.pc = label] /\ \A c \in Jobs : c # j => job'[c] = job[c]
    BY <1>3 DEF Goto, TypeOK
  <2> QED
    BY <1>2, <2>1 DEF Job
<1>4. ASSUME Retire(j)
      PROVE  job'[j] = NoJob /\ job'[j].pc = "unused" /\ \A c \in Jobs : c # j => job'[c] = job[c]
  BY <1>4 DEF Retire, NoJob, TypeOK
<1>5. CASE Check(j) \/ Raise(j) \/ Settle(j) \/ ClearMarker(j) \/ KillJob(j) \/ LoseWorker(j)
  <2>1. UNCHANGED <<key, blob, replacing, asked, dropping>>
    BY <1>5 DEF Check, Raise, Settle, ClearMarker, KillJob, LoseWorker, Crash, rows, store, web
  <2>2. \A s \in Images : s # job[j].img => queue'[s] = queue[s]
    BY <1>5 DEF Check, Raise, Settle, ClearMarker, KillJob, LoseWorker, web, TypeOK
  <2>3. \/ Retire(j)
        \/ \E label \in {"fetch", "settle", "clear", "killed"} : Goto(j, label)
        \/ Goto(j, "stamp") /\ blob[KeyOfJob(j)] # None
    BY <1>5 DEF Check, Raise, Settle, ClearMarker, KillJob, LoseWorker
  <2>4. Relies(j)' /\ (job'[j] = NoJob \/ job'[j].img = job[j].img)
    <3>1. CASE Retire(j)
      BY <1>4, <3>1 DEF Relies
    <3>2. CASE \E label \in {"fetch", "settle", "clear", "killed"} : Goto(j, label)
      BY <1>3, <3>2 DEF Relies
    <3>3. CASE Goto(j, "stamp") /\ blob[KeyOfJob(j)] # None
      <4>1. job'[j].pc = "stamp" /\ job'[j].img = job[j].img
        BY <1>3, <3>3
      <4> QED
        BY <2>1, <3>3, <4>1 DEF Relies, There, KeyOfJob
    <3> QED
      BY <2>3, <3>1, <3>2, <3>3
  <2>5. \A c \in Jobs : c # j => job'[c] = job[c]
    BY <1>3, <1>4, <2>3
  <2>6. JobMoves(j)
    BY <1>1, <2>1, <2>2, <2>4, <2>5 DEF JobMoves, There
  <2> QED
    BY <2>6, MovesKeepBlob
<1>6. CASE Stamp(j) \/ Record(j)
  <2>1. There(KeyOf[job[j].img])
    BY <1>6 DEF Stamp, Record, At, BlobInv, Relies, KeyOfJob
  <2>2. /\ UNCHANGED <<store, web>> /\ Goto(j, "settle")
        /\ key' = [key EXCEPT ![job[j].img] = KeyOf[job[j].img]]
    BY <1>6 DEF Stamp, Record, KeyOfJob
  <2>3. \A s \in Images : key'[s] # key[s] => key'[s] = KeyOf[s] /\ There(KeyOf[s])
    BY <2>1, <2>2 DEF TypeOK
  <2>4. /\ job'[j].pc = "settle" /\ job'[j].img = job[j].img
        /\ \A c \in Jobs : c # j => job'[c] = job[c]
    BY <1>3, <2>2
  <2>5. JobMoves(j)
    BY <1>1, <2>2, <2>3, <2>4 DEF JobMoves, Relies, There, store, web
  <2> QED
    BY <2>5, MovesKeepBlob
<1>7. CASE Fetch(j)
  <2>1. /\ job'[j] = [job[j] EXCEPT !.pc = "remove", !.raw = upstream[KeyOfJob(j)]]
        /\ \A c \in Jobs : c # j => job'[c] = job[c]
    BY <1>7 DEF Fetch, TypeOK
  <2>2. job'[j].pc = "remove" /\ job'[j].img = job[j].img /\ job'[j].raw = upstream[KeyOfJob(j)]
    BY <1>2, <2>1 DEF Job
  <2>3. upstream[KeyOfJob(j)] # None
    BY <1>2, NothingAssumption DEF TypeOK
  <2>4. UNCHANGED <<rows, store, web>>
    BY <1>7 DEF Fetch
  <2>5. JobMoves(j)
    BY <1>1, <2>1, <2>2, <2>3, <2>4 DEF JobMoves, Relies, There, rows, store, web
  <2> QED
    BY <2>5, MovesKeepBlob
<1>8. CASE RemoveOld(j)
  <2>1. job[j].raw # None
    BY <1>8 DEF RemoveOld, At, BlobInv, Relies
  <2>2. UNCHANGED <<rows, web>> /\ Goto(j, "save") /\ replacing' = replacing \cup {KeyOfJob(j)}
    BY <1>8 DEF RemoveOld
  <2>3. \A k \in Keys : There(k) => There(k)'
    BY <1>8 DEF RemoveOld, There, TypeOK
  <2>4. /\ job'[j].pc = "save" /\ job'[j].img = job[j].img /\ job'[j].raw = job[j].raw
        /\ \A c \in Jobs : c # j => job'[c] = job[c]
    BY <1>3, <2>2
  <2>5. JobMoves(j)
    BY <1>1, <2>1, <2>2, <2>3, <2>4 DEF JobMoves, Relies, rows, web
  <2> QED
    BY <2>5, MovesKeepBlob
<1>9. CASE Save(j)
  <2>1. job[j].raw # None
    BY <1>9 DEF Save, At, BlobInv, Relies
  <2>2. UNCHANGED <<rows, web>> /\ Goto(j, "record") /\ blob'[KeyOfJob(j)] # None
    BY <1>2, <1>9, <2>1 DEF Save, TypeOK
  <2>3. \A k \in Keys : There(k) => There(k)'
    BY <1>9, <2>1 DEF Save, There, TypeOK
  <2>4. /\ job'[j].pc = "record" /\ job'[j].img = job[j].img
        /\ \A c \in Jobs : c # j => job'[c] = job[c]
    BY <1>3, <2>2
  <2>5. Relies(j)'
    BY <2>2, <2>4 DEF Relies, There, KeyOfJob
  <2>6. JobMoves(j)
    BY <1>1, <2>2, <2>3, <2>4, <2>5 DEF JobMoves, rows, web
  <2> QED
    BY <2>6, MovesKeepBlob
<1> QED
  BY <1>5, <1>6, <1>7, <1>8, <1>9 DEF JobStep

\* Whatever the refreshes, second requests and crashes do: where no two rows share
\* an object and drops keep clear of refreshes, a mirrored row's object is there or
\* is being replaced (_refresh_one, drop_base_image).
THEOREM BlobSafety ==
  ASSUME Owned
  PROVE  Spec => []MirroredHasBlob
<1>1. Init => BlobInv
  BY InitBlob
<1>2. TypeOK /\ BlobInv /\ [Next]_vars => BlobInv'
  <2> SUFFICES ASSUME TypeOK, BlobInv, [Next]_vars PROVE BlobInv'
    OBVIOUS
  <2>1. ASSUME NEW k \in Keys, ReleaseInPlace(k) PROVE BlobInv'
    BY <2>1 DEF ReleaseInPlace, BlobInv, RowOK, LeftAlone, Relies, There, KeyOfJob, rows, web
  <2>2. CASE UNCHANGED vars
    BY <2>2 DEF BlobInv, RowOK, LeftAlone, Relies, There, KeyOfJob, vars, rows, store, web
  <2> QED
    BY <2>1, <2>2, WebKeepsBlob, StartKeepsBlob, JobKeepsBlob DEF Next
<1>3. BlobInv => MirroredHasBlob
  BY DEF BlobInv, RowOK, There, MirroredHasBlob
<1> QED
  BY <1>1, <1>2, <1>3, TypeSafety, PTL DEF Spec

=============================================================================
