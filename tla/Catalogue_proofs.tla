-------------------------- MODULE Catalogue_proofs --------------------------
(***************************************************************************)
(* The catalogue and the versions of a recipe, for any editions, images,   *)
(* submissions and savers: no reference dangles, the seed's default is the *)
(* one default, saves that do not overlap leave the version ticked last as *)
(* the current one, and the three ways to a build agree on the image.      *)
(***************************************************************************)
EXTENDS Submission, FiniteSetTheorems, WellFoundedInduction, TLAPS

SeedStep == [pc: {"idle", "list", "image", "release", "delete"},
             images: SUBSET Image, releases: SUBSET Versions,
             rows: SUBSET Image, gone: SUBSET Versions, pins: SUBSET {"node", "recipe"}]

-----------------------------------------------------------------------------
(* What a submission leaves alone. *)

\* Only the insertion and the removal of a build touch the catalogue; no step of a
\* submission touches a version.
LEMMA SubmissionSteps ==
  ASSUME SubmissionNext
  PROVE  /\ UNCHANGED recipeVars
         /\ UNCHANGED catalogueVars \/ Insert \/ \E b \in builds : DeleteBuild(b)
<1>1. CASE Insert \/ \E b \in builds : DeleteBuild(b)
  BY <1>1 DEF Insert, DeleteBuild, recipeVars
<1>2. ASSUME NEW t, Post(t) PROVE UNCHANGED <<catalogueVars, recipeVars>>
  BY <1>2, Zenon DEF Post
<1>3. ASSUME NEW i, PostForm(i) PROVE UNCHANGED <<catalogueVars, recipeVars>>
  BY <1>3, Zenon DEF PostForm
<1>4. PostFinds \/ ShowPage \/ BakeNode => UNCHANGED <<catalogueVars, recipeVars>>
  BY Zenon DEF PostFinds, ShowPage, BakeNode
<1> QED
  BY <1>1, <1>2, <1>3, <1>4 DEF SubmissionNext

-----------------------------------------------------------------------------
(* The invariant of the catalogue. *)

\* The types of the catalogue, the builds apart.
Types ==
  /\ releases \subseteq Versions /\ defaults \subseteq Versions /\ images \subseteq Image
  /\ seeded \in Editions \cup {0} /\ seed \in SeedStep
  /\ polled \in Versions \cup {None}

\* The prune has no row of the edition in hand.
PruneSpares ==
  /\ seed.pc # "idle" => seeded # 0
  /\ seeded # 0 => /\ (seed.images \cup seed.rows) \cap SeedImages[seeded] = {}
                   /\ (seed.releases \cup seed.gone) \cap SeedReleases[seeded] = {}

Inv == Types /\ NoDangling /\ PruneSpares /\ SeedHolds

LEMMA NoneIsNothing == None \notin Versions /\ None \notin Image
BY CatalogueAssumption

LEMMA SeedTables ==
  ASSUME NEW e \in Editions
  PROVE  /\ SeedReleases[e] \subseteq Versions /\ SeedDefault[e] \in SeedReleases[e]
         /\ SeedImages[e] \subseteq Image /\ e # 0
         /\ \A i \in SeedImages[e] : i.release \in SeedReleases[e]
BY CatalogueAssumption

LEMMA ReleaseOfImage == \A i \in Image : i.release \in Versions
BY DEF Image

-----------------------------------------------------------------------------
(* The seed. *)

LEMMA SeedCatalogKeeps ==
  ASSUME Inv, NEW e \in Editions, NEW prune \in BOOLEAN, SeedCatalog(e, prune)
  PROVE  Inv'
<1> USE SeedTables, NoneIsNothing
<1>1. seed' \in SeedStep /\ seed'.images = {} /\ seed'.rows = {} /\ seed'.releases = {} /\ seed'.gone = {}
  BY DEF SeedCatalog, NoSeed, SeedStep
<1>2. Types'
  BY <1>1 DEF SeedCatalog, Inv, Types
<1>3. NoDangling'
  BY DEF SeedCatalog, Inv, NoDangling
<1>4. PruneSpares'
  BY <1>1 DEF SeedCatalog, PruneSpares
<1>5. SeedHolds'
  BY DEF SeedCatalog, SeedHolds
<1> QED
  BY <1>2, <1>3, <1>4, <1>5 DEF Inv

\* A step of the prune that only changes what it has in hand.
LEMMA InHandKeeps ==
  ASSUME Inv, seed' \in SeedStep, PruneSpares',
         UNCHANGED <<releases, defaults, images, shared, seeded, polled, pin, nodeImage, builds>>
  PROVE  Inv'
BY DEF Inv, Types, NoDangling, SeedHolds

LEMMA ListKeeps ==
  ASSUME Inv, ListImages \/ ListReleases \/ SeedEnds
  PROVE  Inv'
<1>1. CASE ListImages
  <2>1. seed' \in SeedStep /\ seed'.images = images \ SeedImages[seeded] /\ seed'.rows = seed.rows
        /\ seed'.releases = seed.releases /\ seed'.gone = seed.gone /\ seed'.pc = "image" /\ seed.pc = "list"
    BY <1>1 DEF ListImages, Inv, Types, SeedStep
  <2>2. PruneSpares'
    BY <1>1, <2>1 DEF ListImages, Inv, PruneSpares
  <2> QED
    BY <1>1, <2>1, <2>2, InHandKeeps DEF ListImages
<1>2. CASE ListReleases
  <2>1. seed' \in SeedStep /\ seed'.images = seed.images /\ seed'.rows = seed.rows
        /\ seed'.releases = releases \ SeedReleases[seeded] /\ seed'.gone = seed.gone
        /\ seed'.pc = "release" /\ seed.pc = "image"
    BY <1>2 DEF ListReleases, Inv, Types, SeedStep
  <2>2. PruneSpares'
    BY <1>2, <2>1 DEF ListReleases, Inv, PruneSpares
  <2> QED
    BY <1>2, <2>1, <2>2, InHandKeeps DEF ListReleases
<1>3. CASE SeedEnds
  <2>1. seed' \in SeedStep /\ seed' = NoSeed
    BY <1>3 DEF SeedEnds, NoSeed, SeedStep
  <2>2. PruneSpares'
    BY <1>3, <2>1 DEF SeedEnds, NoSeed, PruneSpares
  <2> QED
    BY <1>3, <2>1, <2>2, InHandKeeps DEF SeedEnds
<1> QED
  BY <1>1, <1>2, <1>3

\* Collecting rows that are not of the edition.
LEMMA CollectKeeps ==
  ASSUME Inv, seed.pc \in {"image", "release"},
         NEW is \in SUBSET Image, NEW gone \in SUBSET Versions, Collect(is, gone),
         is \cap SeedImages[seeded] = {}, gone \cap SeedReleases[seeded] = {},
         UNCHANGED <<releases, defaults, images, shared, seeded, polled, pin, nodeImage, builds>>
  PROVE  Inv'
<1>1. seed \in SeedStep
  BY DEF Inv, Types
<1>2. seed' \in SeedStep
  BY <1>1 DEF Collect, SeedStep
<1>3. /\ seed'.images \subseteq seed.images /\ seed'.releases \subseteq seed.releases
      /\ seed'.rows \subseteq seed.rows \cup is /\ seed'.gone \subseteq seed.gone \cup gone
  BY <1>1 DEF Collect, SeedStep
<1>4. PruneSpares'
  BY <1>3 DEF Inv, PruneSpares
<1> QED
  BY <1>2, <1>4, InHandKeeps

LEMMA CollectStepsKeep ==
  ASSUME Inv, (\E i \in seed.images : CollectImage(i)) \/ (\E r \in seed.releases : CollectRelease(r))
  PROVE  Inv'
<1>1. ASSUME NEW i \in seed.images, CollectImage(i) PROVE Inv'
  <2>1. i \in Image /\ i \notin SeedImages[seeded] /\ seed.pc = "image"
    BY <1>1 DEF Inv, Types, SeedStep, PruneSpares, CollectImage
  <2> QED
    BY <1>1, <2>1, CollectKeeps DEF CollectImage
<1>2. ASSUME NEW r \in seed.releases, CollectRelease(r) PROVE Inv'
  <2>1. r \in Versions /\ r \notin SeedReleases[seeded] /\ seed.pc = "release" /\ seeded \in Editions
    BY <1>2 DEF Inv, Types, SeedStep, PruneSpares, CollectRelease
  <2>2. ImagesOf(r) \in SUBSET Image /\ ImagesOf(r) \cap SeedImages[seeded] = {}
    BY <2>1, SeedTables DEF ImagesOf, Inv, Types
  <2> QED
    BY <1>2, <2>1, <2>2, CollectKeeps DEF CollectRelease
<1> QED
  BY <1>1, <1>2

LEMMA DeleteKeeps ==
  ASSUME Inv, Delete
  PROVE  Inv'
<1>1. CASE Repointed
  <2>1. seed' \in SeedStep /\ seed' = NoSeed
    BY <1>1 DEF Delete, NoSeed, SeedStep
  <2>2. PruneSpares'
    BY <1>1, <2>1 DEF Delete, NoSeed, PruneSpares
  <2> QED
    BY <1>1, <2>1, <2>2, InHandKeeps DEF Delete
<1>2. CASE ~Repointed
  <2>1. Deleted /\ UNCHANGED <<seeded, polled, builds>> /\ seed.pc = "delete"
    BY <1>2 DEF Delete
  <2>2. seed \in SeedStep /\ seeded \in Editions
    BY <2>1 DEF Inv, Types, PruneSpares
  <2>3. seed' \in SeedStep /\ seed'.rows = {} /\ seed'.gone = {} /\ seed'.images = seed.images
        /\ seed'.releases = seed.releases
    BY <2>1, <2>2 DEF Deleted, SeedStep
  <2>4. Types'
    BY <2>1, <2>3 DEF Deleted, Inv, Types
  <2>5. PruneSpares'
    BY <2>1, <2>2, <2>3, SeedTables DEF Inv, PruneSpares
  <2>6. SeedHolds'
    BY <2>1, <2>2, SeedTables DEF Deleted, Inv, PruneSpares, SeedHolds
  <2>7. NoDangling'
    <3>1. \A b \in builds' : b.image \in images'
      BY <1>2, <2>1 DEF Deleted, Inv, NoDangling, Repointed, Held
    <3>2. \A i \in images' : i.release \in releases'
      BY <1>2, <2>1 DEF Deleted, Inv, NoDangling, Repointed, ImagesOf
    <3>3. pin' \in releases' \cup {None} /\ nodeImage' \in images' \cup {None}
      BY <2>1 DEF Deleted, Inv, NoDangling
    <3> QED
      BY <3>1, <3>2, <3>3 DEF NoDangling
  <2> QED
    BY <2>4, <2>5, <2>6, <2>7 DEF Inv
<1> QED
  BY <1>1, <1>2

-----------------------------------------------------------------------------
(* What runs beside it. *)

LEMMA PollKeeps ==
  ASSUME Inv, (\E r \in Candidates : PollFinds(r)) \/ PollCreates
  PROVE  Inv'
<1>1. Candidates \subseteq Versions
  BY CatalogueAssumption
<1>2. CASE \E r \in Candidates : PollFinds(r)
  BY <1>1, <1>2 DEF PollFinds, Inv, Types, NoDangling, PruneSpares, SeedHolds
<1>3. CASE PollCreates
  BY <1>3 DEF PollCreates, Inv, Types, NoDangling, PruneSpares, SeedHolds
<1> QED
  BY <1>2, <1>3

LEMMA PinKeeps ==
  ASSUME Inv, (\E r \in releases \cup {None} : PinRelease(r)) \/ (\E i \in images \cup {None} : PinImage(i))
  PROVE  Inv'
BY DEF PinRelease, PinImage, Inv, Types, NoDangling, PruneSpares, SeedHolds

LEMMA CatalogueKeeps == Inv /\ CatalogueNext => Inv'
BY SeedCatalogKeeps, ListKeeps, CollectStepsKeep, DeleteKeeps, PollKeeps, PinKeeps DEF CatalogueNext

\* A submission touches the builds only.
LEMMA SubmissionKeeps == Inv /\ SubmissionNext => Inv'
<1> SUFFICES ASSUME Inv, SubmissionNext PROVE Inv'
  OBVIOUS
<1>1. ASSUME UNCHANGED catalogueVars PROVE Inv'
  BY <1>1 DEF catalogueVars, Inv, Types, NoDangling, PruneSpares, SeedHolds
<1>2. CASE Insert
  <2>1. \A b \in builds' : b.image \in images
    BY <1>2 DEF Insert, Inv, NoDangling
  <2> QED
    BY <1>2, <2>1 DEF Insert, Inv, Types, NoDangling, PruneSpares, SeedHolds
<1>3. ASSUME NEW b \in builds, DeleteBuild(b) PROVE Inv'
  BY <1>3 DEF DeleteBuild, Inv, Types, NoDangling, PruneSpares, SeedHolds
<1> QED
  BY <1>1, <1>2, <1>3, SubmissionSteps

LEMMA InvHolds == Spec => []Inv
<1>1. Init => Inv
  BY DEF Init, CatalogueInit, NoSeed, SeedStep, Inv, Types, NoDangling, PruneSpares, SeedHolds
<1>2. Inv /\ [Next]_vars => Inv'
  <2> SUFFICES ASSUME Inv, [Next]_vars PROVE Inv'
    OBVIOUS
  <2>1. ASSUME UNCHANGED catalogueVars PROVE Inv'
    BY <2>1 DEF catalogueVars, Inv, Types, NoDangling, PruneSpares, SeedHolds
  <2> QED
    BY <2>1, CatalogueKeeps, SubmissionKeeps DEF Next, vars
<1> QED
  BY <1>1, <1>2, PTL DEF Spec

\* Whatever the editions and however prune, poll, pins and submissions come
\* between each other's steps: the foreign keys hold.
THEOREM ReferentialSafety == Spec => []NoDangling
BY InvHolds, PTL DEF Inv

\* Once seeded, the default of the edition is the one default and its rows are
\* there (seed_catalog, with and without --prune).
THEOREM SeedSafety == Spec => []SeedHolds
BY InvHolds, PTL DEF Inv

-----------------------------------------------------------------------------
(* The versions of the recipe. *)

SaveState == [pc: {"idle", "read", "saved", "cleared"}, version: RecipeNumbers \cup {NoVersion},
              states: Nat, mark: {"tick", "untick", "keep"}, clears: BOOLEAN,
              others: SUBSET RecipeNumbers, met: BOOLEAN]

SaveTypes ==
  /\ published \subseteq RecipeNumbers /\ current \subseteq published
  /\ save \in [Savers -> SaveState]

\* What a save that has met no other one goes by is still so.
Fresh(s) ==
  save[s].pc # "idle" /\ ~save[s].met =>
    /\ save[s].mark = "tick" => save[s].clears
    /\ save[s].mark = "untick" => ~save[s].clears
    /\ save[s].mark = "keep" => /\ save[s].version \in published
                                /\ save[s].clears <=> save[s].version \in current
    /\ save[s].pc = "cleared" =>
         save[s].others = (IF save[s].clears THEN published \ {save[s].version} ELSE {})

\* A save names a version.
Named == \A s \in Savers : save[s].pc # "idle" => save[s].version \in RecipeNumbers

StateTypes ==
  states \in [RecipeNumbers -> Nat] /\ marked \in RecipeNumbers \cup {NoVersion} /\ crossed \in BOOLEAN

RecipesInv == SaveTypes /\ Named /\ OneCurrent /\ \A s \in Savers : Fresh(s)

LEMMA SeedVersions ==
  ASSUME NEW e \in Seeds
  PROVE  SeedVersion[e] \in RecipeNumbers /\ SeedStates[e] \in Nat
BY RecipesAssumption

LEMMA SeederIsSaver == Seeder \in Savers /\ Editors \subseteq Savers
BY DEF Savers

\* The save of a whole row.
LEMMA SavingIs ==
  ASSUME NEW v \in RecipeNumbers, NEW n \in Nat, NEW ticked \in BOOLEAN
  PROVE  /\ Saving(v, n, ticked) \in SaveState
         /\ Saving(v, n, ticked).pc = "saved" /\ Saving(v, n, ticked).version = v
         /\ Saving(v, n, ticked).mark = (IF ticked THEN "tick" ELSE "untick")
         /\ Saving(v, n, ticked).clears = ticked
BY DEF Saving, NoSave, SaveState

LEMMA NoSaveIs == NoSave \in SaveState /\ NoSave.pc = "idle"
BY DEF NoSave, SaveState

\* A save that starts, or goes one statement on, and has read what there is.
LEMMA GoesOn ==
  ASSUME RecipesInv, NEW s \in Savers, NEW r \in SaveState, save' = [save EXCEPT ![s] = r],
         r.pc # "idle" => r.version \in RecipeNumbers,
         Fresh(s)', UNCHANGED <<published, current, marked, crossed>>
  PROVE  RecipesInv'
<1>1. \A t \in Savers \ {s} : save'[t] = save[t]
  BY DEF RecipesInv, SaveTypes
<1>2. save'[s] = r
  BY DEF RecipesInv, SaveTypes
<1>3. SaveTypes'
  BY DEF RecipesInv, SaveTypes
<1>4. Named'
  BY <1>1, <1>2 DEF RecipesInv, Named
<1>5. \A t \in Savers : Fresh(t)'
  BY <1>1 DEF RecipesInv, Fresh
<1> QED
  BY <1>3, <1>4, <1>5 DEF RecipesInv, OneCurrent

\* The save of a whole row begins.
LEMMA SavingKeeps ==
  ASSUME RecipesInv, NEW s \in Savers, NEW v \in RecipeNumbers, NEW n \in Nat, NEW ticked \in BOOLEAN,
         save' = [save EXCEPT ![s] = Saving(v, n, ticked)],
         UNCHANGED <<published, current, marked, crossed>>
  PROVE  RecipesInv'
<1>1. save'[s] = Saving(v, n, ticked)
  BY DEF RecipesInv, SaveTypes
<1>2. Fresh(s)'
  BY <1>1, SavingIs DEF Fresh
<1> QED
  BY <1>2, GoesOn, SavingIs

LEMMA PublishKeeps ==
  ASSUME RecipesInv, NEW s \in Savers, NEW v \in RecipeNumbers, NEW ticked \in BOOLEAN, Publish(s, v, ticked)
  PROVE  RecipesInv'
BY SavingKeeps DEF Publish

LEMMA EditKeeps ==
  ASSUME RecipesInv, StateTypes, NEW s \in Savers, NEW v \in RecipeNumbers, NEW ticked \in BOOLEAN,
         Edit(s, v, ticked)
  PROVE  RecipesInv'
<1>1. PICK n \in {0, states[v]} : save' = [save EXCEPT ![s] = Saving(v, n, ticked)]
  BY DEF Edit
<1>2. n \in Nat
  BY <1>1 DEF StateTypes
<1> QED
  BY <1>1, <1>2, SavingKeeps DEF Edit

LEMMA SeedReadsKeeps ==
  ASSUME RecipesInv, NEW e \in Seeds, SeedReads(e)
  PROVE  RecipesInv'
<1> DEFINE c == SeedVersion[e] \in current
           found == [NoSave EXCEPT !.pc = "read", !.version = SeedVersion[e], !.states = SeedStates[e],
                                   !.clears = c]
<1>1. CASE SeedVersion[e] \in published
  <2>1. c \in BOOLEAN
    OBVIOUS
  <2>2. save' = [save EXCEPT ![Seeder] = found] /\ UNCHANGED <<published, current, marked, crossed>>
    BY <1>1, Zenon DEF SeedReads
  <2> HIDE DEF c
  <2>3. PICK r : r = found
    OBVIOUS
  <2>4. r \in SaveState /\ r.pc = "read" /\ r.version = SeedVersion[e] /\ r.mark = "keep" /\ r.clears = c
    BY <2>1, <2>3, SeedVersions DEF NoSave, SaveState
  <2> HIDE DEF found
  <2>5. save'[Seeder] = r
    BY <2>2, <2>3, SeederIsSaver DEF RecipesInv, SaveTypes
  <2>6. save'[Seeder].clears <=> SeedVersion[e] \in current'
    <3>1. save'[Seeder].clears = c /\ current' = current
      BY <2>2, <2>4, <2>5
    <3>2. CASE c
      <4>1. SeedVersion[e] \in current'
        BY <3>1, <3>2 DEF c
      <4>2. save'[Seeder].clears
        BY <3>1, <3>2
      <4> QED
        BY <4>1, <4>2
    <3>3. CASE ~c
      <4>1. SeedVersion[e] \notin current'
        BY <3>1, <3>3 DEF c
      <4>2. ~save'[Seeder].clears
        BY <3>1, <3>3
      <4> QED
        BY <4>1, <4>2
    <3> QED
      BY <3>2, <3>3
  <2>7. Fresh(Seeder)'
    BY <1>1, <2>2, <2>4, <2>5, <2>6 DEF Fresh
  <2> QED
    BY <2>2, <2>3, <2>4, <2>7, GoesOn, SeederIsSaver, SeedVersions
<1>2. CASE SeedVersion[e] \notin published
  BY <1>2, SavingKeeps, SeederIsSaver, SeedVersions DEF SeedReads
<1> QED
  BY <1>1, <1>2

LEMMA SeedRefreshesKeeps ==
  ASSUME RecipesInv, SeedRefreshes
  PROVE  RecipesInv'
<1> DEFINE r == [save[Seeder] EXCEPT !.pc = "saved"]
<1>1. save[Seeder] \in SaveState
  BY SeederIsSaver DEF RecipesInv, SaveTypes
<1>2. CASE states[save[Seeder].version] = save[Seeder].states
  <2>1. save' = [save EXCEPT ![Seeder] = NoSave] /\ UNCHANGED <<published, current, marked, crossed>>
    BY <1>2 DEF SeedRefreshes
  <2>2. save'[Seeder] = NoSave
    BY <2>1, SeederIsSaver DEF RecipesInv, SaveTypes
  <2>3. Fresh(Seeder)'
    BY <2>2, NoSaveIs DEF Fresh
  <2> QED
    BY <2>1, <2>3, NoSaveIs, GoesOn, SeederIsSaver
<1>3. CASE states[save[Seeder].version] # save[Seeder].states
  <2>1. save' = [save EXCEPT ![Seeder] = r] /\ UNCHANGED <<published, current, marked, crossed>>
    BY <1>3 DEF SeedRefreshes
  <2>2. /\ r \in SaveState /\ r.pc = "saved" /\ r.version = save[Seeder].version
        /\ r.mark = save[Seeder].mark /\ r.clears = save[Seeder].clears /\ r.met = save[Seeder].met
    BY <1>1 DEF SaveState
  <2>3. r.version \in RecipeNumbers /\ save[Seeder].pc = "read"
    BY <2>2, SeederIsSaver DEF SeedRefreshes, RecipesInv, Named
  <2> HIDE DEF r
  <2>4. save'[Seeder] = r
    BY <2>1, SeederIsSaver DEF RecipesInv, SaveTypes
  <2>5. Fresh(Seeder)'
    BY <2>1, <2>2, <2>3, <2>4, SeederIsSaver DEF RecipesInv, Fresh
  <2> QED
    BY <2>1, <2>2, <2>3, <2>5, GoesOn, SeederIsSaver
<1> QED
  BY <1>2, <1>3

LEMMA ClearOthersKeeps ==
  ASSUME RecipesInv, NEW s \in Savers, ClearOthers(s)
  PROVE  RecipesInv'
<1> DEFINE rest == IF save[s].clears THEN published \ {save[s].version} ELSE {}
           r == [save[s] EXCEPT !.pc = "cleared", !.others = rest]
<1>1. save[s] \in SaveState /\ save[s].pc = "saved" /\ UNCHANGED <<published, current, marked, crossed>>
  BY DEF RecipesInv, SaveTypes, ClearOthers
<1>2. rest \subseteq RecipeNumbers
  BY DEF RecipesInv, SaveTypes
<1>3. /\ r \in SaveState /\ r.pc = "cleared" /\ r.version = save[s].version /\ r.mark = save[s].mark
      /\ r.clears = save[s].clears /\ r.met = save[s].met /\ r.others = rest
  BY <1>1, <1>2 DEF SaveState
<1>4. save' = [save EXCEPT ![s] = r] /\ save'[s] = r
  BY <1>1 DEF ClearOthers, RecipesInv, SaveTypes
<1> HIDE DEF r
<1>5. Fresh(s)'
  BY <1>1, <1>3, <1>4 DEF RecipesInv, Fresh
<1>6. r.version \in RecipeNumbers
  BY <1>1, <1>3 DEF RecipesInv, Named
<1> QED
  BY <1>1, <1>3, <1>4, <1>5, <1>6, GoesOn

LEMMA CommitKeeps ==
  ASSUME RecipesInv, NEW s \in Savers, Commit(s)
  PROVE  RecipesInv'
<1> DEFINE v == save[s].version
<1>1. save[s] \in SaveState /\ save[s].pc = "cleared" /\ v \in RecipeNumbers
  BY DEF RecipesInv, SaveTypes, Named, Commit
<1>2. /\ published' = published \cup {v}
      /\ save' = [t \in Savers |-> IF t = s THEN NoSave
                                   ELSE [save[t] EXCEPT !.met = save[t].pc # "idle"]]
  BY DEF Commit
<1>3. ASSUME NEW t \in Savers \ {s}
      PROVE  /\ save'[t] \in SaveState /\ save'[t].pc = save[t].pc /\ save'[t].version = save[t].version
             /\ save'[t].met = (save[t].pc # "idle")
  <2>1. save[t] \in SaveState /\ (save[t].pc # "idle") \in BOOLEAN
    BY DEF RecipesInv, SaveTypes
  <2>2. save'[t] = [save[t] EXCEPT !.met = save[t].pc # "idle"]
    BY <1>2
  <2> QED
    BY <2>1, <2>2 DEF SaveState
<1>4. save'[s] = NoSave
  BY <1>2
<1>5. /\ published' \subseteq RecipeNumbers
      /\ current' \subseteq current \cup {v}
  BY <1>1, <1>2 DEF Commit, RecipesInv, SaveTypes
<1>6. save' \in [Savers -> SaveState]
  BY <1>2, <1>3, <1>4, NoSaveIs
<1>7. SaveTypes'
  BY <1>2, <1>5, <1>6 DEF RecipesInv, SaveTypes
<1>8. Named'
  BY <1>3, <1>4, NoSaveIs DEF RecipesInv, Named
<1>9. \A t \in Savers : Fresh(t)'
  BY <1>3, <1>4, NoSaveIs DEF Fresh
<1>10. ASSUME ~crossed' PROVE current' = (IF marked' = NoVersion THEN {} ELSE {marked'})
  <2>1. ~save[s].met /\ (crossed => save[s].mark = "tick")
    BY <1>10 DEF Commit
  <2>2. Fresh(s) /\ current \subseteq published /\ v # NoVersion
    BY <1>1, RecipesAssumption DEF RecipesInv, SaveTypes
  <2>3. CASE save[s].mark = "tick"
    <3>1. save[s].others = published \ {v}
      BY <1>1, <2>1, <2>2, <2>3 DEF Fresh
    <3>2. current' = {v}
      BY <2>2, <2>3, <3>1 DEF Commit
    <3>3. marked' = v
      BY <2>3 DEF Commit, Marks
    <3> QED
      BY <2>2, <3>2, <3>3
  <2>4. CASE save[s].mark = "untick"
    <3>1. current' = current \ {v}
      BY <1>1, <2>1, <2>2, <2>4 DEF Commit, Fresh
    <3>2. marked' = IF marked = v THEN NoVersion ELSE marked
      BY <2>4 DEF Commit, Marks
    <3>3. current = (IF marked = NoVersion THEN {} ELSE {marked})
      BY <2>1, <2>4 DEF RecipesInv, OneCurrent
    <3> QED
      BY <3>1, <3>2, <3>3
  <2>5. CASE save[s].mark = "keep"
    <3>1. /\ v \in published /\ (save[s].clears <=> v \in current)
          /\ save[s].others = (IF save[s].clears THEN published \ {v} ELSE {})
      BY <1>1, <2>1, <2>2, <2>5 DEF Fresh
    <3>2. current' = current \ save[s].others
      BY <2>5 DEF Commit
    <3>3. marked' = marked
      BY <2>5 DEF Commit, Marks
    <3>4. current = (IF marked = NoVersion THEN {} ELSE {marked})
      BY <2>1, <2>5 DEF RecipesInv, OneCurrent
    <3> QED
      BY <2>2, <3>1, <3>2, <3>3, <3>4
  <2> QED
    BY <1>1, <2>3, <2>4, <2>5 DEF SaveState
<1> QED
  BY <1>7, <1>8, <1>9, <1>10 DEF RecipesInv, OneCurrent

LEMMA StateTypesKeep ==
  ASSUME StateTypes, RecipesInv, RecipesNext
  PROVE  StateTypes'
<1> USE DEF StateTypes
<1>1. ASSUME NEW s \in Savers, Commit(s) PROVE StateTypes'
  <2>1. save[s].states \in Nat
    BY DEF RecipesInv, SaveTypes, SaveState
  <2>2. save[s].version \in RecipeNumbers
    BY <1>1 DEF Commit, RecipesInv, Named
  <2>3. states' \in [RecipeNumbers -> Nat]
    BY <1>1, <2>1 DEF Commit
  <2>4. marked' \in RecipeNumbers \cup {NoVersion}
    BY <1>1, <2>2 DEF Commit, Marks
  <2>5. (crossed /\ save[s].mark # "tick") \in BOOLEAN
    OBVIOUS
  <2> QED
    BY <1>1, <2>3, <2>4, <2>5 DEF Commit
<1>2. ASSUME NEW s, NEW v, NEW ticked, Publish(s, v, ticked) \/ Edit(s, v, ticked) PROVE StateTypes'
  BY <1>2 DEF Publish, Edit
<1>3. ASSUME NEW i, SeedReads(i) \/ ClearOthers(i) PROVE StateTypes'
  BY <1>3 DEF SeedReads, ClearOthers
<1>4. CASE SeedRefreshes
  BY <1>4 DEF SeedRefreshes
<1> QED
  BY <1>1, <1>2, <1>3, <1>4 DEF RecipesNext

VersionsInv == RecipesInv /\ StateTypes

LEMMA VersionsInvHolds == Spec => []VersionsInv
<1>1. Init => VersionsInv
  <2> SUFFICES ASSUME RecipesInit PROVE VersionsInv
    BY DEF Init
  <2>1. \A s \in Savers : save[s] = NoSave
    BY DEF RecipesInit
  <2>2. SaveTypes /\ StateTypes
    BY NoSaveIs DEF RecipesInit, SaveTypes, StateTypes
  <2>3. Named /\ \A s \in Savers : Fresh(s)
    BY <2>1, NoSaveIs DEF Named, Fresh
  <2> QED
    BY <2>2, <2>3 DEF RecipesInit, VersionsInv, RecipesInv, OneCurrent
<1>2. VersionsInv /\ [Next]_vars => VersionsInv'
  <2> SUFFICES ASSUME RecipesInv, StateTypes, [Next]_vars PROVE VersionsInv'
    BY DEF VersionsInv
  <2>1. ASSUME UNCHANGED recipeVars PROVE VersionsInv'
    BY <2>1 DEF recipeVars, VersionsInv, StateTypes, RecipesInv, SaveTypes, Named, OneCurrent, Fresh
  <2>2. ASSUME RecipesNext PROVE VersionsInv'
    <3>1. RecipesInv'
      BY <2>2, SeederIsSaver, PublishKeeps, EditKeeps, SeedReadsKeeps, SeedRefreshesKeeps, ClearOthersKeeps,
         CommitKeeps
      DEF RecipesNext
    <3> QED
      BY <2>2, <3>1, StateTypesKeep DEF VersionsInv
  <2>3. ASSUME SubmissionNext PROVE UNCHANGED recipeVars
    BY <2>3, SubmissionSteps
  <2> QED
    BY <2>1, <2>2, <2>3 DEF Next, vars
<1> QED
  BY <1>1, <1>2, PTL DEF Spec

\* For any sessions, versions and revisions of the seed, boxes ticked or not: the
\* current version is the one ticked last and not unticked since, and none without
\* such a one, until saves overlap, and again from the next ticked save that no other
\* one overlaps (RecipeVersion.save; "only one version per recipe is marked").
THEOREM CurrentVersion == Spec => []OneCurrent
BY VersionsInvHolds, PTL DEF VersionsInv, RecipesInv

-----------------------------------------------------------------------------
(* The image a node is baked with. *)

\* A set of numbers has a least element, a finite one a greatest: the strict subset
\* ordering of finite sets is well founded.
LEMMA LeastOf ==
  ASSUME NEW S \in SUBSET Nat, S # {}
  PROVE  \E m \in S : \A n \in S : m <= n
<1> DEFINE T == {0 .. n : n \in S}
<1>1. T \subseteq FiniteSubsetsOf(Nat) /\ T # {}
  <2>1. ASSUME NEW n \in S PROVE 0 .. n \in FiniteSubsetsOf(Nat)
    BY FS_Interval DEF FiniteSubsetsOf
  <2> QED
    BY <2>1
<1>2. \E x \in T : \A y \in T : <<y, x>> \notin StrictSubsetOrdering(Nat)
  <2> HIDE DEF T
  <2> QED
    BY <1>1, FS_StrictSubsetOrderingWellFounded, WFMin
<1>3. PICK m \in S : \A n \in S : <<0 .. n, 0 .. m>> \notin StrictSubsetOrdering(Nat)
  BY <1>2
<1>4. ASSUME NEW n \in S, n < m PROVE FALSE
  <2>1. 0 .. n \in SUBSET Nat /\ 0 .. m \in SUBSET Nat /\ 0 .. n \subseteq 0 .. m
        /\ m \in 0 .. m /\ m \notin 0 .. n
    BY <1>4
  <2> QED
    BY <1>3, <2>1 DEF StrictSubsetOrdering
<1> QED
  BY <1>4

LEMMA GreatestOf ==
  ASSUME NEW S \in SUBSET Nat, IsFiniteSet(S), S # {}
  PROVE  \E m \in S : \A n \in S : n <= m
<1> DEFINE From(n) == {k \in S : n <= k}
           T == {From(n) : n \in S}
<1>1. T \subseteq FiniteSubsetsOf(S) /\ T # {}
  <2>1. FiniteSubsetsOf(S) = SUBSET S
    BY FS_FiniteSubsetsOfFinite
  <2>2. \A n \in S : From(n) \in SUBSET S
    OBVIOUS
  <2>3. T \subseteq SUBSET S
    <3> HIDE DEF From
    <3> QED
      BY <2>2
  <2>4. T # {}
    <3> HIDE DEF From
    <3> QED
      BY Zenon
  <2> QED
    BY <2>1, <2>3, <2>4
<1>2. \E x \in T : \A y \in T : <<y, x>> \notin StrictSubsetOrdering(S)
  <2> HIDE DEF T
  <2> QED
    BY <1>1, FS_StrictSubsetOrderingWellFounded, WFMin
<1>3. PICK m \in S : \A n \in S : <<From(n), From(m)>> \notin StrictSubsetOrdering(S)
  BY <1>2
<1>4. ASSUME NEW n \in S, m < n PROVE FALSE
  <2>1. n \in Nat /\ m \in Nat /\ \A k \in S : k \in Nat
    OBVIOUS
  <2>2. \A k \in S : n <= k => m <= k
    BY <1>4, <2>1
  <2>3. m <= m /\ ~(n <= m)
    BY <1>4, <2>1
  <2>4. From(n) \in SUBSET S /\ From(m) \in SUBSET S /\ From(n) \subseteq From(m)
        /\ m \in From(m) /\ m \notin From(n)
    BY <2>2, <2>3
  <2> HIDE DEF From
  <2> QED
    BY <1>3, <2>4 DEF StrictSubsetOrdering
<1> QED
  BY <1>4
\* The variant and the release of an image are numbers, the releases finitely many.
LEMMA ImageNumbers ==
  \A i \in Image : i.variant \in Nat /\ i.release \in Nat /\ i.release \in Versions
BY CatalogueAssumption DEF Image

\* Of images that serve a device there is a first one, and a newest.
LEMMA FirstIsOne ==
  ASSUME NEW is \in SUBSET Image, is # {}
  PROVE  First(is) \in is
<1> DEFINE S == {i.variant : i \in is}
<1>1. S \in SUBSET Nat /\ S # {}
  <2>1. \A i \in is : i.variant \in Nat
    BY ImageNumbers
  <2> QED
    BY <2>1
<1>2. PICK m \in S : \A n \in S : m <= n
  <2> HIDE DEF S
  <2> QED
    BY <1>1, LeastOf
<1>3. \E i \in is : \A j \in is : i.variant < j.variant \/ i.variant = j.variant
  <2>1. PICK i \in is : i.variant = m
    BY <1>2
  <2>2. \A j \in is : j.variant \in S /\ j.variant \in Nat
    BY ImageNumbers
  <2>3. \A j \in is : m <= j.variant
    BY <1>2, <2>2
  <2>4. m \in Nat
    BY <1>1
  <2>5. \A j \in is : m < j.variant \/ m = j.variant
    <3> HIDE DEF S
    <3> QED
      BY <2>2, <2>3, <2>4
  <2> QED
    BY <2>1, <2>5
<1> QED
  BY <1>3 DEF First

LEMMA NewestIsOne ==
  ASSUME NEW is \in SUBSET Image, is # {}
  PROVE  Newest(is) # {} /\ Newest(is) \subseteq is
<1> DEFINE S == {i.release : i \in is}
<1>1. S \in SUBSET Nat /\ S \subseteq Versions /\ S # {}
  <2>1. \A i \in is : i.release \in Nat /\ i.release \in Versions
    BY ImageNumbers
  <2> QED
    BY <2>1
<1>2. IsFiniteSet(S)
  BY <1>1, CatalogueAssumption, FS_Subset
<1>3. PICK m \in S : \A n \in S : n <= m
  <2> HIDE DEF S
  <2> QED
    BY <1>1, <1>2, GreatestOf
<1> QED
  BY <1>1, <1>3 DEF Newest

LEMMA NodeImageServes ==
  ASSUME images \subseteq Image, NEW rs, NEW t
  PROVE  LET is == {i \in images : Serves(i, t)} IN
         /\ is = {} => NodeImage(rs, t) = None
         /\ is # {} => /\ NodeImage(rs, t) \in is
                       /\ (\E i \in is : i.release \in rs) => NodeImage(rs, t).release \in rs
<1> DEFINE is == {i \in images : Serves(i, t)}
           preferred == {i \in is : i.release \in rs}
<1>1. NodeImage(rs, t) = IF is = {} THEN None
                         ELSE IF preferred # {} THEN First(preferred) ELSE First(Newest(is))
  BY DEF NodeImage
<1>2. is \in SUBSET Image /\ preferred \in SUBSET Image
  OBVIOUS
<1>3. is # {} => Newest(is) # {} /\ Newest(is) \subseteq is /\ First(Newest(is)) \in Newest(is)
  <2> HIDE DEF is
  <2>1. ASSUME is # {} PROVE Newest(is) # {} /\ Newest(is) \subseteq is
    BY <1>2, <2>1, NewestIsOne
  <2>2. ASSUME is # {} PROVE First(Newest(is)) \in Newest(is)
    <3>1. Newest(is) \in SUBSET Image /\ Newest(is) # {}
      BY <1>2, <2>1, <2>2
    <3> QED
      BY <3>1, FirstIsOne
  <2> QED
    BY <2>1, <2>2
<1>4. preferred # {} => First(preferred) \in preferred
  <2> HIDE DEF preferred
  <2> QED
    BY <1>2, FirstIsOne
<1> QED
  BY <1>1, <1>3, <1>4

\* The default of a catalogue that was never seeded is none.
Unseeded == seeded = 0 => defaults = {}

Requests == [pc: {"idle", "image", "insert"}, kind: {"rest", "recipe", "node", None},
             target: Targets \cup {None}, release: Versions \cup {None}, image: Image \cup {None}]

\* What a request looked up: its target, its release, its image.
RequestTypes ==
  /\ request \in Requests
  /\ request.pc # "idle" => request.target \in Targets
  /\ request.pc = "image" => request.release \in Versions
  /\ request.pc = "insert" => request.image \in Image
  /\ page \in (SUBSET Image) \cup {None}

RowTypes == shared \in [Image -> SUBSET Targets] /\ builds \subseteq Build

LookupInv == Unseeded /\ RequestTypes /\ RowTypes

LEMMA UnseededKeeps ==
  ASSUME Unseeded, Inv, [Next]_vars
  PROVE  Unseeded'
<1> USE DEF Unseeded, catalogueVars
<1>1. CASE UNCHANGED catalogueVars
  BY <1>1
<1>2. CASE CatalogueNext
  <2>1. ASSUME NEW e \in Editions, NEW prune \in BOOLEAN, SeedCatalog(e, prune) PROVE Unseeded'
    BY <2>1, SeedTables DEF SeedCatalog
  <2>2. CASE ListImages \/ ListReleases \/ SeedEnds
    BY <2>2 DEF ListImages, ListReleases, SeedEnds
  <2>3. CASE Delete
    BY <2>3 DEF Delete, Deleted
  <2>4. CASE PollCreates
    BY <2>4 DEF PollCreates
  <2>5. ASSUME NEW i, CollectImage(i) \/ CollectRelease(i) \/ PollFinds(i) \/ PinRelease(i) \/ PinImage(i)
        PROVE Unseeded'
    BY <2>5 DEF CollectImage, CollectRelease, PollFinds, PinRelease, PinImage
  <2> QED
    BY <1>2, <2>1, <2>2, <2>3, <2>4, <2>5 DEF CatalogueNext
<1>3. CASE SubmissionNext
  BY <1>1, <1>3, SubmissionSteps DEF Insert, DeleteBuild
<1> QED
  BY <1>1, <1>2, <1>3 DEF Next, vars

\* Only the seed and the prune touch who shares an image; neither touches a build.
LEMMA CatalogueRowsKeep ==
  ASSUME RowTypes, CatalogueNext
  PROVE  RowTypes'
<1> USE DEF RowTypes
<1>1. ASSUME NEW e \in Editions, NEW prune \in BOOLEAN, SeedCatalog(e, prune) PROVE RowTypes'
  <2>1. SeedShared[e] \in [Image -> SUBSET Targets]
    BY CatalogueAssumption
  <2> QED
    BY <1>1, <2>1 DEF SeedCatalog, Refreshed
<1>2. CASE ListImages \/ ListReleases \/ SeedEnds
  BY <1>2 DEF ListImages, ListReleases, SeedEnds
<1>3. CASE Delete
  BY <1>3 DEF Delete, Deleted
<1>4. CASE PollCreates
  BY <1>4 DEF PollCreates
<1>5. ASSUME NEW i, CollectImage(i) \/ CollectRelease(i) \/ PollFinds(i) \/ PinRelease(i) \/ PinImage(i)
      PROVE RowTypes'
  BY <1>5 DEF CollectImage, CollectRelease, PollFinds, PinRelease, PinImage
<1> QED
  BY <1>1, <1>2, <1>3, <1>4, <1>5 DEF CatalogueNext

\* Each step of a submission looks up what there is.
LEMMA RequestKeeps ==
  ASSUME Inv, RequestTypes, SubmissionNext
  PROVE  RequestTypes'
<1>1. images \subseteq Image /\ defaults \subseteq Versions
  BY DEF Inv, Types
<1>2. Releases \subseteq Versions
  BY <1>1 DEF Releases, Inv, NoDangling, Types
<1>3. NoRequest \in Requests /\ NoRequest.pc = "idle"
  BY DEF NoRequest, Requests
<1>4. ASSUME request' = NoRequest, page' = page \/ page' = None PROVE RequestTypes'
  <2>1. page' \in (SUBSET Image) \cup {None}
    BY <1>4 DEF RequestTypes
  <2>2. request' \in Requests /\ request'.pc = "idle"
    BY <1>3, <1>4
  <2> QED
    BY <2>1, <2>2 DEF RequestTypes
<1>5. ASSUME NEW t \in Targets, Post(t) PROVE RequestTypes'
  <2>1. PICK r \in Releases : request' = [NoRequest EXCEPT !.pc = "image", !.kind = "rest", !.target = t, !.release = r]
    BY <1>5, Zenon DEF Post
  <2>2. request' = [pc |-> "image", kind |-> "rest", target |-> t, release |-> r, image |-> None]
    BY <2>1 DEF NoRequest
  <2>3. r \in Versions
    BY <1>2
  <2>4. request' \in Requests /\ request'.pc = "image" /\ request'.target = t /\ request'.release = r
    BY <2>2, <2>3 DEF Requests
  <2> QED
    BY <1>5, <2>3, <2>4 DEF RequestTypes, Post
<1>6. CASE PostFinds
  <2>1. ASSUME NEW i \in images, request' = [request EXCEPT !.pc = "insert", !.image = i] PROVE RequestTypes'
    <3>1. request \in Requests /\ request.target \in Targets /\ i \in Image
      <4>1. request \in Requests
        BY DEF RequestTypes
      <4>2. request.pc = "image"
        BY <1>6, Zenon DEF PostFinds
      <4> QED
        BY <1>1, <2>1, <4>1, <4>2 DEF RequestTypes
    <3>2. request' \in Requests /\ request'.pc = "insert" /\ request'.image = i /\ request'.target = request.target
      BY <2>1, <3>1 DEF Requests
    <3> QED
      <4>1. page' = page
        BY <1>6, Zenon DEF PostFinds
      <4> QED
        BY <3>1, <3>2, <4>1 DEF RequestTypes
  <2>2. ApiImages(request.release, request.target) \subseteq images
    BY DEF ApiImages
  <2> QED
    <3>1. page' = page
      BY <1>6, Zenon DEF PostFinds
    <3>2. \/ \E i \in ApiImages(request.release, request.target) :
               request' = [request EXCEPT !.pc = "insert", !.image = i]
          \/ request' = NoRequest
      BY <1>6, Zenon DEF PostFinds
    <3>3. request' = NoRequest => RequestTypes'
      BY <1>4, <3>1, Zenon
    <3> QED
      BY <2>1, <2>2, <3>2, <3>3, Zenon
<1>7. CASE ShowPage
  <2>1. \A r \in Releases : PageImages(r) \subseteq Image
    BY <1>1 DEF PageImages
  <2>2. page' \in SUBSET Image
    BY <1>7, <2>1 DEF ShowPage
  <2> QED
    BY <1>7, <2>2 DEF ShowPage, RequestTypes
<1>8. ASSUME NEW i \in Image, PostForm(i) PROVE RequestTypes'
  <2>1. CASE i \notin images
    BY <1>4, <1>8, <2>1 DEF PostForm
  <2>2. CASE i \in images
    <3>1. request' = [pc |-> "insert", kind |-> "recipe", target |-> i.target, release |-> None, image |-> i]
      BY <1>8, <2>2 DEF PostForm, NoRequest
    <3>2. i.target \in Targets
      BY DEF Image
    <3>3. request' \in Requests /\ request'.pc = "insert" /\ request'.target = i.target /\ request'.image = i
      BY <3>1, <3>2 DEF Requests
    <3> QED
      <4>1. page' = None
        BY <1>8 DEF PostForm
      <4> QED
        BY <3>2, <3>3, <4>1 DEF RequestTypes
  <2> QED
    BY <2>1, <2>2
<1>9. CASE BakeNode
  <2> DEFINE i == IF nodeImage # None THEN nodeImage ELSE NodeImage(Releases, NodeTarget)
  <2>1. i \in Image \cup {None}
    <3>1. nodeImage \in Image \cup {None}
      BY <1>1 DEF Inv, NoDangling
    <3>2. NodeImage(Releases, NodeTarget) \in images \cup {None}
      BY <1>1, NodeImageServes
    <3> QED
      BY <1>1, <3>1, <3>2
  <2>2. request' = IF i = None THEN NoRequest
                   ELSE [NoRequest EXCEPT !.pc = "insert", !.kind = "node", !.target = NodeTarget, !.image = i]
    BY <1>9 DEF BakeNode
  <2>3. page' = page
    BY <1>9 DEF BakeNode
  <2> HIDE DEF i
  <2>4. CASE i = None
    BY <1>4, <2>2, <2>3, <2>4
  <2>5. CASE i # None
    <3>1. request' = [pc |-> "insert", kind |-> "node", target |-> NodeTarget, release |-> None, image |-> i]
      BY <2>2, <2>5 DEF NoRequest
    <3>2. request' \in Requests /\ request'.pc = "insert" /\ request'.target = NodeTarget /\ request'.image = i
      BY <2>1, <3>1, SubmissionAssumption DEF Requests
    <3> QED
      BY <2>1, <2>3, <2>5, <3>2, SubmissionAssumption DEF RequestTypes
  <2> QED
    BY <2>4, <2>5
<1>10. CASE Insert
  BY <1>4, <1>10 DEF Insert
<1>11. ASSUME NEW b \in builds, DeleteBuild(b) PROVE RequestTypes'
  BY <1>11 DEF DeleteBuild, submissionVars, RequestTypes
<1> QED
  BY <1>5, <1>6, <1>7, <1>8, <1>9, <1>10, <1>11 DEF SubmissionNext

\* A build that is inserted has an image and a target.
LEMMA SubmissionRowsKeep ==
  ASSUME RowTypes, RequestTypes, SubmissionNext
  PROVE  RowTypes'
<1> USE DEF RowTypes
<1>1. CASE Insert
  BY <1>1 DEF Insert, RequestTypes, Build
<1>2. ASSUME NEW b \in builds, DeleteBuild(b) PROVE RowTypes'
  BY <1>2 DEF DeleteBuild
<1>3. CASE UNCHANGED catalogueVars
  BY <1>3 DEF catalogueVars
<1> QED
  BY <1>1, <1>2, <1>3, SubmissionSteps

LEMMA LookupInvHolds == Spec => []LookupInv
<1>1. Init => LookupInv
  <2> SUFFICES ASSUME Init PROVE LookupInv
    OBVIOUS
  <2>1. Unseeded /\ RowTypes
    BY DEF Init, CatalogueInit, Unseeded, RowTypes
  <2>2. RequestTypes
    <3>1. NoRequest \in Requests /\ NoRequest.pc = "idle"
      BY DEF NoRequest, Requests
    <3>2. request = NoRequest /\ page = None
      BY DEF Init
    <3> QED
      BY <3>1, <3>2 DEF RequestTypes
  <2> QED
    BY <2>1, <2>2 DEF LookupInv
<1>2. Inv /\ LookupInv /\ [Next]_vars => LookupInv'
  <2> SUFFICES ASSUME Inv, LookupInv, [Next]_vars PROVE LookupInv'
    OBVIOUS
  <2>1. Unseeded'
    BY UnseededKeeps DEF LookupInv
  <2>2. RequestTypes'
    <3>1. CASE UNCHANGED submissionVars
      BY <3>1 DEF LookupInv, submissionVars, RequestTypes
    <3> QED
      BY <3>1, RequestKeeps DEF LookupInv, Next, vars
  <2>3. RowTypes'
    <3>1. CASE UNCHANGED catalogueVars
      BY <3>1 DEF LookupInv, catalogueVars, RowTypes
    <3> QED
      BY <3>1, CatalogueRowsKeep, SubmissionRowsKeep DEF LookupInv, Next, vars
  <2> QED
    BY <2>1, <2>2, <2>3 DEF LookupInv
<1> QED
  BY <1>1, <1>2, InvHolds, PTL DEF Spec

\* The types of the catalogue, the versions and the submissions, whatever the
\* foreign keys set to NULL and the image a node is baked with.
THEOREM SubmissionTypes == Spec => []TypeOK
<1>1. Inv /\ VersionsInv /\ LookupInv => TypeOK
  <2> SUFFICES ASSUME Inv, VersionsInv, LookupInv PROVE TypeOK
    OBVIOUS
  <2>1. CatalogueTypeOK
    BY DEF Inv, Types, SeedStep, NoDangling, LookupInv, RowTypes, CatalogueTypeOK
  <2>2. RecipesTypeOK
    BY DEF VersionsInv, RecipesInv, SaveTypes, SaveState, StateTypes, RecipesTypeOK
  <2> QED
    BY <2>1, <2>2 DEF LookupInv, RequestTypes, Requests, TypeOK
<1> QED
  BY <1>1, InvHolds, VersionsInvHolds, LookupInvHolds, PTL

\* There is at most one release a request may look for.
LEMMA OneRelease ==
  ASSUME Inv, Unseeded, NEW r \in Releases, NEW q \in Releases
  PROVE  q = r
BY DEF Releases, Inv, Types, SeedHolds, Unseeded

\* Whatever is seeded, pruned, polled and pinned, and for any images: where the API
\* finds the image of a device, the page of the recipe offers it and the button of a
\* node takes an image of the same release; a device that an image serves is baked.
THEOREM SubmissionsAgree == Spec => []PathsAgree
<1>1. Inv /\ Unseeded => PathsAgree
  <2> SUFFICES ASSUME Inv, Unseeded, NEW t \in Targets, NEW r \in Releases
               PROVE  /\ Cardinality(ApiImages(r, t)) = 1 =>
                           /\ t \in Supported => ApiImages(r, t) \subseteq PageImages(r)
                           /\ NodeImage(Releases, t).release = r
                      /\ (\E i \in images : Serves(i, t)) => NodeImage(Releases, t) \in images
    BY DEF PathsAgree
  <2> DEFINE is == {i \in images : Serves(i, t)}
  <2>1. images \subseteq Image
    BY DEF Inv, Types
  <2>2. /\ is # {} => NodeImage(Releases, t) \in is
        /\ (\E i \in is : i.release \in Releases) => NodeImage(Releases, t).release \in Releases
    BY <2>1, NodeImageServes
  <2>3. ApiImages(r, t) \subseteq is /\ \A i \in ApiImages(r, t) : i.release = r
    BY DEF ApiImages, Serves
  <2>4. ASSUME Cardinality(ApiImages(r, t)) = 1 PROVE NodeImage(Releases, t).release = r
    <3>1. PICK i \in ApiImages(r, t) : TRUE
      BY <2>4, FS_EmptySet
    <3>2. NodeImage(Releases, t).release \in Releases
      BY <2>2, <2>3, <3>1
    <3> QED
      BY <3>2, OneRelease
  <2>5. t \in Supported => ApiImages(r, t) \subseteq PageImages(r)
    BY DEF ApiImages, PageImages, Serves
  <2> QED
    BY <2>2, <2>4, <2>5
<1> QED
  BY <1>1, InvHolds, LookupInvHolds, PTL DEF LookupInv
=============================================================================
