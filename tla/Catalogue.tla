------------------------------ MODULE Catalogue ------------------------------
(***************************************************************************)
(* The releases and base images of one operating system, and what points   *)
(* at them: `manage.py seed_catalog [--prune]`, `manage.py poll_upstream   *)
(* --apply`, and the rows that hold an image or a release through a foreign*)
(* key (builds PROTECT it, a recipe and a node are SET_NULL).              *)
(*                                                                         *)
(* A release is its version, an image is its unique key.  The seed is one  *)
(* transaction, so its readers see all of it or nothing; the prune that    *)
(* follows is not, and each row it drops is first collected (who points at *)
(* it?) and then deleted, with the database checking the foreign keys once *)
(* more.  An edition is a revision of the tables in seed_catalog.py and    *)
(* seed_recipes.py; a deployment only ever moves to a later one.           *)
(***************************************************************************)
EXTENDS Naturals, FiniteSets

CONSTANTS Versions,      \* releases of the system, the newer the greater
          Targets,       \* hardware targets
          Variants,      \* variants of an image, in the order of their names
          Editions,      \* revisions of the seed tables, 1 .. the last
          SeedReleases,  \* [Editions -> SUBSET Versions], RELEASES
          SeedDefault,   \* [Editions -> Versions], the one with is_default
          SeedImages,    \* [Editions -> SUBSET Image], _images()
          SeedShared,    \* [Editions -> [Image -> SUBSET Targets]], extra_targets
          Candidates,    \* releases the upstream index lists
          None

Image == [release: Versions, target: Targets, variant: Variants]

ASSUME CatalogueAssumption ==
  /\ Versions \subseteq Nat /\ IsFiniteSet(Versions)
  /\ Variants \subseteq Nat /\ Candidates \subseteq Versions
  /\ Editions \subseteq Nat \ {0}
  /\ None \notin Versions \cup Targets \cup Image
  /\ SeedReleases \in [Editions -> SUBSET Versions]
  /\ SeedDefault \in [Editions -> Versions]
  /\ SeedImages \in [Editions -> SUBSET Image]
  /\ SeedShared \in [Editions -> [Image -> SUBSET Targets]]
  /\ \A e \in Editions : /\ SeedDefault[e] \in SeedReleases[e]
                         /\ \A i \in SeedImages[e] : i.release \in SeedReleases[e]

VARIABLES releases,   \* OSRelease rows
          defaults,   \* those with is_default
          images,     \* UpstreamImage rows
          shared,     \* extra_targets of each
          seeded,     \* the edition last committed by seed_catalog, 0 at first
          seed,       \* the running seed_catalog
          polled,     \* the release a running poll found to be new, or None
          pin,        \* Recipe.pinned_release, or None
          nodeImage,  \* Node.upstream_image, or None
          builds      \* BuildRequest rows, as what they point at

catalogueVars == <<releases, defaults, images, shared, seeded, seed, polled, pin, nodeImage, builds>>

Build == [image: Image, target: Targets]

\* images, releases: rows still to be pruned; rows, gone: images and releases
\* that are being deleted; pins: who pointed at them and is set to NULL.
NoSeed == [pc |-> "idle", images |-> {}, releases |-> {}, rows |-> {}, gone |-> {}, pins |-> {}]

Held(is) == \E b \in builds : b.image \in is

CatalogueTypeOK ==
  /\ releases \subseteq Versions /\ defaults \subseteq Versions
  /\ images \subseteq Image /\ shared \in [Image -> SUBSET Targets]
  /\ seeded \in Editions \cup {0}
  /\ seed \in [pc: {"idle", "list", "image", "release", "delete"},
               images: SUBSET Image, releases: SUBSET Versions,
               rows: SUBSET Image, gone: SUBSET Versions, pins: SUBSET {"node", "recipe"}]
  /\ polled \in Versions \cup {None} /\ pin \in Versions \cup {None}
  /\ nodeImage \in Image \cup {None}
  /\ builds \subseteq Build

CatalogueInit ==
  /\ releases = {} /\ defaults = {} /\ images = {} /\ shared = [i \in Image |-> {}]
  /\ seeded = 0 /\ seed = NoSeed /\ polled = None
  /\ pin = None /\ nodeImage = None /\ builds = {}

-----------------------------------------------------------------------------
(* seed_catalog.  The transaction: rows are created or refreshed, then      *)
(* is_default is cleared on every release of the system and set on the one  *)
(* the seed names.  Refreshing sets extra_targets on the seed's images and  *)
(* leaves those of other images alone.                                      *)

\* The images of the seed are created or refreshed.
Refreshed(e) == [i \in Image |-> IF i \in SeedImages[e] THEN SeedShared[e][i] ELSE shared[i]]

\* Mutant: the releases that exist keep their is_default.
SeedKeeps(e, prune) ==
  /\ seed.pc = "idle" /\ e >= seeded
  /\ defaults' = defaults \cup ({SeedDefault[e]} \ releases)
  /\ releases' = releases \cup SeedReleases[e]
  /\ images' = images \cup SeedImages[e]
  /\ shared' = Refreshed(e)
  /\ seeded' = e
  /\ seed' = [NoSeed EXCEPT !.pc = IF prune THEN "list" ELSE "idle"]
  /\ UNCHANGED <<polled, pin, nodeImage, builds>>

SeedCatalog(e, prune) ==
  /\ seed.pc = "idle" /\ e >= seeded
  /\ releases' = releases \cup SeedReleases[e]
  /\ defaults' = {SeedDefault[e]}
  /\ images' = images \cup SeedImages[e]
  /\ shared' = Refreshed(e)
  /\ seeded' = e
  /\ seed' = [NoSeed EXCEPT !.pc = IF prune THEN "list" ELSE "idle"]
  /\ UNCHANGED <<polled, pin, nodeImage, builds>>

\* The images that are not in the seed are listed once, and dropped one by one.
ListImages ==
  /\ seed.pc = "list"
  /\ seed' = [seed EXCEPT !.pc = "image", !.images = images \ SeedImages[seeded]]
  /\ UNCHANGED <<releases, defaults, images, shared, seeded, polled, pin, nodeImage, builds>>

\* delete() first collects what the row takes with it and what points at that: a
\* build keeps the row, a node and a recipe are to be set to NULL.
Collect(rows, gone) ==
  seed' = IF Held(rows)
          THEN [seed EXCEPT !.images = @ \ rows, !.releases = @ \ gone]
          ELSE [seed EXCEPT !.pc = "delete", !.images = @ \ rows, !.releases = @ \ gone,
                            !.rows = rows, !.gone = gone,
                            !.pins = (IF nodeImage \in rows THEN {"node"} ELSE {})
                                       \cup (IF pin \in gone THEN {"recipe"} ELSE {})]

CollectImage(i) ==
  /\ seed.pc = "image" /\ i \in seed.images
  /\ Collect({i}, {})
  /\ UNCHANGED <<releases, defaults, images, shared, seeded, polled, pin, nodeImage, builds>>

ListReleases ==
  /\ seed.pc = "image" /\ seed.images = {}
  /\ seed' = [seed EXCEPT !.pc = "release", !.releases = releases \ SeedReleases[seeded]]
  /\ UNCHANGED <<releases, defaults, images, shared, seeded, polled, pin, nodeImage, builds>>

\* A release takes its images with it.
ImagesOf(r) == {i \in images : i.release = r}

CollectRelease(r) ==
  /\ seed.pc = "release" /\ r \in seed.releases
  /\ Collect(ImagesOf(r), {r})
  /\ UNCHANGED <<releases, defaults, images, shared, seeded, polled, pin, nodeImage, builds>>

\* Someone points at the rows who did not when they were collected.
Repointed ==
  \/ Held(seed.rows)
  \/ (nodeImage \in seed.rows /\ "node" \notin seed.pins)
  \/ (pin \in seed.gone /\ "recipe" \notin seed.pins)
  \/ \E r \in seed.gone : ~(ImagesOf(r) \subseteq seed.rows)

Deleted ==
  /\ releases' = releases \ seed.gone
  /\ defaults' = defaults \ seed.gone
  /\ images' = images \ seed.rows
  /\ shared' = [i \in Image |-> IF i \in seed.rows THEN {} ELSE shared[i]]
  /\ pin' = IF pin \in seed.gone THEN None ELSE pin
  /\ nodeImage' = IF nodeImage \in seed.rows THEN None ELSE nodeImage
  /\ seed' = [seed EXCEPT !.pc = IF seed.gone = {} THEN "image" ELSE "release",
                          !.rows = {}, !.gone = {}, !.pins = {}]

\* Mutant: the rows go whoever came to point at them since they were collected.
DeleteAnyway == seed.pc = "delete" /\ Deleted /\ UNCHANGED <<seeded, polled, builds>>

\* What was collected is set to NULL or deleted.  When the database finds another
\* row that points there, that is an IntegrityError and not the ProtectedError the
\* command expects: it ends there.
Delete ==
  /\ seed.pc = "delete"
  /\ IF Repointed
     THEN seed' = NoSeed /\ UNCHANGED <<releases, defaults, images, shared, pin, nodeImage>>
     ELSE Deleted
  /\ UNCHANGED <<seeded, polled, builds>>

\* The command ends, or it is stopped on its way: what it dropped stays dropped.
SeedEnds ==
  /\ seed.pc \in {"list", "image", "release"}
  /\ seed' = NoSeed
  /\ UNCHANGED <<releases, defaults, images, shared, seeded, polled, pin, nodeImage, builds>>

-----------------------------------------------------------------------------
(* poll_upstream --apply: one candidate.  The four watchers list releases   *)
(* without image URLs, so the command creates the release only.             *)

PollFinds(r) ==
  /\ polled = None /\ r \in Candidates \ releases
  /\ polled' = r
  /\ UNCHANGED <<releases, defaults, images, shared, seeded, seed, pin, nodeImage, builds>>

\* Mutant: whatever the poll found, or nothing.
PollBlind ==
  /\ releases' = releases \cup {polled}
  /\ polled' = None
  /\ UNCHANGED <<defaults, images, shared, seeded, seed, pin, nodeImage, builds>>

\* A release the seed created meanwhile is an IntegrityError and ends the poll.
PollCreates ==
  /\ polled # None
  /\ releases' = releases \cup {polled}
  /\ polled' = None
  /\ UNCHANGED <<defaults, images, shared, seeded, seed, pin, nodeImage, builds>>

-----------------------------------------------------------------------------
(* The admin site pins a release to the recipe and an image to the node.    *)

PinRelease(r) ==
  /\ r \in releases \cup {None} /\ pin' = r
  /\ UNCHANGED <<releases, defaults, images, shared, seeded, seed, polled, nodeImage, builds>>

PinImage(i) ==
  /\ i \in images \cup {None} /\ nodeImage' = i
  /\ UNCHANGED <<releases, defaults, images, shared, seeded, seed, polled, pin, builds>>

CatalogueNext ==
  \/ \E e \in Editions, prune \in BOOLEAN : SeedCatalog(e, prune)
  \/ ListImages \/ \E i \in seed.images : CollectImage(i)
  \/ ListReleases \/ \E r \in seed.releases : CollectRelease(r)
  \/ Delete
  \/ SeedEnds
  \/ \E r \in Candidates : PollFinds(r)
  \/ PollCreates
  \/ \E r \in releases \cup {None} : PinRelease(r)
  \/ \E i \in images \cup {None} : PinImage(i)

-----------------------------------------------------------------------------
(* The foreign keys: whatever the prune, the pins and the submissions do in *)
(* between each other's steps, the image of every build is there with its   *)
(* release, and a recipe or a node pins a row that exists or nothing        *)
(* (on_delete of builds/models.py, recipes/models.py, tenants/models.py).   *)
NoDangling ==
  /\ \A b \in builds : b.image \in images
  /\ \A i \in images : i.release \in releases
  /\ pin \in releases \cup {None}
  /\ nodeImage \in images \cup {None}

(* Once the catalogue is seeded the seed's default is the one default, even *)
(* when a poll created that release first or an earlier edition named       *)
(* another, and no prune drops a row of the edition (seed_catalog.py:1017   *)
(* "earlier seed runs may have set a different release as default, so we    *)
(* clear and reapply").                                                     *)
SeedHolds ==
  seeded # 0 => /\ defaults = {SeedDefault[seeded]}
                /\ SeedReleases[seeded] \subseteq releases
                /\ SeedImages[seeded] \subseteq images
=============================================================================
