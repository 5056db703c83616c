----------------------------- MODULE Submission -----------------------------
(***************************************************************************)
(* How a build comes to its base image, over a catalogue that is seeded,   *)
(* pruned and polled meanwhile: POST /api/builds/ (BuildRequestSerializer.*)
(* create), the page of a recipe (bake_recipe) and the button of a node    *)
(* (bake_node).                                                            *)
(*                                                                         *)
(* A request is served in steps: the version and the release, the image,   *)
(* and the insertion of the row, which the database refuses when the image *)
(* is gone.  What the row says besides its image and its target (options,  *)
(* label, cluster, node) does not matter here.                             *)
(***************************************************************************)
EXTENDS Catalogue, RecipeVersions

CONSTANTS Supported,  \* Recipe.supported_hardware
          NodeTarget, \* Node.hardware_target
          MaxBuilds   \* bound: builds in the table

ASSUME SubmissionAssumption == Supported \subseteq Targets /\ NodeTarget \in Targets

VARIABLES request,  \* the request being served
          page      \* the images a page of the recipe offers, or None

submissionVars == <<request, page>>
vars == <<catalogueVars, recipeVars, submissionVars>>

NoRequest == [pc |-> "idle", kind |-> None, target |-> None, release |-> None, image |-> None]

TypeOK ==
  /\ CatalogueTypeOK /\ RecipesTypeOK
  /\ request \in [pc: {"idle", "image", "insert"}, kind: {"rest", "recipe", "node", None},
                  target: Targets \cup {None}, release: Versions \cup {None},
                  image: Image \cup {None}]
  /\ page \in (SUBSET Image) \cup {None}

Init == CatalogueInit /\ RecipesInit /\ request = NoRequest /\ page = None

-----------------------------------------------------------------------------
\* recipe.pinned_release or the default release of the system, if there is one.
Releases == IF pin # None THEN {pin} ELSE defaults

Serves(i, t) == i.target = t \/ t \in shared[i]

\* The page asks for a current version, or the latest when there is none; the API
\* has no such fallback.
HasVersion(kind) == IF kind = "rest" THEN current # {} ELSE published # {}

\* What the API looks for: the one image of the release and the target.
ApiImages(r, t) == {i \in images : i.release = r /\ i.target = t}

\* What the page of the recipe offers.
PageImages(r) == {i \in images : i.release = r /\ \E t \in Supported : Serves(i, t)}

\* The order in which bake_node takes the images that serve its device: those of
\* the release by variant, else the newest release first.
First(is) == CHOOSE i \in is : \A j \in is : i.variant < j.variant \/ i.variant = j.variant
Newest(is) == {i \in is : \A j \in is : i.release >= j.release}

\* Mutant: the newest release that has an image, whatever the default.
NewestImage(rs, t) ==
  LET is == {i \in images : Serves(i, t)}
  IN  IF is = {} THEN None ELSE First(Newest(is))

NodeImage(rs, t) ==
  LET is == {i \in images : Serves(i, t)}
      preferred == {i \in is : i.release \in rs}
  IN  IF is = {} THEN None
      ELSE IF preferred # {} THEN First(preferred) ELSE First(Newest(is))

-----------------------------------------------------------------------------
\* POST /api/builds/: the version, then the release; without them a 400.
Post(t) ==
  /\ request.pc = "idle" /\ Cardinality(builds) < MaxBuilds
  /\ HasVersion("rest")
  /\ \E r \in Releases :
       request' = [NoRequest EXCEPT !.pc = "image", !.kind = "rest", !.target = t, !.release = r]
  /\ UNCHANGED <<catalogueVars, recipeVars, page>>

\* UpstreamImage.objects.get(release, hardware_target): none is a 400, several
\* are an error nobody catches.
PostFinds ==
  /\ request.pc = "image" /\ request.kind = "rest"
  /\ LET is == ApiImages(request.release, request.target)
     IN  IF Cardinality(is) = 1
         THEN \E i \in is : request' = [request EXCEPT !.pc = "insert", !.image = i]
         ELSE request' = NoRequest
  /\ UNCHANGED <<catalogueVars, recipeVars, page>>

\* The page of the recipe is shown, with its picker.
ShowPage ==
  /\ HasVersion("recipe")
  /\ page' = UNION {PageImages(r) : r \in Releases}
  /\ UNCHANGED <<catalogueVars, recipeVars, request>>

\* The form is posted some time later: the image is looked up by its key, and
\* whatever it is by now it is baked for its own target.
PostForm(i) ==
  /\ request.pc = "idle" /\ Cardinality(builds) < MaxBuilds
  /\ page # None /\ i \in page /\ HasVersion("recipe")
  /\ request' = IF i \notin images THEN NoRequest
                ELSE [NoRequest EXCEPT !.pc = "insert", !.kind = "recipe",
                                       !.target = i.target, !.image = i]
  /\ page' = None
  /\ UNCHANGED <<catalogueVars, recipeVars>>

\* The button of the node: its own image, or one that serves its device.
BakeNode ==
  /\ request.pc = "idle" /\ Cardinality(builds) < MaxBuilds
  /\ HasVersion("node")
  /\ LET i == IF nodeImage # None THEN nodeImage ELSE NodeImage(Releases, NodeTarget)
     IN  request' = IF i = None THEN NoRequest
                    ELSE [NoRequest EXCEPT !.pc = "insert", !.kind = "node",
                                           !.target = NodeTarget, !.image = i]
  /\ UNCHANGED <<catalogueVars, recipeVars, page>>

\* BuildRequest.objects.create: the foreign key must hold.
Insert ==
  /\ request.pc = "insert"
  /\ builds' = IF request.image \in images
               THEN builds \cup {[image |-> request.image, target |-> request.target]}
               ELSE builds
  /\ request' = NoRequest
  /\ UNCHANGED <<releases, defaults, images, shared, seeded, seed, polled, pin, nodeImage>>
  /\ UNCHANGED <<recipeVars, page>>

\* delete_baked_image takes the row away.
DeleteBuild(b) ==
  /\ b \in builds /\ builds' = builds \ {b}
  /\ UNCHANGED <<releases, defaults, images, shared, seeded, seed, polled, pin, nodeImage>>
  /\ UNCHANGED <<recipeVars, submissionVars>>

SubmissionNext ==
  \/ \E t \in Targets : Post(t)
  \/ PostFinds \/ ShowPage
  \/ \E i \in Image : PostForm(i)
  \/ BakeNode \/ Insert
  \/ \E b \in builds : DeleteBuild(b)

Next ==
  \/ CatalogueNext /\ UNCHANGED <<recipeVars, submissionVars>>
  \/ RecipesNext /\ UNCHANGED <<catalogueVars, submissionVars>>
  \/ SubmissionNext

Spec == Init /\ [][Next]_vars

-----------------------------------------------------------------------------
(* The ways in agree: where the API finds the image of a device, the page   *)
(* of the recipe offers it and the button of a node bakes an image of the   *)
(* same release; and a node of a device that any image serves is baked      *)
(* ("rather than failing the bake", osbakery/views.py:2103).                *)
PathsAgree ==
  \A t \in Targets, r \in Releases :
    /\ Cardinality(ApiImages(r, t)) = 1 =>
         /\ t \in Supported => ApiImages(r, t) \subseteq PageImages(r)
         /\ NodeImage(Releases, t).release = r
    /\ (\E i \in images : Serves(i, t)) => NodeImage(Releases, t) \in images
=============================================================================
