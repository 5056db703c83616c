----------------------------- MODULE MCCatalogue -----------------------------
(* A small instance of Submission with two revisions of the seed, and beside it *)
(* those of Downloads and Inventory, which share no state: run side by side. *)
EXTENDS Submission, Downloads, Inventory, TLC

CONSTANTS x86, arm, e1, e2, q1, q2

VARIABLE unit

Img(r, t, v) == [release |-> r, target |-> t, variant |-> v]

\* Revision 1 has two builds for x86, one of them shared with arm, and an old
\* image for arm; revision 2 drops that release, and x86 has one image of its own.
mcReleases == <<{1, 2}, {2, 3}>>
mcDefault  == <<2, 3>>
mcImages   == <<{Img(1, arm, 1), Img(2, x86, 1), Img(2, x86, 2)}, {Img(2, x86, 2), Img(3, x86, 1)}>>
mcShared   == [e \in {1, 2} |-> [i \in Image |-> IF i = Img(2, x86, 2) THEN {arm} ELSE {}]]
mcSeedVersion == <<1, 1>>
mcSeedStates  == <<1, 2>>
\* Two templates of one slug.
mcSlugOf == [f \in Templates |-> "a-b"]
mcSymmetry == Permutations({e1, e2}) \cup Permutations({q1, q2})

\* In unit "catalogue" the recipe has a current version, one that is not current, or
\* none at all; unit "recipes" shows how it comes to that.
MCInit ==
  /\ Init /\ DownloadsInit /\ InventoryInit
  /\ unit \in {"catalogue", "recipes", "downloads", "inventory"}
HasOne ==
  /\ published' = {1} /\ current' \in {{}, {1}}
  /\ marked' = IF current' = {} THEN NoVersion ELSE 1
  /\ UNCHANGED <<states, save, crossed>>
MCNext ==
  \/ /\ unit = "catalogue"
     /\ \/ CatalogueNext /\ UNCHANGED <<recipeVars, submissionVars>>
        \/ SubmissionNext
        \/ published = {} /\ HasOne /\ UNCHANGED <<catalogueVars, submissionVars>>
     /\ UNCHANGED <<unit, downloadVars, inventoryVars>>
  \/ /\ unit = "recipes" /\ RecipesNext
     /\ UNCHANGED <<catalogueVars, submissionVars, unit, downloadVars, inventoryVars>>
  \/ unit = "downloads" /\ DownloadsNext /\ UNCHANGED <<unit, vars, inventoryVars>>
  \/ unit = "inventory" /\ InventoryNext /\ UNCHANGED <<unit, vars, downloadVars>>
\* The recipes alone.
RecipesOnly == MCInit /\ unit = "recipes" /\ [][MCNext]_<<unit, vars, downloadVars, inventoryVars>>

MCSpec == MCInit /\ [][MCNext]_<<unit, vars, downloadVars, inventoryVars>>
=============================================================================
