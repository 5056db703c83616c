--------------------------- MODULE RecipeVersions ---------------------------
(***************************************************************************)
(* The versions of one recipe: RecipeVersion.save as the admin site and    *)
(* `manage.py seed_recipes` call it, each in a transaction of its own.     *)
(*                                                                         *)
(* A save writes its row and then, when the object it holds is current,    *)
(* clears is_current on the other rows it sees, which are the committed    *)
(* ones: what another transaction inserted and has not committed is not    *)
(* among them.  The admin site adds versions and edits them, with the box  *)
(* of is_current ticked or not (it is not at first); the seed creates the  *)
(* version it names, or refreshes the states of an existing one through    *)
(* the row it read, with is_current as read.  Two saves of one row wait    *)
(* for each other; where a save would wait for one of another row it goes  *)
(* ahead here.  Left out are the deletion of a version, a form that saves  *)
(* several of them at once, and seed_recipes --reset.                      *)
(***************************************************************************)
EXTENDS Naturals, FiniteSets

CONSTANTS RecipeNumbers,  \* version numbers of the recipe
          Editors,        \* sessions of the admin site
          Seeder,         \* the run of seed_recipes
          Seeds,       \* revisions of the seed tables
          SeedVersion,    \* [Seeds -> RecipeNumbers]
          SeedStates,     \* [Seeds -> Nat \ {0}], the states of that version
          NoVersion

Savers == Editors \cup {Seeder}

ASSUME RecipesAssumption ==
  /\ Seeder \notin Editors /\ NoVersion \notin RecipeNumbers
  /\ SeedVersion \in [Seeds -> RecipeNumbers]
  /\ SeedStates \in [Seeds -> Nat \ {0}]

VARIABLES published,  \* RecipeVersion rows
          current,    \* those with is_current
          states,     \* the salt_states of each: 0 as an editor wrote them, or the seed's
          save,       \* the save each transaction is in
          marked,     \* history: the version ticked last, if it was not unticked since
          crossed     \* history: saves have overlapped, and no ticked one was alone since

recipeVars == <<published, current, states, save, marked, crossed>>

\* mark: what the save writes to is_current of its own row; clears: the object it
\* holds is current, and the save goes on to the others; met: another save was
\* committed since it began.
NoSave == [pc |-> "idle", version |-> NoVersion, states |-> 0, mark |-> "keep", clears |-> FALSE,
           others |-> {}, met |-> FALSE]
Alone(s) == \A t \in Savers \ {s} : save[t].pc = "idle"

RecipesTypeOK ==
  /\ published \subseteq RecipeNumbers /\ current \subseteq RecipeNumbers
  /\ states \in [RecipeNumbers -> Nat]
  /\ save \in [Savers -> [pc: {"idle", "read", "saved", "cleared"}, version: RecipeNumbers \cup {NoVersion},
                          states: Nat, mark: {"tick", "untick", "keep"}, clears: BOOLEAN,
                          others: SUBSET RecipeNumbers, met: BOOLEAN]]
  /\ marked \in RecipeNumbers \cup {NoVersion} /\ crossed \in BOOLEAN

RecipesInit ==
  /\ published = {} /\ current = {} /\ states = [v \in RecipeNumbers |-> 0]
  /\ save = [s \in Savers |-> NoSave] /\ marked = NoVersion /\ crossed = FALSE

-----------------------------------------------------------------------------
\* super().save() of a row: the form has is_current ticked or not.
Saving(v, n, ticked) ==
  [NoSave EXCEPT !.pc = "saved", !.version = v, !.states = n,
                 !.mark = IF ticked THEN "tick" ELSE "untick", !.clears = ticked]

\* Another transaction has written the row and not committed.
Written(v) == \E t \in Savers : save[t].pc \in {"saved", "cleared"} /\ save[t].version = v

\* The admin site adds a version, or saves the whole row of an existing one, with the
\* states as the form showed them or as the editor wrote them.
Publish(s, v, ticked) ==
  /\ save[s].pc = "idle" /\ v \notin published /\ ~Written(v)
  /\ save' = [save EXCEPT ![s] = Saving(v, 0, ticked)]
  /\ UNCHANGED <<published, current, states, marked, crossed>>

Edit(s, v, ticked) ==
  /\ save[s].pc = "idle" /\ v \in published /\ ~Written(v)
  /\ \E n \in {0, states[v]} : save' = [save EXCEPT ![s] = Saving(v, n, ticked)]
  /\ UNCHANGED <<published, current, states, marked, crossed>>

\* seed_recipes: get_or_create of the version the edition names.
SeedReads(e) ==
  /\ save[Seeder].pc = "idle"
  /\ SeedVersion[e] \in published \/ ~Written(SeedVersion[e])
  /\ save' = [save EXCEPT ![Seeder] =
       IF SeedVersion[e] \in published
       THEN [NoSave EXCEPT !.pc = "read", !.version = SeedVersion[e], !.states = SeedStates[e],
                           !.clears = SeedVersion[e] \in current]
       ELSE Saving(SeedVersion[e], SeedStates[e], TRUE)]
  /\ UNCHANGED <<published, current, states, marked, crossed>>

\* The states that were read are the seed's; or they differ: save(update_fields).
SeedRefreshes ==
  /\ save[Seeder].pc = "read" /\ ~Written(save[Seeder].version)
  /\ save' = [save EXCEPT ![Seeder] =
       IF states[save[Seeder].version] = save[Seeder].states THEN NoSave
       ELSE [save[Seeder] EXCEPT !.pc = "saved"]]
  /\ UNCHANGED <<published, current, states, marked, crossed>>

\* Mutant: the row itself is not excluded.
ClearAll(s) ==
  /\ save[s].pc = "saved"
  /\ save' = [save EXCEPT ![s].pc = "cleared",
       ![s].others = IF save[s].clears THEN published \cup {save[s].version} ELSE {}]
  /\ UNCHANGED <<published, current, states, marked, crossed>>

\* The other committed rows of the recipe lose is_current.
ClearOthers(s) ==
  /\ save[s].pc = "saved"
  /\ save' = [save EXCEPT ![s].pc = "cleared",
       ![s].others = IF save[s].clears THEN published \ {save[s].version} ELSE {}]
  /\ UNCHANGED <<published, current, states, marked, crossed>>

Marks(mark, v) ==
  CASE mark = "tick" -> v
    [] mark = "untick" /\ marked = v -> NoVersion
    [] OTHER -> marked

Commit(s) ==
  LET v == save[s].version  mark == save[s].mark IN
  /\ save[s].pc = "cleared"
  /\ published' = published \cup {v}
  /\ current' = ((current \ (IF mark = "untick" THEN {v} ELSE {}))
                   \cup (IF mark = "tick" THEN {v} ELSE {})) \ save[s].others
  /\ states' = [states EXCEPT ![v] = save[s].states]
  /\ marked' = Marks(mark, v)
  /\ crossed' = IF Alone(s) /\ ~save[s].met THEN crossed /\ mark # "tick" ELSE TRUE
  /\ save' = [t \in Savers |-> IF t = s THEN NoSave
                               ELSE [save[t] EXCEPT !.met = save[t].pc # "idle"]]

RecipesNext ==
  \/ \E s \in Editors, v \in RecipeNumbers, ticked \in BOOLEAN : Publish(s, v, ticked) \/ Edit(s, v, ticked)
  \/ \E e \in Seeds : SeedReads(e)
  \/ SeedRefreshes
  \/ \E s \in Savers : ClearOthers(s) \/ Commit(s)

RecipesSpec == RecipesInit /\ [][RecipesNext]_recipeVars

-----------------------------------------------------------------------------
(* The current version is the one that was ticked last, and there is none   *)
(* before the first tick and after that version is unticked: save() leaves  *)
(* "only one version per recipe" with the mark (recipes/models.py:124), and *)
(* the seed's refresh moves it nowhere.  After saves have overlapped this   *)
(* holds again from the next ticked save that no other one overlaps.        *)
OneCurrent == ~crossed => current = (IF marked = NoVersion THEN {} ELSE {marked})

(* "Only one version per recipe is marked" (recipes/models.py:124), the one *)
(* "that new builds default to" (data-model.md:126), once a version has     *)
(* been ticked, however saves overlap.  Fails in two ways: of two versions  *)
(* added at once neither save sees the other's row, and both are current;   *)
(* and a refresh of the seed, of a version it read before a newer one was   *)
(* ticked, clears the newer one's mark, and none is.                        *)
ExactlyOne == marked # NoVersion => Cardinality(current) = 1
=============================================================================
