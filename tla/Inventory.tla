----------------------------- MODULE Inventory -----------------------------
(***************************************************************************)
(* The registry of Packer templates and Salt formulas, and the command     *)
(* sync_filesystem that reconciles it with the two trees on disk.          *)
(*                                                                         *)
(*   infra/models.py                           PackerTemplate, SaltFormula *)
(*   infra/management/commands/sync_filesystem.py                          *)
(*                                                                         *)
(* The command runs while the trees may change (a checkout of another      *)
(* revision) and while the admin site is used; it has no transaction.  A   *)
(* walk meets every file that is there throughout, and may meet one that   *)
(* comes or goes meanwhile.  A template's row needs an operating system,   *)
(* which the command does not know: for a file without a row the insertion *)
(* fails, and the command ends there.                                      *)
(***************************************************************************)
EXTENDS Naturals

CONSTANTS Templates,     \* *.pkr.hcl files, by their path below the root
          SlugOf,        \* [Templates -> Slug], joined and in lower case: two may be the same
          Formulas,      \* directories of an init.sls
          NoTemplate,    \* no row
          MaxChanges     \* bound: files that come or go

VARIABLES disk,       \* the files and directories there are
          template,   \* PackerTemplate rows by slug
          formula,    \* SaltFormula rows
          form,       \* the row of each slug as an open form of the admin site shows it
          walk,       \* the command
          changes     \* so far

inventoryVars == <<disk, template, formula, form, walk, changes>>

Slug == {SlugOf[f] : f \in Templates}
Status == {"active", "draft", "archived"}
\* always, ever: what has been on disk throughout the walk, or at some time of it;
\* edited: the slugs a form has saved meanwhile.
NoWalk == [pc |-> "idle", seen |-> {}, always |-> {}, ever |-> {}, edited |-> {}]
Walk(pc) == [pc |-> pc, seen |-> {}, always |-> disk, ever |-> disk, edited |-> {}]
Row == [path : Templates, status : Status]

ASSUME InventoryAssumption == NoTemplate \notin Row /\ MaxChanges \in Nat

File == Templates \cup Formulas
Walks == [pc : {"idle", "packer", "archive", "salt"}, seen : SUBSET File,
          always : SUBSET File, ever : SUBSET File, edited : SUBSET Slug]

InventoryTypeOK ==
  /\ disk \subseteq File /\ formula \subseteq Formulas
  /\ template \in [Slug -> Row \cup {NoTemplate}] /\ form \in [Slug -> Row \cup {NoTemplate}]
  /\ walk \in Walks /\ changes \in 0 .. MaxChanges

InventoryInit ==
  /\ disk = {} /\ formula = {} /\ walk = NoWalk /\ changes = 0
  /\ template = [s \in Slug |-> NoTemplate] /\ form = template

-----------------------------------------------------------------------------
\* A commit adds, removes or moves files.
Change(now) ==
  /\ changes < MaxChanges /\ now # disk
  /\ changes' = changes + 1
  /\ disk' = now
  /\ walk' = IF walk = NoWalk THEN NoWalk
             ELSE [walk EXCEPT !.always = @ \cap now, !.ever = @ \cup now]
  /\ UNCHANGED <<template, formula, form>>

\* The admin site: an operator adds the row of a file, or sets a status in a form
\* that posts the whole row as it was shown.
Register(f) ==
  /\ f \in disk /\ template[SlugOf[f]] = NoTemplate
  /\ template' = [template EXCEPT ![SlugOf[f]] = [path |-> f, status |-> "active"]]
  /\ UNCHANGED <<disk, formula, form, walk, changes>>

OpenForm(s) ==
  /\ template[s] # NoTemplate
  /\ form' = [form EXCEPT ![s] = template[s]]
  /\ UNCHANGED <<disk, template, formula, walk, changes>>

SaveForm(s, status) ==
  /\ form[s] # NoTemplate
  /\ template' = [template EXCEPT ![s] = [path |-> form[s].path, status |-> status]]
  /\ form' = [form EXCEPT ![s] = NoTemplate]
  /\ walk' = IF walk = NoWalk THEN NoWalk ELSE [walk EXCEPT !.edited = @ \cup {s}]
  /\ UNCHANGED <<disk, formula, changes>>

-----------------------------------------------------------------------------
\* handle: the templates, unless their root is missing, then the formulas.
Sync ==
  /\ walk = NoWalk
  /\ \/ walk' = Walk("packer")
     \/ disk \cap Templates = {} /\ walk' = Walk("salt")
  /\ UNCHANGED <<disk, template, formula, form, changes>>

Meets(f) == f \in walk.ever \ walk.seen

\* Mutant: the row keeps the path it has.
VisitNew(f) ==
  /\ walk.pc = "packer" /\ Meets(f)
  /\ walk' = IF template[SlugOf[f]] = NoTemplate THEN NoWalk ELSE [walk EXCEPT !.seen = @ \cup {f}]
  /\ UNCHANGED <<disk, template, formula, form, changes>>

\* update_or_create of a template: the status is left as it is.
VisitTemplate(f) ==
  LET s == SlugOf[f] IN
  /\ walk.pc = "packer" /\ Meets(f)
  /\ IF template[s] = NoTemplate
     THEN walk' = NoWalk /\ UNCHANGED template          \* IntegrityError
     ELSE /\ walk' = [walk EXCEPT !.seen = @ \cup {f}]
          /\ template' = [template EXCEPT ![s].path = f]
  /\ UNCHANGED <<disk, formula, form, changes>>

\* The walk has ended.
Visited(all) == all \cap walk.always \subseteq walk.seen

ListStale ==
  /\ walk.pc = "packer" /\ Visited(Templates)
  /\ walk' = [walk EXCEPT !.pc = "archive"]
  /\ UNCHANGED <<disk, template, formula, form, changes>>

\* One UPDATE: rows whose slug the walk has not met.
Archive ==
  /\ walk.pc = "archive"
  /\ template' = [s \in Slug |->
       IF template[s] = NoTemplate \/ s \in {SlugOf[f] : f \in walk.seen} THEN template[s]
       ELSE [template[s] EXCEPT !.status = "archived"]]
  /\ walk' = Walk("salt")
  /\ UNCHANGED <<disk, formula, form, changes>>

VisitFormula(d) ==
  /\ walk.pc = "salt" /\ Meets(d)
  /\ walk' = [walk EXCEPT !.seen = @ \cup {d}]
  /\ formula' = formula \cup {d}
  /\ UNCHANGED <<disk, template, form, changes>>

\* Rows of formulas that are gone are only reported.
SyncEnds ==
  /\ walk.pc = "salt" /\ Visited(Formulas)
  /\ walk' = NoWalk
  /\ UNCHANGED <<disk, template, formula, form, changes>>

InventoryNext ==
  \/ \E now \in SUBSET File : Change(now)
  \/ \E f \in Templates : Register(f) \/ VisitTemplate(f)
  \/ \E s \in Slug : OpenForm(s) \/ \E status \in Status : SaveForm(s, status)
  \/ Sync \/ ListStale \/ Archive \/ SyncEnds
  \/ \E d \in Formulas : VisitFormula(d)

InventorySpec == InventoryInit /\ [][InventoryNext]_inventoryVars

-----------------------------------------------------------------------------
\* A row is archived by the command only when no file of its slug was on disk
\* all the while, and one it leaves points at a file of its slug that was there
\* during the walk, unless a form has put back what it had read: whatever the tree
\* and the admin site do meanwhile, also when two files share a slug.  The formulas
\* that were there all the while have rows when the command has ended and has not
\* failed (sync_filesystem's "existing rows are updated ... rows pointing at
\* directories that no longer exist are archived").
SyncReconciles ==
  [][ /\ (walk.pc = "archive" /\ walk'.pc = "salt") =>
           \A s \in Slug : template[s] # NoTemplate =>
             /\ template'[s].status # template[s].status =>
                  ~ \E f \in walk.always \cap Templates : SlugOf[f] = s
             /\ (template'[s].status # "archived" /\ s \notin walk.edited) =>
                  template[s].path \in walk.ever /\ SlugOf[template[s].path] = s
      /\ (walk.pc = "salt" /\ walk'.pc = "idle") =>
           walk.always \cap Formulas \subseteq formula ]_inventoryVars
=============================================================================
