-------------------------- MODULE Inventory_proofs --------------------------
(***************************************************************************)
(* sync_filesystem reconciles the registry with the disk, for any files,   *)
(* slugs and number of changes: what it archives was not there, what it    *)
(* leaves was met, and the formulas that were there have rows.             *)
(***************************************************************************)
EXTENDS Inventory, TLAPS

\* The row of a template the walk has met.
MetRow(f) ==
  /\ template[SlugOf[f]] # NoTemplate
  /\ SlugOf[f] \notin walk.edited =>
       /\ template[SlugOf[f]].path \in walk.ever
       /\ SlugOf[template[SlugOf[f]].path] = SlugOf[f]

Within == walk.seen \subseteq walk.ever
SeenTemplates == walk.pc \in {"packer", "archive"} => walk.seen \subseteq Templates
Met == walk.pc \in {"packer", "archive"} => \A f \in walk.seen : MetRow(f)
Complete == walk.pc = "archive" => walk.always \cap Templates \subseteq walk.seen
Recorded == walk.pc = "salt" => walk.seen \subseteq formula

Inv == InventoryTypeOK /\ Within /\ SeenTemplates /\ Met /\ Complete /\ Recorded

\* A file has a slug.
LEMMA SlugsOfFiles == \A f \in Templates : SlugOf[f] \in Slug
BY DEF Slug

LEMMA InitHolds == InventoryInit => Inv
BY InventoryAssumption, SMT
DEF InventoryInit, Inv, InventoryTypeOK, NoWalk, Walks, File, Within, SeenTemplates, Met,
    Complete, Recorded

-----------------------------------------------------------------------------
(* Each operation keeps the invariant. *)

LEMMA TypesKept == InventoryTypeOK /\ [InventoryNext]_inventoryVars => InventoryTypeOK'
<1> SUFFICES ASSUME InventoryTypeOK, [InventoryNext]_inventoryVars PROVE InventoryTypeOK'
  OBVIOUS
<1> USE InventoryAssumption, SlugsOfFiles DEF InventoryTypeOK, Walks, Row, Status, File
<1>1. ASSUME NEW now \in SUBSET File, Change(now) PROVE InventoryTypeOK'
  <2>1. walk' \in Walks
    BY <1>1 DEF Change, NoWalk
  <2> QED
    BY <1>1, <2>1 DEF Change
<1>2. ASSUME NEW f \in Templates, Register(f) PROVE InventoryTypeOK'
  BY <1>2 DEF Register
<1>3. ASSUME NEW s \in Slug, OpenForm(s) PROVE InventoryTypeOK'
  BY <1>3 DEF OpenForm
<1>4. ASSUME NEW s \in Slug, NEW status \in Status, SaveForm(s, status) PROVE InventoryTypeOK'
  <2>1. walk' \in Walks
    BY <1>4 DEF SaveForm, NoWalk
  <2>2. form[s] \in Row
    BY <1>4 DEF SaveForm
  <2>3. template' \in [Slug -> Row \cup {NoTemplate}]
    BY <1>4, <2>2 DEF SaveForm
  <2> QED
    BY <1>4, <2>1, <2>3 DEF SaveForm
<1>5. ASSUME Sync PROVE InventoryTypeOK'
  BY <1>5 DEF Sync, Walk
<1>6. ASSUME NEW f \in Templates, VisitTemplate(f) PROVE InventoryTypeOK'
  <2>1. walk' \in Walks
    BY <1>6 DEF VisitTemplate, NoWalk
  <2>2. template' \in [Slug -> Row \cup {NoTemplate}]
    <3>1. CASE template[SlugOf[f]] = NoTemplate
      BY <1>6, <3>1 DEF VisitTemplate
    <3>2. CASE template[SlugOf[f]] \in Row
      BY <1>6, <3>2 DEF VisitTemplate
    <3> QED
      BY <3>1, <3>2
  <2> QED
    BY <1>6, <2>1, <2>2 DEF VisitTemplate
<1>7. ASSUME ListStale PROVE InventoryTypeOK'
  BY <1>7 DEF ListStale
<1>8. ASSUME Archive PROVE InventoryTypeOK'
  <2>1. walk' \in Walks
    BY <1>8 DEF Archive, Walk
  <2>2. \A s \in Slug : template[s] # NoTemplate => [template[s] EXCEPT !.status = "archived"] \in Row
    OBVIOUS
  <2>3. template' \in [Slug -> Row \cup {NoTemplate}]
    BY <1>8, <2>2 DEF Archive
  <2> QED
    BY <1>8, <2>1, <2>3 DEF Archive
<1>9. ASSUME NEW d \in Formulas, VisitFormula(d) PROVE InventoryTypeOK'
  BY <1>9 DEF VisitFormula
<1>10. ASSUME SyncEnds PROVE InventoryTypeOK'
  BY <1>10 DEF SyncEnds, NoWalk
<1>11. CASE UNCHANGED inventoryVars
  BY <1>11 DEF inventoryVars
<1> QED
  BY <1>1, <1>2, <1>3, <1>4, <1>5, <1>6, <1>7, <1>8, <1>9, <1>10, <1>11 DEF InventoryNext

\* What of the invariant is about the walk alone, or about the formulas.
LEMMA WalkKept ==
  ASSUME Inv, [InventoryNext]_inventoryVars
  PROVE  Within' /\ SeenTemplates' /\ Complete' /\ Recorded'
<1> USE DEF Inv, InventoryTypeOK, Walks, Within, SeenTemplates, Complete, Recorded
<1>1. ASSUME NEW now \in SUBSET File, Change(now) PROVE Within' /\ SeenTemplates' /\ Complete' /\ Recorded'
  BY <1>1 DEF Change, NoWalk
<1>2. ASSUME NEW s \in Slug, NEW status \in Status, SaveForm(s, status)
      PROVE  Within' /\ SeenTemplates' /\ Complete' /\ Recorded'
  BY <1>2 DEF SaveForm, NoWalk
<1>3. CASE Sync
  BY <1>3 DEF Sync, Walk
<1>4. ASSUME NEW f \in Templates, VisitTemplate(f)
      PROVE  Within' /\ SeenTemplates' /\ Complete' /\ Recorded'
  BY <1>4 DEF VisitTemplate, Meets, NoWalk
<1>5. CASE ListStale
  BY <1>5 DEF ListStale, Visited
<1>6. CASE Archive
  BY <1>6 DEF Archive, Walk
<1>7. ASSUME NEW d \in Formulas, VisitFormula(d)
      PROVE  Within' /\ SeenTemplates' /\ Complete' /\ Recorded'
  BY <1>7 DEF VisitFormula, Meets
<1>8. CASE SyncEnds
  BY <1>8 DEF SyncEnds, NoWalk
<1>9. CASE (\E f \in Templates : Register(f)) \/ (\E s \in Slug : OpenForm(s)) \/ UNCHANGED inventoryVars
  BY <1>9 DEF Register, OpenForm, inventoryVars
<1> QED
  BY <1>1, <1>2, <1>3, <1>4, <1>5, <1>6, <1>7, <1>8, <1>9 DEF InventoryNext

\* The rows of what the walk has met.
LEMMA MetKept ==
  ASSUME Inv, [InventoryNext]_inventoryVars
  PROVE  Met'
<1> USE SlugsOfFiles DEF Inv, Met, SeenTemplates, MetRow
<1>1. ASSUME NEW now \in SUBSET File, Change(now) PROVE Met'
  BY <1>1 DEF Change, NoWalk, InventoryTypeOK, Walks
<1>2. ASSUME NEW g \in Templates, Register(g) PROVE Met'
  <2>1. walk' = walk /\ \A s \in Slug : template[s] # NoTemplate => template'[s] = template[s]
    BY <1>2 DEF Register, InventoryTypeOK
  <2> QED
    BY <2>1
<1>3. ASSUME NEW s \in Slug, NEW status \in Status, SaveForm(s, status) PROVE Met'
  <2>1. template' = [template EXCEPT ![s] = [path |-> form[s].path, status |-> status]]
    BY <1>3 DEF SaveForm
  <2>2. template'[s] # NoTemplate /\ \A t \in Slug \ {s} : template'[t] = template[t]
    <3>1. form[s] \in Row
      BY <1>3 DEF SaveForm, InventoryTypeOK
    <3>2. template'[s] = [path |-> form[s].path, status |-> status]
      BY <2>1 DEF InventoryTypeOK
    <3> QED
      BY <2>1, <3>1, <3>2, <1>3, InventoryAssumption DEF InventoryTypeOK, Row
  <2>3. CASE walk = NoWalk
    BY <1>3, <2>3 DEF SaveForm, NoWalk
  <2>4. CASE walk # NoWalk
    <3>1. walk'.pc = walk.pc /\ walk'.seen = walk.seen /\ walk'.ever = walk.ever
          /\ walk'.edited = walk.edited \cup {s}
      BY <1>3, <2>4 DEF SaveForm, InventoryTypeOK, Walks
    <3> QED
      BY <2>2, <3>1
  <2> QED
    BY <2>3, <2>4
<1>4. CASE Sync
  BY <1>4 DEF Sync, Walk
<1>5. ASSUME NEW g \in Templates, VisitTemplate(g) PROVE Met'
  <2>1. CASE template[SlugOf[g]] = NoTemplate
    BY <1>5, <2>1 DEF VisitTemplate, NoWalk
  <2>2. CASE template[SlugOf[g]] \in Row
    <3>1. /\ walk'.pc = walk.pc /\ walk'.seen = walk.seen \cup {g} /\ walk'.ever = walk.ever
          /\ walk'.edited = walk.edited /\ g \in walk.ever /\ walk.pc = "packer"
      BY <1>5, <2>2, InventoryAssumption DEF VisitTemplate, Meets, InventoryTypeOK, Walks
    <3>2. template' = [template EXCEPT ![SlugOf[g]] = [path |-> g, status |-> template[SlugOf[g]].status]]
      BY <1>5, <2>2, InventoryAssumption DEF VisitTemplate, InventoryTypeOK, Row
    <3>3. /\ template'[SlugOf[g]] = [path |-> g, status |-> template[SlugOf[g]].status]
          /\ \A t \in Slug \ {SlugOf[g]} : template'[t] = template[t]
      BY <3>2 DEF InventoryTypeOK
    <3>4. template'[SlugOf[g]] # NoTemplate /\ template'[SlugOf[g]].path = g
      BY <3>3, <2>2, InventoryAssumption DEF Row
    <3> QED
      BY <3>1, <3>3, <3>4
  <2> QED
    BY <2>1, <2>2 DEF InventoryTypeOK
<1>6. CASE ListStale
  BY <1>6 DEF ListStale, InventoryTypeOK, Walks
<1>7. CASE Archive
  BY <1>7 DEF Archive, Walk
<1>8. ASSUME NEW d \in Formulas, VisitFormula(d) PROVE Met'
  BY <1>8 DEF VisitFormula, InventoryTypeOK, Walks
<1>9. CASE SyncEnds
  BY <1>9 DEF SyncEnds, NoWalk
<1>10. CASE (\E s \in Slug : OpenForm(s)) \/ UNCHANGED inventoryVars
  BY <1>10 DEF OpenForm, inventoryVars
<1> QED
  BY <1>1, <1>2, <1>3, <1>4, <1>5, <1>6, <1>7, <1>8, <1>9, <1>10 DEF InventoryNext

LEMMA InvHolds == InventorySpec => []Inv
<1>1. Inv /\ [InventoryNext]_inventoryVars => Inv'
  BY TypesKept, WalkKept, MetKept DEF Inv
<1> QED
  BY InitHolds, <1>1, PTL DEF InventorySpec

\* Only these two steps end the phases the property is about.
LEMMA PhasesEnd ==
  ASSUME Inv, InventoryNext
  PROVE  /\ walk.pc = "archive" /\ walk'.pc = "salt" => Archive
         /\ walk.pc = "salt" /\ walk'.pc = "idle" => SyncEnds
<1> USE DEF Inv, InventoryTypeOK, Walks
<1>1. ASSUME NEW now \in SUBSET File, Change(now) PROVE walk'.pc = walk.pc
  BY <1>1 DEF Change
<1>2. ASSUME NEW s \in Slug, NEW status \in Status, SaveForm(s, status) PROVE walk'.pc = walk.pc
  BY <1>2 DEF SaveForm
<1>3. ASSUME (\E f \in Templates : Register(f)) \/ (\E s \in Slug : OpenForm(s)) PROVE walk'.pc = walk.pc
  BY <1>3 DEF Register, OpenForm
<1>4. ASSUME Sync PROVE walk.pc = "idle"
  BY <1>4 DEF Sync, NoWalk
<1>5. ASSUME NEW f \in Templates, VisitTemplate(f) PROVE walk.pc = "packer"
  BY <1>5 DEF VisitTemplate
<1>6. ASSUME ListStale PROVE walk.pc = "packer"
  BY <1>6 DEF ListStale
<1>7. ASSUME NEW d \in Formulas, VisitFormula(d) PROVE walk'.pc = walk.pc
  BY <1>7 DEF VisitFormula
<1>8. ASSUME SyncEnds PROVE walk.pc = "salt"
  BY <1>8 DEF SyncEnds
<1>9. ASSUME Archive PROVE walk.pc = "archive"
  BY <1>9 DEF Archive
<1> HIDE DEF Inv
<1> QED
  BY <1>1, <1>2, <1>3, <1>4, <1>5, <1>6, <1>7, <1>8, <1>9, Zenon DEF InventoryNext

-----------------------------------------------------------------------------

\* Whatever the files and slugs are: every walk of sync_filesystem archives only
\* what was not there all the while, leaves rows at files it met, and records the
\* formulas (sync_filesystem.py, its docstring).
THEOREM Reconciliation == InventorySpec => SyncReconciles
<1> DEFINE Outcome ==
      /\ (walk.pc = "archive" /\ walk'.pc = "salt") =>
           \A s \in Slug : template[s] # NoTemplate =>
             /\ template'[s].status # template[s].status =>
                  ~ \E f \in walk.always \cap Templates : SlugOf[f] = s
             /\ (template'[s].status # "archived" /\ s \notin walk.edited) =>
                  template[s].path \in walk.ever /\ SlugOf[template[s].path] = s
      /\ (walk.pc = "salt" /\ walk'.pc = "idle") =>
           walk.always \cap Formulas \subseteq formula
<1>1. Inv /\ [InventoryNext]_inventoryVars => [Outcome]_inventoryVars
  <2> SUFFICES ASSUME Inv, InventoryNext PROVE Outcome
    OBVIOUS
  <2>1. walk.pc = "archive" /\ walk'.pc = "salt" => Archive
    BY PhasesEnd
  <2>2. walk.pc = "salt" /\ walk'.pc = "idle" => SyncEnds
    BY PhasesEnd
  <2>3. ASSUME Archive, NEW s \in Slug, template[s] # NoTemplate
        PROVE  /\ template'[s].status # template[s].status =>
                    ~ \E f \in walk.always \cap Templates : SlugOf[f] = s
               /\ (template'[s].status # "archived" /\ s \notin walk.edited) =>
                    template[s].path \in walk.ever /\ SlugOf[template[s].path] = s
    <3>1. CASE \E f \in walk.seen : SlugOf[f] = s
      <4>1. template'[s] = template[s]
        BY <2>3, <3>1 DEF Archive
      <4>2. \A f \in walk.seen : MetRow(f)
        BY <2>3 DEF Archive, Inv, Met
      <4> QED
        BY <3>1, <4>1, <4>2 DEF MetRow
    <3>2. CASE \A f \in walk.seen : SlugOf[f] # s
      <4>1. walk.always \cap Templates \subseteq walk.seen
        BY <2>3 DEF Archive, Inv, Complete
      <4>2. template[s] \in Row
        BY <2>3 DEF Inv, InventoryTypeOK
      <4>3. template'[s] = [template[s] EXCEPT !.status = "archived"]
        BY <2>3, <3>2 DEF Archive
      <4>4. template'[s].status = "archived"
        BY <4>2, <4>3 DEF Row
      <4> QED
        BY <3>2, <4>1, <4>4
    <3> QED
      BY <3>1, <3>2
  <2>4. ASSUME SyncEnds PROVE walk.always \cap Formulas \subseteq formula
    BY <2>4 DEF SyncEnds, Visited, Inv, Recorded
  <2> QED
    BY <2>1, <2>2, <2>3, <2>4
<1> QED
  BY InvHolds, <1>1, PTL DEF InventorySpec, SyncReconciles
=============================================================================
