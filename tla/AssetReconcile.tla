---------------------------- MODULE AssetReconcile ----------------------------
(***************************************************************************)
(* asset/asset_manager.cpp: the three-way reconciliation of the sources and *)
(* the .meta sidecars under Assets/, the artifacts under Library/, and the  *)
(* catalog in memory.                                                       *)
(*                                                                          *)
(* The manager runs on one thread; what interleaves with it is the user,    *)
(* who edits, deletes and renames files while it works, and crashes.  A     *)
(* plan is taken in one call and applied by another: between the two the    *)
(* application may import sources, open the workspace again or take another *)
(* plan.  Applying it takes a step per orphan, one per item, and for each   *)
(* import one until the artifact is written and one for the sidecar.  Files *)
(* are written in place: a write that fails or is interrupted leaves the    *)
(* old file or a truncated one.                                             *)
(*                                                                          *)
(* Paths are numbers, in the code's lexicographic order.  The content of a  *)
(* source is a number (what its fingerprint tells apart); every source has  *)
(* an importer and one output.  There is one importer setting, with a list  *)
(* of allowed values.  Left out: several outputs per source, dependencies   *)
(* and Engine assets (see AssetDatabase), importer upgrades (they act as    *)
(* edits), UUID conflicts between sidecars, and sources that change and     *)
(* change back within one import.  Items are applied in any order, and a    *)
(* plan is applied once.                                                    *)
(***************************************************************************)
EXTENDS Naturals, FiniteSets, Functions

CONSTANTS Paths,         \* the source paths
          Contents,      \* what a source may contain
          Values,        \* the values the setting allows
          Authored,      \* what the user may write for it in a sidecar
          Default,       \* its default
          Suggestions,   \* what prescan finds: who suggests which value to whom
          Start,         \* what sources there may be when the workspace is first opened
          MaxHandles,    \* bound: UUIDs generated
          MaxEdits,      \* bound: steps of the user
          MaxFailures    \* bound: writes, removals and imports that fail

None == "none"           \* no value
NoHandle == 0            \* the invalid UUID
NoContent == 0           \* the fingerprint of a shell sidecar; a truncated artifact
NoPath == 0              \* the source path of a sidecar that cannot be parsed

Suggestion == [publisher : Paths, content : Contents, target : Paths, value : Values]

ASSUME AssetAssumption ==
  /\ Paths \subseteq Nat \ {NoPath} /\ Contents \subseteq Nat \ {NoContent}
  /\ Default \in Values /\ None \notin Values \cup Authored
  /\ Suggestions \subseteq Suggestion
  /\ Start \subseteq UNION {[present -> Contents] : present \in SUBSET Paths}
  /\ {MaxHandles, MaxEdits, MaxFailures} \subseteq Nat

VARIABLES
  source,     \* the source files
  meta,       \* the sidecars, by the path they sit next to
  artifact,   \* the artifacts, by UUID
  userCatalog,    \* m_catalog: UUID -> source path
  fresh,      \* the next UUID to be generated
  phase,      \* where reconcile is: no plan, a plan, or it is being applied
  plan,       \* the ReconcilePlan the application has, or what is left of it to apply
  job,        \* the import under way
  edits,      \* how many steps the user made
  failures,   \* how many writes, removals and imports failed
  clean,      \* history: nothing failed, was edited, or was imported between taking
              \* the last plan and applying it
  outside,    \* history: the sources whose sidecars the catalog was not built from: the
              \* user touched them, the plan applied last was older than they are, or
              \* an orphan's could not be removed
  half        \* history: the sidecars whose artifact was written again without them

manager == <<userCatalog, fresh, phase, plan, job>>
reconcileVars == <<source, meta, artifact, userCatalog, fresh, phase, plan, job, edits, failures, clean,
                   outside, half>>

UUIDs == 1 .. MaxHandles

\* SourceMetadata
Sidecar == [path : Paths \cup {NoPath}, handle : UUIDs \cup {NoHandle},
            content : Contents \cup {NoContent}, authored : Authored \cup {None},
            inferred : Values \cup {None}, resolved : Values \cup {None}]

Item == [action : {"Import", "Reimport", "Current"}, inferred : Values \cup {None}]

NoPlan == [items |-> [p \in {} |-> None], accepted |-> [p \in {} |-> NoHandle],
           orphans |-> [p \in {} |-> NoHandle]]
NoJob == [stage |-> "none", path |-> NoPath, content |-> NoContent, authored |-> None,
          inferred |-> None, handle |-> NoHandle]

Job == [stage : {"none", "importing", "artifact"}, path : Paths \cup {NoPath},
        content : Contents \cup {NoContent}, authored : Authored \cup {None},
        inferred : Values \cup {None}, handle : UUIDs \cup {NoHandle}]

IsPartial(f, D, R) == DOMAIN f \subseteq D /\ Range(f) \subseteq R

TypeOK ==
  /\ IsPartial(source, Paths, Contents)
  /\ IsPartial(meta, Paths, Sidecar)
  /\ IsPartial(artifact, 1 .. fresh - 1,
               [content : Contents \cup {NoContent}, setting : Values \cup {None}])
  /\ IsPartial(userCatalog, 1 .. fresh - 1, Paths)
  /\ fresh \in 1 .. MaxHandles + 1
  /\ phase \in {"idle", "planned", "orphans", "items"}
  /\ plan = [items |-> plan.items, accepted |-> plan.accepted, orphans |-> plan.orphans]
  /\ IsPartial(plan.items, Paths, Item)
  /\ IsPartial(plan.accepted, Paths, UUIDs)
  /\ IsPartial(plan.orphans, Paths, UUIDs)
  /\ job \in Job
  /\ edits \in 0 .. MaxEdits /\ failures \in 0 .. MaxFailures
  /\ clean \in BOOLEAN
  /\ {outside, half} \subseteq SUBSET Paths

ReconcileInit ==
  /\ source \in Start
  /\ meta = [p \in {} |-> None]
  /\ artifact = [h \in {} |-> None]
  /\ userCatalog = [h \in {} |-> NoPath]
  /\ fresh = 1
  /\ phase = "idle"
  /\ plan = NoPlan
  /\ job = NoJob
  /\ edits = 0 /\ failures = 0
  /\ clean = FALSE
  /\ outside = {}
  /\ half = {}

-----------------------------------------------------------------------------
(* AssetStorage. *)

Put(f, x, y) == [z \in DOMAIN f \cup {x} |-> IF z = x THEN y ELSE f[z]]
Without(f, S) == Restrict(f, DOMAIN f \ S)

\* A sidecar cut short within its first lines: it does not parse.
Torn == [path |-> NoPath, handle |-> NoHandle, content |-> NoContent,
         authored |-> None, inferred |-> None, resolved |-> None]

Parses(sidecar) == sidecar.path # NoPath

\* The source and the settings come first and the assets last: cut short in
\* between, a sidecar parses and has no asset.
Cut(sidecar) == [sidecar EXCEPT !.handle = NoHandle]

Failing(failed) ==
  /\ failures' = IF failed THEN failures + 1 ELSE failures
  /\ failures' <= MaxFailures

\* writeFile: the file is written, kept or cut short.
Outcomes == {"written", "kept", "torn", "cut"}

\* writeMetadata, next to p.
Written(p, sidecar, outcome) ==
  CASE outcome = "written" -> Put(meta, p, sidecar)
    [] outcome = "kept"    -> meta
    [] outcome = "torn"    -> Put(meta, p, Torn)
    [] outcome = "cut"     -> Put(meta, p, Cut(sidecar))

\* A file that cannot be removed stays.
MetadataWithout(p, removed) == IF removed THEN Without(meta, {p}) ELSE meta
ArtifactsWithout(h, removed) == IF removed THEN Without(artifact, {h}) ELSE artifact

\* scanMetadata: not a sidecar that does not parse or that names another
\* source than the one it sits next to.
Readable == {p \in DOMAIN meta : Parses(meta[p]) /\ meta[p].path = p}

Shell(p) == [Torn EXCEPT !.path = p]

\* readMetadata, from the sidecars m, and what its callers make of nothing.
ReadMetadata(p, m) ==
  IF p \in DOMAIN m /\ Parses(m[p]) /\ m[p].path = p THEN m[p] ELSE Shell(p)

Present == DOMAIN source

\* sourceFingerprint, of a source that is there.
Fingerprint(p) == source[p]

HasArtifact(h) == h \in DOMAIN artifact

\* The sidecars that record h, readable or not.
Recorders(h) == {p \in DOMAIN meta : meta[p].handle = h}

-----------------------------------------------------------------------------
(* What the plan and the imports compute. *)

\* The sidecars with an asset record; a shell has none.
Owners == {p \in Readable : meta[p].handle # NoHandle}

\* The catalog that rebuildUserCatalog and open make of the given sidecars.
Expand(handleOf) ==
  [h \in Range(handleOf) |-> CHOOSE p \in DOMAIN handleOf : handleOf[p] = h]

OnDisk == [p \in Owners |-> meta[p].handle]

\* settingMatchesDescriptor
Matches(value) == value \in Values

\* resolveSettings, for the one setting: an authored value that does not
\* match hides the inferred one all the same.
Resolve(authored, inferred) ==
  LET value == IF authored # None THEN authored ELSE inferred
  IN  IF Matches(value) THEN value ELSE Default

\* collectInferences: of the suggestions for p, that of the first publisher.
Candidates(p) ==
  {s \in Suggestions : /\ s.target = p
                       /\ s.publisher \in Present
                       /\ Fingerprint(s.publisher) = s.content}

Inferred(p) ==
  IF Candidates(p) = {} THEN None
  ELSE (CHOOSE s \in Candidates(p) : \A t \in Candidates(p) : s.publisher <= t.publisher).value

\* The settings of p with this round's inferences.
Projected(p) == Resolve(ReadMetadata(p, meta).authored, Inferred(p))

\* Fault: the content of the source is not compared.
PlanActionByArtifact(p) ==
  IF p \notin Owners THEN "Import"
  ELSE IF \/ ~HasArtifact(meta[p].handle)
          \/ meta[p].resolved # Projected(p)
       THEN "Reimport"
  ELSE "Current"

PlanAction(p) ==
  IF p \notin Owners THEN "Import"
  ELSE IF \/ ~HasArtifact(meta[p].handle)
          \/ meta[p].content # Fingerprint(p)
          \/ meta[p].resolved # Projected(p)
       THEN "Reimport"
  ELSE "Current"

-----------------------------------------------------------------------------
(* planReconcile and applyReconcile; reconcile is the one after the other. *)

\* The application may call the manager, with a plan in hand or without.
Ready == phase \in {"idle", "planned"} /\ job = NoJob

PlanReconcile ==
  /\ Ready
  /\ plan' = [items |-> [p \in Present |->
                           [action |-> PlanAction(p), inferred |-> Inferred(p)]],
              accepted |-> Restrict(OnDisk, Owners \cap Present),
              orphans |-> Restrict(OnDisk, Owners \ Present)]
  /\ phase' = "planned"
  /\ clean' = TRUE
  /\ UNCHANGED <<source, meta, artifact, userCatalog, fresh, job, edits, failures, outside, half>>

\* The assets of p in the plan and in the sidecar next to it, if any.
PlannedFor(p) == IF p \in DOMAIN plan.accepted THEN {plan.accepted[p]}
                 ELSE {plan.orphans[q] : q \in {p} \cap DOMAIN plan.orphans}
RecordedFor(p) == {meta[q].handle : q \in {p} \cap Owners}

\* applyReconcile trusts the plan: the sidecars are not read again.
RebuildCatalog ==
  /\ phase = "planned" /\ job = NoJob
  /\ userCatalog' = Expand(plan.accepted)
  /\ phase' = "orphans"
  /\ outside' = {p \in Paths : PlannedFor(p) # RecordedFor(p)}
  /\ UNCHANGED <<source, meta, artifact, fresh, plan, job, edits, failures, clean, half>>

RemoveOrphan(p, metadataRemoved, artifactRemoved) ==
  /\ phase = "orphans"
  /\ p \in DOMAIN plan.orphans
  /\ meta' = MetadataWithout(p, metadataRemoved)
  /\ artifact' = ArtifactsWithout(plan.orphans[p], artifactRemoved)
  /\ half' = IF artifactRemoved THEN half \ Recorders(plan.orphans[p]) ELSE half
  /\ clean' = (clean /\ metadataRemoved /\ artifactRemoved)
  /\ Failing(~metadataRemoved \/ ~artifactRemoved)
  /\ plan' = [plan EXCEPT !.orphans = Without(@, {p})]
  /\ outside' = IF metadataRemoved THEN outside \ {p} ELSE outside \cup {p}
  /\ UNCHANGED <<source, userCatalog, fresh, phase, job, edits>>

OrphansRemoved ==
  /\ phase = "orphans"
  /\ DOMAIN plan.orphans = {}
  /\ phase' = "items"
  /\ UNCHANGED <<source, meta, artifact, userCatalog, fresh, plan, job, edits, failures, clean, outside, half>>

\* Fault: a setting that was inferred before is kept.
SettingsChangeToNew(p, inferred) == inferred # None /\ ReadMetadata(p, meta).inferred = None

\* persistInferences writes the sidecar: never when the plan infers nothing.
SettingsChange(p, inferred) == inferred # None /\ ReadMetadata(p, meta).inferred # inferred

\* import up to the importer's call, given the sidecars m it reads.
ImportJob(p, m) ==
  [stage |-> "importing", path |-> p, content |-> Fingerprint(p), handle |-> NoHandle,
   authored |-> ReadMetadata(p, m).authored, inferred |-> ReadMetadata(p, m).inferred]

\* The import goes ahead even when the inferences could not be stored.
ApplyItem(p, outcome) ==
  /\ phase = "items" /\ job = NoJob
  /\ p \in DOMAIN plan.items
  /\ IF SettingsChange(p, plan.items[p].inferred)
     THEN meta' = Written(p, [ReadMetadata(p, meta) EXCEPT !.inferred = plan.items[p].inferred], outcome)
     ELSE outcome = "written" /\ meta' = meta
  /\ clean' = (clean /\ outcome = "written")
  /\ Failing(outcome # "written")
  /\ plan' = [plan EXCEPT !.items = Without(@, {p})]
  /\ IF plan.items[p].action # "Current" /\ p \in Present
     THEN job' = ImportJob(p, meta')
     ELSE job' = NoJob
  /\ UNCHANGED <<source, artifact, userCatalog, fresh, phase, edits, outside, half>>

ReconcileEnds ==
  /\ phase = "items" /\ job = NoJob
  /\ DOMAIN plan.items = {}
  /\ phase' = "idle"
  /\ plan' = NoPlan
  /\ UNCHANGED <<source, meta, artifact, userCatalog, fresh, job, edits, failures, clean, outside, half>>

-----------------------------------------------------------------------------
(* import and commitOutputs. *)

\* import called by the application, also between taking a plan and applying it.
ImportDirectly(p) ==
  /\ Ready
  /\ p \in DOMAIN source
  /\ job' = ImportJob(p, meta)
  /\ clean' = (clean /\ phase = "idle")
  /\ UNCHANGED <<source, meta, artifact, userCatalog, fresh, phase, plan, edits, failures, outside, half>>

SourceUnchanged == job.path \in Present /\ Fingerprint(job.path) = job.content

\* The importer fails, the source changed meanwhile, or nothing can be written.
ImporterFails ==
  /\ job.stage = "importing"
  /\ job' = NoJob
  /\ Failing(SourceUnchanged)
  /\ clean' = FALSE
  /\ UNCHANGED <<source, meta, artifact, userCatalog, fresh, phase, plan, edits, outside, half>>

\* Fault: no lookup by source and local id.
FreshHandle(p) == fresh

\* findBySourceAndLocalId, or a new UUID.
HandleFor(p) ==
  IF p \in Range(userCatalog) THEN CHOOSE h \in DOMAIN userCatalog : userCatalog[h] = p ELSE fresh

\* What the importer makes, whole or (complete = FALSE) truncated.
Built(complete) ==
  IF complete THEN [content |-> job.content, setting |-> Resolve(job.authored, job.inferred)]
  ELSE [content |-> NoContent, setting |-> None]

WriteArtifact(complete) ==
  LET handle == HandleFor(job.path)
  IN  /\ job.stage = "importing"
      /\ SourceUnchanged
      /\ handle <= MaxHandles
      /\ artifact' = Put(artifact, handle, Built(complete))
      /\ half' = half \cup Recorders(handle)
      /\ fresh' = IF handle = fresh THEN fresh + 1 ELSE fresh
      /\ job' = IF complete THEN [job EXCEPT !.stage = "artifact", !.handle = handle] ELSE NoJob
      /\ clean' = (clean /\ complete)
      /\ Failing(~complete)
      /\ UNCHANGED <<source, meta, userCatalog, phase, plan, edits, outside>>

Committed(f) == Put(Without(f, {h \in DOMAIN f : f[h] = job.path}), job.handle, job.path)

\* Fault: the catalog has the assets before the sidecar is written.
CommitsAlways(outcome) == TRUE

Commits(outcome) == outcome = "written"

WriteMetadata(outcome) ==
  /\ job.stage = "artifact"
  /\ meta' = Written(job.path,
                     [path |-> job.path, handle |-> job.handle, content |-> job.content,
                      authored |-> job.authored, inferred |-> job.inferred,
                      resolved |-> Resolve(job.authored, job.inferred)], outcome)
  /\ userCatalog' = IF Commits(outcome) THEN Committed(userCatalog) ELSE userCatalog
  /\ half' = IF outcome = "written" THEN half \ {job.path} ELSE half
  /\ outside' = IF outcome = "written" THEN outside \ {job.path} ELSE outside
  /\ clean' = (clean /\ outcome = "written")
  /\ Failing(outcome # "written")
  /\ job' = NoJob
  /\ UNCHANGED <<source, artifact, fresh, phase, plan, edits>>

-----------------------------------------------------------------------------
(* The user, and crashes. *)

UserEdits ==
  /\ edits < MaxEdits
  /\ edits' = edits + 1
  /\ clean' = FALSE
  /\ UNCHANGED failures

EditSource(p, content) ==
  /\ UserEdits
  /\ p \in DOMAIN source => source[p] # content
  /\ source' = Put(source, p, content)
  /\ UNCHANGED <<meta, artifact, manager, outside, half>>

DeleteSourceFile(p) ==
  /\ UserEdits
  /\ p \in DOMAIN source
  /\ source' = Without(source, {p})
  /\ UNCHANGED <<meta, artifact, manager, outside, half>>

DeleteLibrary ==
  /\ UserEdits
  /\ artifact # [h \in {} |-> None]
  /\ artifact' = [h \in {} |-> None]
  /\ half' = {}
  /\ UNCHANGED <<source, meta, manager, outside>>

\* Sidecars are not touched while a plan is being applied or an import is
\* under way.
DeleteMetadata(p) ==
  /\ UserEdits
  /\ Ready
  /\ p \in DOMAIN meta
  /\ meta' = Without(meta, {p})
  /\ outside' = outside \cup {p}
  /\ UNCHANGED <<source, artifact, manager, half>>

\* An editor sets the authored value, keeping the rest of the sidecar.
Author(p, value) ==
  /\ UserEdits
  /\ Ready
  /\ p \in Owners
  /\ meta[p].authored # value
  /\ meta' = [meta EXCEPT ![p].authored = value]
  /\ UNCHANGED <<source, artifact, manager, outside, half>>

\* A source is renamed together with its sidecar.
Rename(p, q) ==
  /\ UserEdits
  /\ Ready
  /\ p \in DOMAIN source \cap DOMAIN meta
  /\ q \notin DOMAIN source \cup DOMAIN meta
  /\ source' = Put(Without(source, {p}), q, source[p])
  /\ meta' = Put(Without(meta, {p}), q, meta[p])
  /\ outside' = outside \cup {p, q}
  /\ half' = {IF r = p THEN q ELSE r : r \in half \ {q}}
  /\ UNCHANGED <<artifact, manager>>

\* close and open: the catalog is read from the sidecars, and the application
\* still has its plan.
Reopen ==
  /\ Ready
  /\ userCatalog' = Expand(OnDisk)
  /\ outside' = {}
  /\ UNCHANGED <<source, meta, artifact, fresh, phase, plan, job, edits, failures, clean, half>>

\* The process ends, and the next one opens the workspace; a file being
\* written then is cut short by the write's own action.
Crash ==
  /\ userCatalog' = Expand(OnDisk)
  /\ phase' = "idle"
  /\ plan' = NoPlan
  /\ job' = NoJob
  /\ clean' = FALSE
  /\ outside' = {}
  /\ UNCHANGED <<source, meta, artifact, fresh, edits, failures, half>>

-----------------------------------------------------------------------------
Reconciling ==
  \/ PlanReconcile
  \/ RebuildCatalog
  \/ \E p \in Paths, metadataRemoved, artifactRemoved \in BOOLEAN :
       RemoveOrphan(p, metadataRemoved, artifactRemoved)
  \/ OrphansRemoved
  \/ \E p \in Paths, outcome \in Outcomes : ApplyItem(p, outcome)
  \/ ReconcileEnds

Importing ==
  \/ \E p \in Paths : ImportDirectly(p)
  \/ ImporterFails
  \/ \E complete \in BOOLEAN : WriteArtifact(complete)
  \/ \E outcome \in Outcomes : WriteMetadata(outcome)

User ==
  \/ \E p \in Paths, content \in Contents : EditSource(p, content)
  \/ \E p \in Paths : DeleteSourceFile(p) \/ DeleteMetadata(p)
  \/ \E p \in Paths, value \in Authored \cup {None} : Author(p, value)
  \/ DeleteLibrary
  \/ \E p, q \in Paths : Rename(p, q)

ReconcileNext == Reconciling \/ Importing \/ User \/ Reopen \/ Crash

ReconcileSpec == ReconcileInit /\ [][ReconcileNext]_reconcileVars

-----------------------------------------------------------------------------
\* After a failure, a sidecar that has lost its asset, until the next plan is
\* applied.
WasCut(sidecar) ==
  ~Parses(sidecar) \/ (sidecar.handle = NoHandle /\ (~clean \/ phase = "planned"))

(***************************************************************************)
(* The User set of the catalog is a function of the sidecars on disk        *)
(* (asset/README.md): between imports, after failed ones, after plans that  *)
(* were out of date when they were applied, and after crashes, the catalog  *)
(* has of each source what a scan would make of its sidecar.  Excepted are  *)
(* sidecars that a failed write cut short, and, until they are imported or  *)
(* the workspace is opened again, sources in outside: those the user        *)
(* touched, those whose assets were others when the plan was taken, and     *)
(* orphans that could not be removed.  A plan that is out of date puts no   *)
(* other source out of step, and an import mends even those.                *)
(***************************************************************************)
CataloguedFor(p) == {h \in DOMAIN userCatalog : userCatalog[h] = p}

CatalogIsMetadata ==
  phase # "orphans" /\ job = NoJob =>
    \A p \in Paths \ outside :
      \/ CataloguedFor(p) = RecordedFor(p)
      \/ p \in DOMAIN meta /\ WasCut(meta[p])

(***************************************************************************)
(* A source keeps its UUID and what the user wrote into its sidecar: no step *)
(* of the manager removes the sidecar or replaces either, whatever was      *)
(* edited, deleted from Library/, inferred, interrupted or imported between *)
(* a plan and its application.  Excepted are a write that fails halfway, a  *)
(* source that came back after the plan made its sidecar an orphan, and     *)
(* sidecars the catalog was not built from: a source first imported after   *)
(* the plan was taken gets a second UUID when the plan is applied.          *)
(***************************************************************************)
Keeps(paths) ==
  \A p \in paths :
    /\ p \in DOMAIN meta'
    /\ \/ meta'[p].handle = meta[p].handle /\ meta'[p].authored = meta[p].authored
       \/ WasCut(meta[p])'

\* The sources whose sidecars are about to be removed.
Leaving == IF phase = "orphans" THEN DOMAIN plan.orphans ELSE {}

IdentityKept ==
  [][edits' = edits => Keeps((Owners \cap Present) \ (outside \cup Leaving))]_reconcileVars

(***************************************************************************)
(* After a reconcile in which nothing failed and nothing came between the   *)
(* plan and its application, and until the next edit, every                 *)
(* source has an asset, and its artifact was built from the source as it is *)
(* and with the settings the sidecar records, which are those the user      *)
(* wrote for it or else the sources suggest.  Excepted are artifacts that    *)
(* were written again without the sidecar: by an import that failed, or by  *)
(* one of another source while the sidecar was renamed away.                *)
(***************************************************************************)
BuiltFrom(p) ==
  LET built == artifact[meta[p].handle]
  IN  built.content = source[p] /\ built.setting = meta[p].resolved

LibraryCurrent ==
  phase = "idle" /\ job = NoJob /\ clean =>
    \A p \in DOMAIN source :
      /\ p \in Owners
      /\ meta[p].handle \in DOMAIN artifact
      /\ p \in half \/ BuiltFrom(p)
      /\ Inferred(p) # None \/ meta[p].authored # None => meta[p].resolved = Projected(p)

(***************************************************************************)
(* Reconciling again does nothing: what was just reconciled is Current.     *)
(* Excepted are sources nothing is inferred for any more.                   *)
(***************************************************************************)
Converged(p) == PlanAction(p) = "Current"

InferredConverges ==
  phase = "idle" /\ job = NoJob /\ clean =>
    \A p \in DOMAIN source :
      Inferred(p) # None \/ (p \in Owners /\ (meta[p].inferred = None \/ meta[p].authored # None))
        => Converged(p)

-----------------------------------------------------------------------------
(***************************************************************************)
(* Why: the inductive invariant behind the properties.                      *)
(***************************************************************************)

\* Something records that the UUID was generated for the source.
IssuedTo(h, p) ==
  \/ \E q \in DOMAIN meta : meta[q].handle = h /\ meta[q].path = p
  \/ h \in DOMAIN userCatalog /\ userCatalog[h] = p
  \/ job.stage = "artifact" /\ job.handle = h /\ job.path = p
  \/ p \in Paths /\ h \in PlannedFor(p)

\* A UUID stays that of one path, although its sidecar may be renamed away.
IssuedInv ==
  \A h \in UUIDs : \A p, q \in Paths \cup {NoPath} :
    IssuedTo(h, p) => h < fresh /\ p # NoPath /\ (IssuedTo(h, q) => p = q)

\* A source is accepted or an orphan, and the catalog is rebuilt without the
\* orphans.
PlanInv ==
  /\ DOMAIN plan.accepted \cap DOMAIN plan.orphans = {}
  /\ phase = "idle" => plan = NoPlan
  /\ phase = "orphans" => Range(userCatalog) \cap DOMAIN plan.orphans = {}
  /\ phase = "items" => DOMAIN plan.orphans = {}

\* The sidecars the catalog should have.
Kept == Owners \ Leaving

\* An entry of the catalog is that of a sidecar, or the sidecar was cut short.
Accounted(h) ==
  LET p == userCatalog[h]
  IN  /\ p \in DOMAIN meta
      /\ \/ p \in Kept /\ meta[p].handle = h
         \/ meta[p].handle = NoHandle /\ (~clean \/ phase = "planned")

CatalogInv ==
  /\ \A p \in Kept \ outside :
       meta[p].handle \in DOMAIN userCatalog /\ userCatalog[meta[p].handle] = p
  /\ \A h \in DOMAIN userCatalog : userCatalog[h] \in outside \/ Accounted(h)

\* An import has read the sidecar that is there, and will replace its asset.
JobInv ==
  /\ job.stage = "none" => job = NoJob
  /\ job # NoJob =>
       /\ phase # "orphans" /\ job.path \in Paths
       /\ job.authored = ReadMetadata(job.path, meta).authored
       /\ job.inferred = ReadMetadata(job.path, meta).inferred
  /\ job.stage = "artifact" =>
       /\ job.handle # NoHandle
       /\ job.handle \in DOMAIN artifact => artifact[job.handle] = Built(TRUE)
       /\ job.path \in Owners \ outside => meta[job.path].handle = job.handle

\* A sidecar records what its artifact was built from.
ArtifactInv ==
  \A p \in DOMAIN meta \ half :
    HasArtifact(meta[p].handle) =>
      artifact[meta[p].handle] = [content |-> meta[p].content, setting |-> meta[p].resolved]

\* What reconcile makes of a source.
Done(p) ==
  /\ p \in Owners
  /\ HasArtifact(meta[p].handle)
  /\ meta[p].content = source[p]
  /\ p \in half \/ BuiltFrom(p)
  /\ Inferred(p) # None => meta[p].inferred = Inferred(p)
  /\ Inferred(p) # None \/ meta[p].authored # None \/ meta[p].inferred = None
       => meta[p].resolved = Projected(p)

\* While nothing fails and nobody edits, what is planned is still to be done
\* and the rest is done or being imported.
CleanInv ==
  clean =>
    /\ phase # "idle" =>
         \A p \in Present \cap DOMAIN plan.items :
           plan.items[p] = [action |-> PlanAction(p), inferred |-> Inferred(p)]
    /\ phase \in {"planned", "orphans"} =>
         Present \subseteq DOMAIN plan.items /\ DOMAIN plan.orphans \cap Present = {}
    /\ phase \in {"idle", "items"} =>
         \A p \in Present \ DOMAIN plan.items : Done(p) \/ job.path = p
    /\ job # NoJob =>
         /\ phase # "planned"
         /\ job.path \in Present \ DOMAIN plan.items
         /\ job.content = source[job.path]
         /\ Inferred(job.path) # None => job.inferred = Inferred(job.path)
    /\ job.stage = "artifact" => HasArtifact(job.handle)

ReconcileInv ==
  /\ TypeOK /\ IssuedInv /\ PlanInv /\ CatalogInv /\ JobInv /\ ArtifactInv /\ CleanInv
===============================================================================
