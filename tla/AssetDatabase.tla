----------------------------- MODULE AssetDatabase -----------------------------
(***************************************************************************)
(* asset/asset_manager.cpp as the owner of the catalog and of the cache of  *)
(* loaded assets: open, openPackaged and close, the commit of an import,    *)
(* planReconcile as far as it reads the sidecars, the part of               *)
(* applyReconcile that rebuilds the catalog and forgets orphans, load with  *)
(* its dependencies, unload and unloadWithDependents.  The application      *)
(* keeps the plan it took last: it may be applied after any other calls,    *)
(* and more than once.                                                      *)
(*                                                                          *)
(* The manager runs on one thread: an operation that changes the catalog    *)
(* step by step, or a load, is not interrupted by another one.  When what   *)
(* is imported, and crashes and edits during it, are AssetReconcile's; here *)
(* a source has several outputs, which depend on each other's assets.       *)
(*                                                                          *)
(* A loaded asset is an object <<handle, copy>> with its parts, the assets  *)
(* it was decoded with, whether it is fresh: whether its artifact is still  *)
(* the one it was decoded from, and whether it is adrift: whether its       *)
(* catalog entry was taken away, or put back with fewer dependencies, while *)
(* it stayed loaded.  m_loaded holds weak pointers: an object lives while   *)
(* the application, a load under way or another living object holds it, and *)
(* an expired pointer is none.  The application holds the asset it was last *)
(* given, and may let go of it.                                             *)
(***************************************************************************)
EXTENDS AssetCatalog, FiniteSets, SequencesExt

CONSTANTS EngineSource, \* the source path of each Engine asset, which has no file
          Products,     \* Products[s]: what the importer may make of source s: sequences of
                        \* outputs [local, refs], refs being a sequence of <<source, local>>
          Recorded,     \* the sidecars that an earlier session has left
          Copies,       \* bound: the objects of one asset in memory at a time
          MaxChanges    \* bound: imports and deletions

EngineAssets == DOMAIN EngineSource
Files == Sources \ Range(EngineSource)

\* What is in sidecars, in the manifest and in an import.
Metadata(s, record) ==
  [handle |-> record.handle, source |-> s, local |-> record.local,
   dependencies |-> record.dependencies]

\* expandSourceMetadata of all sidecars next to the given sources.
ExpandedOf(records, from) == UNION {{Metadata(s, record) : record \in records[s]} : s \in from}

\* No two sidecars give a handle to different assets: what the code refuses
\* when it opens or reconciles (AssetReconcile).
UserMetadata(known) ==
  \A m \in known :
    /\ m.handle \in Handles \ EngineAssets /\ m.dependencies \in Seq(Handles)
    /\ \A n \in known : n.handle = m.handle => n = m

ASSUME DatabaseAssumption ==
  /\ IsFiniteSet(Handles) /\ IsFiniteSet(Copies)
  /\ EngineAssets \subseteq Handles /\ Range(EngineSource) \subseteq Sources
  /\ DOMAIN Products = Files /\ Recorded = [s \in Files |-> Recorded[s]]
  /\ UserMetadata(ExpandedOf(Recorded, Files))
  /\ \A s \in Files : \A outputs \in Products[s] :
       /\ outputs \in Seq(Range(outputs))
       /\ \A output \in Range(outputs) : output.refs \in Seq(Range(output.refs))
  /\ MaxChanges \in Nat

VARIABLES
  mode,        \* "closed", "workspace" or "packaged"
  catalog,     \* m_catalog
  work,        \* what the operation under way still erases from it, inserts into it and
               \* forgets
  sources,     \* the source files there are
  sidecars,    \* sidecars[s]: the assets recorded next to s
  artifacts,   \* the handles whose artifact is there, perhaps torn
  changes,     \* how many changes there were to the files
  plans,       \* the ReconcilePlan the application has, if any, [accepted, orphans]
  objects,     \* the living assets, [parts, fresh, adrift]; the last two are history
  loaded,      \* m_loaded: handle -> object
  held,        \* the object the application holds, if any
  stack,       \* the loads under way, [handle, next, parts]
  loading      \* m_loading

files == <<sources, sidecars, artifacts, changes>>
cache == <<objects, loaded, held>>
calls == <<stack, loading>>
vars == <<mode, catalog, work, files, plans, cache, calls>>

NoWork == [erase |-> {}, insert |-> {}, origin |-> "User", orphans |-> {}]
\* What is left to do; nothing is NoWork.
Rest(left) ==
  IF left.erase = {} /\ left.insert = {} /\ left.orphans = {} THEN NoWork ELSE left

NoneLoaded == [h \in {} |-> 0]

Init ==
  /\ mode = "closed"
  /\ catalog = EmptyCatalog
  /\ work = NoWork
  /\ sources = Files
  /\ sidecars = Recorded
  /\ artifacts = {r.handle : r \in UNION Range(Recorded)}
  /\ changes = 0
  /\ plans = {}
  /\ objects = NoneLoaded /\ loaded = NoneLoaded /\ held = {}
  /\ stack = <<>> /\ loading = {}

\* The application may call the manager.
Callable == work = NoWork /\ stack = <<>>

Changes == changes < MaxChanges /\ changes' = changes + 1

-----------------------------------------------------------------------------
(* Objects and who holds them. *)

\* What a walk from the roots visits; next[x] is what x leads to.
Walk(next, roots) ==
  LET visited[n \in 0 .. Cardinality(DOMAIN next)] ==
        IF n = 0 THEN roots ELSE UNION {{x} \cup next[x] : x \in visited[n - 1]}
  IN  visited[Cardinality(DOMAIN next)]

\* The objects that those in roots keep alive, through any number of parts.
Reach(objs, roots) == Walk([o \in DOMAIN objs |-> Range(objs[o].parts)], roots)

\* What is left when the application holds h and the loads in calls go on:
\* objects nobody holds are destroyed, and the weak pointers to them expire.
Keep(objs, cached, h, loads) ==
  /\ objects' = Restrict(objs, Reach(objs, h \cup UNION {Range(loads[i].parts) : i \in DOMAIN loads}))
  /\ loaded' = Restrict(cached, {d \in DOMAIN cached : cached[d] \in DOMAIN objects'})
  /\ held' = h

\* The application lets go of what it holds.
Drop ==
  /\ Callable /\ held # {}
  /\ Keep(objects, loaded, {}, stack)
  /\ UNCHANGED <<mode, catalog, work, files, plans, calls>>

\* Fault: only the assets that depend on it directly.
DependentsOnce(h) == {h} \cup DependentsOf(catalog, h)

\* unloadWithDependents visits a handle and all that depend on it.
Dependents(h) == Walk([d \in Handles |-> DependentsOf(catalog, d)], {h})

Unloaded(handles) ==
  LET gone == UNION {Dependents(h) : h \in handles} IN Restrict(loaded, DOMAIN loaded \ gone)

Unload(h) ==
  /\ Callable /\ h \in DOMAIN loaded
  /\ loaded' = Restrict(loaded, DOMAIN loaded \ {h})
  /\ UNCHANGED <<mode, catalog, work, files, plans, objects, held, calls>>

UnloadWithDependents(h) ==
  /\ Callable /\ Dependents(h) \cap DOMAIN loaded # {}
  /\ loaded' = Unloaded({h})
  /\ UNCHANGED <<mode, catalog, work, files, plans, objects, held, calls>>

-----------------------------------------------------------------------------
(* Opening and closing. *)

Expanded(from) == ExpandedOf(sidecars, from)

\* close comes first in open and openPackaged: what the application holds
\* lives on.
Closed ==
  /\ catalog' = EmptyCatalog
  /\ Keep(objects, NoneLoaded, held, <<>>)
  /\ loading' = {} /\ UNCHANGED <<stack, plans>>

Open ==
  /\ Callable
  /\ Closed
  /\ mode' = "workspace"
  /\ work' = Rest([NoWork EXCEPT !.insert = Expanded(Files)])
  /\ UNCHANGED files

\* An entry without its origin.
MetadataOf(h) == Metadata(catalog.entries[h].source, catalog.entries[h])

\* buildManifest.
Manifest == {MetadataOf(h) : h \in EntriesWithOrigin(catalog, "User")}

\* A packaged build is opened, with the manifest made of the catalog.
OpenPackaged ==
  /\ Callable /\ mode = "workspace"
  /\ Closed
  /\ mode' = "packaged"
  /\ work' = Rest([NoWork EXCEPT !.insert = Manifest])
  /\ UNCHANGED files

\* close, or an open or openPackaged that fails.
Close ==
  /\ Callable /\ mode # "closed"
  /\ Closed
  /\ mode' = "closed"
  /\ UNCHANGED <<work, files>>

\* An Engine asset's provider, in either mode, before reconciling or by itself.
RegisterEngineAsset(h) ==
  /\ Callable /\ mode # "closed"
  /\ h \notin DOMAIN catalog.entries
  /\ artifacts' = artifacts \cup {h}
  /\ work' = [NoWork EXCEPT !.origin = "Engine", !.insert =
                {[handle |-> h, source |-> EngineSource[h], local |-> "", dependencies |-> <<>>]}]
  /\ UNCHANGED <<mode, catalog, sources, sidecars, changes, plans, cache, calls>>

-----------------------------------------------------------------------------
(* The catalog is changed entry by entry, in an order that does not matter: *)
(* no two sidecars give different identities to one handle here.            *)

EraseNext ==
  /\ work.erase # {}
  /\ LET h == CHOOSE h \in work.erase : TRUE
     IN  /\ catalog' = Erase(catalog, h)
         /\ work' = Rest([work EXCEPT !.erase = @ \ {h}])
  /\ UNCHANGED <<mode, files, plans, cache, calls>>

InsertNext ==
  /\ work.erase = {} /\ work.insert # {}
  /\ LET metadata == CHOOSE m \in work.insert : TRUE
     IN  /\ catalog' = Insert(catalog, metadata, work.origin)
         /\ work' = Rest([work EXCEPT !.insert = @ \ {metadata}])
  /\ UNCHANGED <<mode, files, plans, cache, calls>>

-----------------------------------------------------------------------------
(***************************************************************************)
(* import.  The importer gives an output the handle its identity has in the *)
(* catalog or a new one, and refers to the assets it finds in the catalog   *)
(* or makes itself.  It may leave out (already_imported) outputs whose      *)
(* files are there and whose record is the same.                            *)
(***************************************************************************)
\* What the plan has of the sidecars.
Planned == UNION {plan.accepted \cup plan.orphans : plan \in plans}

InUse ==
  LET known == Range(catalog.entries) \cup Expanded(Files) \cup Planned
  IN  EngineAssets \cup {o[1] : o \in DOMAIN objects}
        \cup UNION {{metadata.handle} \cup DependsOn(metadata) : metadata \in known}

Known(s, local) == FindBySourceAndLocalId(catalog, s, local)

Locals(outputs) == {outputs[i].local : i \in DOMAIN outputs}

\* The handles of the outputs by their local ids: which UUIDs are generated
\* does not matter, as long as they are new.
Identities(s, outputs) ==
  LET new == Handles \ InUse
  IN  {id \in [Locals(outputs) -> new \cup catalog.by_source[s]] :
         /\ IsInjective(id)
         /\ \A local \in Locals(outputs) :
              id[local] \in IF Known(s, local) # {} THEN Known(s, local) ELSE new}

\* The dependencies of an output, those that do not exist left out.
Resolved(s, id, refs) ==
  LET target(ref) == IF ref[1] = s /\ ref[2] \in DOMAIN id THEN {id[ref[2]]} ELSE Known(ref[1], ref[2])
  IN  FlattenSeq([i \in DOMAIN refs |-> SetToSeq(target(refs[i]))])

\* isValidSourceMetadata: one asset for a local id.
ValidSidecar(outputs) == Len(outputs) = Cardinality(Locals(outputs))

Record(s, id, output) ==
  [handle |-> id[output.local], local |-> output.local,
   dependencies |-> Resolved(s, id, output.refs)]

Records(s, id, outputs) == {Record(s, id, outputs[i]) : i \in DOMAIN outputs}

Unchanged(s, record) == record \in sidecars[s] /\ record.handle \in artifacts

\* The objects decoded from artifacts that are written now.
Aged(written) ==
  [o \in DOMAIN objects |->
     IF o[1] \in written THEN [objects[o] EXCEPT !.fresh = FALSE] ELSE objects[o]]

\* Of these handles, those whose entry the new metadata takes away, or leaves
\* with fewer dependencies.
Severed(handles, metadata) ==
  {h \in handles \cap DOMAIN catalog.entries :
     ~ \E m \in metadata : m.handle = h /\ DependsOn(catalog.entries[h]) \subseteq DependsOn(m)}

Adrift(objs, handles) ==
  [o \in DOMAIN objs |->
     IF o[1] \in handles THEN [objs[o] EXCEPT !.adrift = TRUE] ELSE objs[o]]

\* What commitOutputs unloads before it writes: known outputs.
Replaced(s, records, kept) == {r.handle : r \in records \ kept} \cap DOMAIN catalog.entries

\* commitOutputs: a write that fails leaves the catalog as it was, but what is
\* replaced has been unloaded, and of the first n outputs the artifacts are
\* new, the last of them perhaps torn.
ImportFails(s, outputs, id, kept, n) ==
  LET records == Records(s, id, outputs)
      written == {r.handle : r \in {Record(s, id, outputs[i]) : i \in 1 .. n} \ kept}
  IN  /\ n <= IF ValidSidecar(outputs) THEN Len(outputs) ELSE 0
      /\ artifacts' = artifacts \cup written
      /\ Keep(Aged(written), Unloaded(Replaced(s, records, kept)), held, <<>>)
      /\ UNCHANGED <<mode, catalog, work, sources, sidecars, plans, calls>>

\* All is written: then the outputs there are no more are unloaded and erased,
\* and the others inserted.
ImportSucceeds(s, outputs, id, kept) ==
  LET records == Records(s, id, outputs)
      writes  == {r.handle : r \in records \ kept}
      ids     == {r.handle : r \in records}
      entries == {Metadata(s, r) : r \in records}
      dropped == (catalog.by_source[s] \cap DOMAIN catalog.entries) \ ids
  IN  /\ ValidSidecar(outputs)
      /\ artifacts' = artifacts \cup writes
      /\ sidecars' = [sidecars EXCEPT ![s] = records]
      /\ Keep(Adrift(Aged(writes), Severed({r.handle : r \in kept}, entries)),
              Unloaded(Replaced(s, records, kept) \cup dropped), held, <<>>)
      /\ work' = [erase |-> dropped, insert |-> entries, origin |-> "User", orphans |-> {}]
      /\ UNCHANGED <<mode, catalog, sources, plans, calls>>

Import(s) ==
  /\ Changes
  /\ Callable /\ mode = "workspace" /\ s \in sources
  /\ \E outputs \in Products[s] :
       /\ Identities(s, outputs) # {}
       /\ LET id == CHOOSE i \in Identities(s, outputs) : TRUE
              records == Records(s, id, outputs)
          IN  \E kept \in SUBSET {r \in records : Unchanged(s, r)} :
                \/ ImportSucceeds(s, outputs, id, kept)
                \/ \E n \in 0 .. Len(outputs) : ImportFails(s, outputs, id, kept, n)

-----------------------------------------------------------------------------
(* The catalog in reconcile: planReconcile and applyReconcile. *)

TakePlan ==
  /\ Callable /\ mode = "workspace"
  /\ plans' = {[accepted |-> Expanded(sources), orphans |-> Expanded(Files \ sources)]}
  /\ UNCHANGED <<mode, catalog, work, files, cache, calls>>

\* rebuildUserCatalog, with the sidecars the plan accepted, whatever they are
\* by now; nothing is unloaded.
ApplyReconcile(plan) ==
  /\ Callable /\ mode = "workspace"
  /\ LET users == EntriesWithOrigin(catalog, "User")
     IN  /\ work' = Rest([erase |-> users, insert |-> plan.accepted,
                          origin |-> "User", orphans |-> plan.orphans])
         /\ objects' = Adrift(objects, Severed(users, plan.accepted))
  /\ UNCHANGED <<mode, catalog, files, plans, loaded, held, calls>>

ForgetOrphan ==
  /\ work.erase = {} /\ work.insert = {} /\ work.orphans # {}
  /\ LET orphan == CHOOSE o \in work.orphans : TRUE
     IN  /\ loaded' = Unloaded({orphan.handle})
         /\ catalog' = Erase(catalog, orphan.handle)
         /\ sidecars' = [sidecars EXCEPT ![orphan.source] = {}]
         /\ artifacts' = artifacts \ {orphan.handle}
         /\ work' = Rest([work EXCEPT !.orphans = @ \ {orphan}])
  /\ UNCHANGED <<mode, sources, changes, plans, objects, held, calls>>

\* The user.
DeleteSource(s) ==
  /\ Changes
  /\ Callable
  /\ s \in sources
  /\ sources' = sources \ {s}
  /\ UNCHANGED <<mode, catalog, work, sidecars, artifacts, plans, cache, calls>>

DeleteSidecar(s) ==
  /\ Changes
  /\ Callable
  /\ sidecars[s] # {}
  /\ sidecars' = [sidecars EXCEPT ![s] = {}]
  /\ UNCHANGED <<mode, catalog, work, sources, artifacts, plans, cache, calls>>

-----------------------------------------------------------------------------
(* load. *)

Top == stack[Len(stack)]
Below == SubSeq(stack, 1, Len(stack) - 1)

Frame(h) == [handle |-> h, dependencies |-> catalog.entries[h].dependencies, parts |-> <<>>]

Loadable(h) == h \in DOMAIN catalog.entries /\ h \notin loading

Complete == stack # <<>> /\ Len(Top.parts) = Len(Top.dependencies)

\* The dependency the load on top comes to next.
Wanted == IF stack = <<>> \/ Complete THEN {} ELSE {Top.dependencies[Len(Top.parts) + 1]}

\* The asset o is returned to the caller: the application, or the load below.
Return(objs, cached, o, loads) ==
  IF loads = <<>>
  THEN Keep(objs, cached, {o}, loads) /\ stack' = loads
  ELSE LET to == [loads EXCEPT ![Len(loads)].parts = Append(@, o)]
       IN  Keep(objs, cached, held, to) /\ stack' = to

LoadCached(h) ==
  /\ work = NoWork /\ mode # "closed"
  /\ stack = <<>> \/ h \in Wanted
  /\ h \in DOMAIN loaded
  /\ Return(objects, loaded, loaded[h], stack)
  /\ UNCHANGED <<mode, catalog, work, files, plans, loading>>

BeginLoad(h) ==
  /\ work = NoWork /\ mode # "closed"
  /\ stack = <<>> \/ h \in Wanted
  /\ h \notin DOMAIN loaded /\ Loadable(h)
  /\ stack' = Append(stack, Frame(h))
  /\ loading' = loading \cup {h}
  /\ UNCHANGED <<mode, catalog, work, files, plans, cache>>

\* The next dependency is missing or being loaded: null goes to the caller,
\* whose load fails as well, and so on to the application.
DependencyFails(h) ==
  /\ h \in Wanted
  /\ h \notin DOMAIN loaded /\ ~Loadable(h)
  /\ Keep(objects, loaded, held, <<>>)
  /\ stack' = <<>> /\ loading' = loading \ {stack[i].handle : i \in DOMAIN stack}
  /\ UNCHANGED <<mode, catalog, work, files, plans>>

\* Where the asset is in memory does not matter.
Decode ==
  /\ Complete
  /\ Top.handle \in artifacts
  /\ ({Top.handle} \X Copies) \ DOMAIN objects # {}
  /\ LET o     == CHOOSE free \in ({Top.handle} \X Copies) \ DOMAIN objects : TRUE
         asset == [parts |-> Top.parts, fresh |-> TRUE, adrift |-> FALSE]
     IN  Return([p \in DOMAIN objects \cup {o} |-> IF p = o THEN asset ELSE objects[p]],
                [d \in DOMAIN loaded \cup {Top.handle} |-> IF d = Top.handle THEN o ELSE loaded[d]],
                o, Below)
  /\ loading' = loading \ {Top.handle}
  /\ UNCHANGED <<mode, catalog, work, files, plans>>

\* Fault: an exception leaves the handle in m_loading.
DecodeThrows ==
  /\ Complete
  /\ Keep(objects, loaded, held, <<>>)
  /\ stack' = <<>> /\ loading' = loading \ {stack[i].handle : i \in DOMAIN Below}
  /\ UNCHANGED <<mode, catalog, work, files, plans>>

\* No loader, no artifact or a torn one, or decode fails, throws or returns
\* another asset.
DecodeFails ==
  /\ Complete
  /\ Keep(objects, loaded, held, <<>>)
  /\ stack' = <<>> /\ loading' = loading \ {stack[i].handle : i \in DOMAIN stack}
  /\ UNCHANGED <<mode, catalog, work, files, plans>>

Loading ==
  \/ \E h \in Wanted : LoadCached(h) \/ BeginLoad(h) \/ DependencyFails(h)
  \/ Decode
  \/ DecodeFails

-----------------------------------------------------------------------------
Next ==
  \/ Open \/ OpenPackaged \/ Close
  \/ TakePlan
  \/ \E plan \in plans : ApplyReconcile(plan)
  \/ \E h \in EngineAssets : RegisterEngineAsset(h)
  \/ EraseNext \/ InsertNext \/ ForgetOrphan
  \/ \E s \in Files : Import(s) \/ DeleteSource(s) \/ DeleteSidecar(s)
  \/ Drop
  \/ \E h \in Handles : Unload(h) \/ UnloadWithDependents(h)
  \/ \E h \in Handles : stack = <<>> /\ (LoadCached(h) \/ BeginLoad(h))
  \/ Loading

Spec == Init /\ [][Next]_vars /\ WF_vars(Loading)
-----------------------------------------------------------------------------
\* The objects, those adrift without their parts.
Moored ==
  [o \in DOMAIN objects |->
     IF objects[o].adrift THEN [objects[o] EXCEPT !.parts = <<>>] ELSE objects[o]]

(***************************************************************************)
(* Whatever is imported again, forgotten, loaded and held, and however old  *)
(* the plan that is applied: an asset that load would return from the cache *)
(* was decoded from the artifact as it is, and so were, through any number  *)
(* of dependencies, the assets it was decoded with.  Excepted is what went  *)
(* into an asset that is adrift: applyReconcile has rebuilt the catalog     *)
(* without its entry or with an older one, or an import has recorded it     *)
(* anew with fewer dependencies, without unloading it, and                  *)
(* unloadWithDependents does not find it from what it was made of.          *)
(***************************************************************************)
CacheCurrent ==
  work = NoWork =>
    \A h \in DOMAIN loaded : \A o \in Reach(Moored, {loaded[h]}) : objects[o].fresh

\* The indices of the catalog, after every single change of it.
IndicesAgree == IndicesAgreeIn(catalog)

(***************************************************************************)
(* Every load returns, also when the catalog's dependencies have a cycle,   *)
(* which nothing prevents; and however it ends, no handle stays in          *)
(* m_loading, where every later load of it would find a cycle.              *)
(***************************************************************************)
LoadsReturn == stack # <<>> ~> stack = <<>> /\ loading = {}
-----------------------------------------------------------------------------
(***************************************************************************)
(* Why CacheCurrent holds.  Until an object goes adrift, what the catalog    *)
(* will hold once the work is done has an entry for it, which depends on    *)
(* all its parts: a replaced output is unloaded with its dependents before  *)
(* it is inserted, and so unloadWithDependents, which follows the index,    *)
(* reaches every cached object made of a replaced one.                      *)
(***************************************************************************)
\* The metadata in the catalog when the work is done.
Future ==
  work.insert \cup
    {MetadataOf(h) : h \in DOMAIN catalog.entries \ (work.erase \cup {m.handle : m \in work.insert})}

WellFormed(m) ==
  /\ m = Metadata(m.source, m)
  /\ m.handle \in Handles /\ m.source \in Sources /\ m.dependencies \in Seq(Handles)
  /\ m.handle \in EngineAssets <=> m.source \notin Files

EntriesInv ==
  /\ work = [erase |-> work.erase, insert |-> work.insert, origin |-> work.origin,
             orphans |-> work.orphans]
  /\ \A h \in DOMAIN catalog.entries :
       WellFormed(MetadataOf(h)) /\ (catalog.entries[h].origin = "User" <=> h \notin EngineAssets)
  /\ \A m \in work.insert :
       /\ WellFormed(m) /\ (work.origin = "User" <=> m.handle \notin EngineAssets)
       /\ \A n \in work.insert : n.handle = m.handle => n = m
       /\ m.handle \in DOMAIN catalog.entries \ work.erase =>
            SameIdentity(catalog.entries[m.handle], m)

\* All that is known of user assets, now or when the plan was taken.
UserKnown ==
  Expanded(Files) \cup Planned \cup work.orphans
    \cup {m \in Future : m.handle \notin EngineAssets}

\* A handle is one asset everywhere, though with other dependencies.
SidecarsInv ==
  /\ sources \subseteq Files
  /\ sidecars = [s \in Files |-> sidecars[s]]
  /\ UserMetadata(Expanded(Files))
  /\ \A plan \in plans :
       UserMetadata(plan.accepted \cup plan.orphans) /\ plan.accepted \cap plan.orphans = {}
  /\ \A m \in Planned : WellFormed(m)
  /\ \A orphan \in work.orphans :
       orphan.source \in Files /\ \A m \in Future : m.handle # orphan.handle
  /\ \A m, n \in UserKnown : m.handle = n.handle => SameIdentity(m, n)

\* A load under way has the first of its dependencies; the one above it on
\* the stack loads the next.
CallsInv(entries, objs, loads) ==
  /\ loads \in Seq([handle : Handles, dependencies : Seq(Handles), parts : Seq(Handles \X Copies)])
  /\ \A i \in DOMAIN loads :
       /\ loads[i].handle \in DOMAIN entries
       /\ loads[i].dependencies = entries[loads[i].handle].dependencies
       /\ Len(loads[i].parts) <= Len(loads[i].dependencies)
       /\ \A j \in DOMAIN loads[i].parts :
            loads[i].parts[j] \in DOMAIN objs /\ loads[i].parts[j][1] = loads[i].dependencies[j]
  /\ \A i \in 1 .. Len(loads) - 1 :
       /\ Len(loads[i].parts) < Len(loads[i].dependencies)
       /\ loads[i + 1].handle = loads[i].dependencies[Len(loads[i].parts) + 1]

HeapInv(objs, cached, h) ==
  /\ objs = [o \in DOMAIN objs |-> objs[o]] /\ DOMAIN objs \subseteq Handles \X Copies
  /\ \A o \in DOMAIN objs : objs[o].parts \in Seq(DOMAIN objs)
  /\ cached = [d \in DOMAIN cached |-> cached[d]] /\ DOMAIN cached \subseteq Handles
  /\ \A d \in DOMAIN cached : cached[d] \in DOMAIN objs /\ cached[d][1] = d
  /\ h \subseteq DOMAIN objs

\* The metadata of o has the assets it was made of among the dependencies,
\* and they are in T.
MadeOf(o, T, future, objs) ==
  \E m \in future :
    m.handle = o[1] /\ \A p \in Range(objs[o].parts) : p \in T /\ p[1] \in DependsOn(m)

\* The objects in T are what load hands out.  They are fresh, and unless they
\* are adrift, what they were made of is in T too, and is what they depend on.
Trusted(T, future, objs, cached, loads) ==
  /\ T \subseteq DOMAIN objs /\ Range(cached) \subseteq T
  /\ \A i \in DOMAIN loads : Range(loads[i].parts) \subseteq T
  /\ \A o \in T : objs[o].fresh /\ (objs[o].adrift \/ MadeOf(o, T, future, objs))

DatabaseInv ==
  /\ IndicesAgree /\ EntriesInv /\ SidecarsInv
  /\ stack # <<>> => work = NoWork /\ mode # "closed"
  /\ CallsInv(catalog.entries, objects, stack) /\ HeapInv(objects, loaded, held)
  /\ \E T \in SUBSET DOMAIN objects : Trusted(T, Future, objects, loaded, stack)

================================================================================
