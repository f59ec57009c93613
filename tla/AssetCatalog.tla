------------------------------ MODULE AssetCatalog ------------------------------
(***************************************************************************)
(* asset/asset_catalog.cpp: the index in memory of the imported assets, as  *)
(* operators on a catalog [entries, by_source, dependents].                 *)
(*                                                                          *)
(* Metadata is [handle, source, local, dependencies], dependencies being a  *)
(* sequence of handles; an entry is metadata with its origin.  The lists in *)
(* the two indices are sets: their order only decides what is visited       *)
(* first.  Types, artifact paths, properties and the revision are left out. *)
(***************************************************************************)
EXTENDS Naturals, Sequences, Functions

CONSTANTS Handles,   \* the UUIDs
          Sources    \* the source paths, those of Engine assets included

EmptyCatalog ==
  [entries    |-> [h \in {} |-> 0],
   by_source  |-> [s \in Sources |-> {}],
   dependents |-> [h \in Handles |-> {}]]

DependsOn(metadata) == Range(metadata.dependencies)

Entry(metadata, origin) ==
  [handle |-> metadata.handle, source |-> metadata.source, local |-> metadata.local,
   dependencies |-> metadata.dependencies, origin |-> origin]

AddIndices(catalog, metadata) ==
  [entries    |-> catalog.entries,
   by_source  |-> [catalog.by_source EXCEPT ![metadata.source] = @ \cup {metadata.handle}],
   dependents |-> [h \in Handles |-> IF h \in DependsOn(metadata)
                                     THEN catalog.dependents[h] \cup {metadata.handle}
                                     ELSE catalog.dependents[h]]]

RemoveIndices(catalog, metadata) ==
  [entries    |-> catalog.entries,
   by_source  |-> [catalog.by_source EXCEPT ![metadata.source] = @ \ {metadata.handle}],
   dependents |-> [h \in Handles |-> IF h \in DependsOn(metadata)
                                     THEN catalog.dependents[h] \ {metadata.handle}
                                     ELSE catalog.dependents[h]]]

SameIdentity(entry, metadata) == entry.source = metadata.source /\ entry.local = metadata.local

PutEntry(catalog, entry) ==
  [catalog EXCEPT !.entries = [h \in DOMAIN @ \cup {entry.handle} |->
                                 IF h = entry.handle THEN entry ELSE @[h]]]

\* Fault: an update leaves the old dependencies in the index.
InsertOver(catalog, metadata, origin) ==
  IF /\ metadata.handle \in DOMAIN catalog.entries
     /\ ~SameIdentity(catalog.entries[metadata.handle], metadata)
  THEN catalog
  ELSE PutEntry(AddIndices(catalog, metadata), Entry(metadata, origin))

\* insert: a handle that is taken by another identity is refused.
Insert(catalog, metadata, origin) ==
  IF metadata.handle \notin DOMAIN catalog.entries
  THEN PutEntry(AddIndices(catalog, metadata), Entry(metadata, origin))
  ELSE IF SameIdentity(catalog.entries[metadata.handle], metadata)
  THEN PutEntry(AddIndices(RemoveIndices(catalog, catalog.entries[metadata.handle]), metadata),
                Entry(metadata, origin))
  ELSE catalog

Erase(catalog, handle) ==
  IF handle \notin DOMAIN catalog.entries THEN catalog
  ELSE [RemoveIndices(catalog, catalog.entries[handle]) EXCEPT
          !.entries = Restrict(@, DOMAIN @ \ {handle})]

EntriesWithOrigin(catalog, origin) ==
  {h \in DOMAIN catalog.entries : catalog.entries[h].origin = origin}

\* findBySourceAndLocalId: the handle it finds, at most one.
FindBySourceAndLocalId(catalog, source, local) ==
  {h \in catalog.by_source[source] \cap DOMAIN catalog.entries : catalog.entries[h].local = local}

DependentsOf(catalog, handle) == catalog.dependents[handle]

(***************************************************************************)
(* The indices say of the entries what they are for: which assets a source  *)
(* has, and which assets depend on a handle, also one that has no entry.    *)
(***************************************************************************)
IndicesAgreeIn(catalog) ==
  /\ \A s \in Sources :
       catalog.by_source[s] = {h \in DOMAIN catalog.entries : catalog.entries[h].source = s}
  /\ \A d \in Handles :
       catalog.dependents[d] =
         {h \in DOMAIN catalog.entries : d \in DependsOn(catalog.entries[h])}
================================================================================
