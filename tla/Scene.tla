--------------------------------- MODULE Scene ---------------------------------
(***************************************************************************)
(* scene/: the entities of a Scene (SceneEntityStorage), the parent links   *)
(* and cached world transforms (SceneHierarchy), duplicateEntity, and       *)
(* loading (SceneSerializer::deserialize).  All of it runs on the           *)
(* application's thread, one call at a time.                                *)
(*                                                                          *)
(* An entity is its UUID: the registry and the lookup table change together *)
(* in every operation, and entities refer to their parents by UUID.  A      *)
(* matrix is a sequence over the local transforms it is the product of, <<>> *)
(* being the identity: enough to tell a current world transform from a      *)
(* stale one.  Tags and other components are left out.  A rejected call     *)
(* changes nothing and is no step.                                          *)
(***************************************************************************)
EXTENDS Naturals, Sequences, FiniteSets, SequencesExt

CONSTANTS Ids,        \* bound: the UUIDs in use
          NoId,       \* the invalid UUID
          Locals,     \* the local transforms entities may be given
          Documents,  \* the scene files that may be loaded
          MaxWorld    \* bound: the factors of a world transform

PendingEntity == [id : Ids, parent_id : Ids \cup {NoId}, local : Locals]

ASSUME SceneAssumption ==
  /\ IsFiniteSet(Ids) /\ NoId \notin Ids
  /\ MaxWorld \in Nat
  /\ <<>> \in Locals /\ \A local \in Locals : local \in Seq(Range(local))
  /\ \A doc \in Documents : doc \in Seq(PendingEntity)

VARIABLES
  registry,   \* the live entities with their components
  last,       \* history: the kind of the last operation
  stranded    \* history: entities whose parent's cache was refreshed without theirs

sceneVars == <<registry, last, stranded>>

\* WorldTransformComponent
Cache == [dirty : BOOLEAN, local : Locals, parent_id : Ids \cup {NoId},
          world : Seq(UNION {Range(local) : local \in Locals})]

Entity == [parent_id : Ids \cup {NoId}, local : Locals, cache : Cache]

SceneTypeOK ==
  /\ DOMAIN registry \subseteq Ids
  /\ registry \in [DOMAIN registry -> Entity]
  /\ last \in {"edit", "copy", "update", "load"}
  /\ stranded \subseteq DOMAIN registry

NoEntities == [e \in {} |-> <<>>]

SceneInit ==
  /\ registry = NoEntities
  /\ last = "edit"
  /\ stranded = {}

-----------------------------------------------------------------------------
(* The hierarchy, in any registry r. *)

\* The parent a link resolves to.
ParentOf(r, e) == IF r[e].parent_id \in DOMAIN r THEN r[e].parent_id ELSE NoId

ParentClosed(r, S) == \A a \in S : ParentOf(r, a) \in S \cup {NoId}

AncestorsOrSelf(r, e) ==
  LET closed == {S \in SUBSET DOMAIN r : e \in S /\ ParentClosed(r, S)}
  IN  {a \in DOMAIN r : \A S \in closed : a \in S}

\* collectSubtree
Subtree(r, e) == {d \in DOMAIN r : e \in AncestorsOrSelf(r, d)}

OnCycle(r, e) == /\ ParentOf(r, e) # NoId
                 /\ e \in AncestorsOrSelf(r, ParentOf(r, e))

(***************************************************************************)
(* The memoised visit of updateWorldTransform(entity, states) over a set of *)
(* entities that holds the ancestors of its members: an entity's cache is   *)
(* refreshed when it is dirty, its local transform or applied parent is not *)
(* the cached one, or the visit refreshed its parent.                       *)
(***************************************************************************)
\* Fault: what happened to the parent is forgotten.
NeedsRefreshAlone(entity, applied, parentChanged) ==
  \/ entity.cache.dirty
  \/ entity.cache.local # entity.local
  \/ entity.cache.parent_id # applied

NeedsRefresh(entity, applied, parentChanged) ==
  \/ entity.cache.dirty
  \/ entity.cache.local # entity.local
  \/ entity.cache.parent_id # applied
  \/ parentChanged

Refreshed(entity, parent, above) ==
  [dirty |-> FALSE, local |-> entity.local, parent_id |-> parent,
   world |-> above.cache.world \o entity.local]

\* What the visit of e makes of it, given that of its parent.
Visiting(r, e, visit) ==
  LET parent == ParentOf(r, e)
      above  == IF parent = NoId THEN [changed |-> FALSE, cache |-> [world |-> <<>>]]
                                 ELSE visit[parent]
  IN  IF NeedsRefresh(r[e], parent, above.changed)
      THEN [changed |-> TRUE, cache |-> Refreshed(r[e], parent, above)]
      ELSE [changed |-> FALSE, cache |-> r[e].cache]

Visits(r, visited) == LET visit[e \in visited] == Visiting(r, e, visit) IN visit

Visit(r, visited) ==
  LET visit == Visits(r, visited)
  IN  [e \in DOMAIN r |-> IF e \in visited THEN [r[e] EXCEPT !.cache = visit[e].cache]
                                           ELSE r[e]]

\* The entities whose caches no visit will bring up to date after this one.
StrandedBy(r, visited) ==
  LET visit     == Visits(r, visited)
      refreshed == {e \in visited : visit[e].changed}
  IN  (stranded \ refreshed) \cup {e \in DOMAIN r \ visited : ParentOf(r, e) \in refreshed}

\* What updateWorldTransform(entity) visits: on a cycle it throws and visits nothing.
Visited(r, e) ==
  {a \in AncestorsOrSelf(r, e) : \A b \in AncestorsOrSelf(r, e) : ~OnCycle(r, b)}

UpdateWorldTransform(r, e) == Visit(r, Visited(r, e))

\* A world transform of more factors than there are entities is a stale one
\* that other stale ones were built on.
WorldsBounded(r) == \A e \in DOMAIN r : Len(r[e].cache.world) <= MaxWorld

Linked(r, e, parent_id) == [r EXCEPT ![e].parent_id = parent_id, ![e].cache.dirty = TRUE]

Relink(r, e, parent_id) == UpdateWorldTransform(Linked(r, e, parent_id), e)

\* A parent link of the registry changes.
ChangeParent(e, parent_id) ==
  LET linked == Linked(registry, e, parent_id)
  IN  /\ registry' = Relink(registry, e, parent_id)
      /\ WorldsBounded(registry')
      /\ last' = "edit"
      /\ stranded' = StrandedBy(linked, Visited(linked, e))

-----------------------------------------------------------------------------
(* Operations on the entities. *)

NewEntity(local, parent_id) ==
  [parent_id |-> parent_id, local |-> local,
   cache |-> [dirty |-> TRUE, local |-> <<>>, parent_id |-> NoId, world |-> <<>>]]

\* createEntity with an unused UUID, or createEntityWithUUID.
CreateEntity(id) ==
  /\ id # NoId
  /\ id \notin DOMAIN registry
  /\ registry' = [e \in DOMAIN registry \cup {id} |->
                    IF e = id THEN NewEntity(<<>>, NoId) ELSE registry[e]]
  /\ last' = "edit"
  /\ UNCHANGED stranded

DestroyEntity(e) ==
  /\ e \in DOMAIN registry
  /\ registry' = Restrict(registry, DOMAIN registry \ Subtree(registry, e))
  /\ last' = "edit"
  /\ stranded' = stranded \ Subtree(registry, e)

\* Fault: only a direct cycle is refused.
IsParentOf(r, child, parent) == child \in {parent, ParentOf(r, parent)}

\* The check of setParent: the parent itself, then up from it.
WouldCycle(r, child, parent) == child \in AncestorsOrSelf(r, parent)

SetParent(child, parent) ==
  /\ child \in DOMAIN registry /\ parent \in DOMAIN registry
  /\ ~WouldCycle(registry, child, parent)
  /\ ChangeParent(child, parent)

DetachFromParent(e) ==
  /\ e \in DOMAIN registry
  /\ ChangeParent(e, NoId)

\* The application writes the TransformComponent.
SetLocal(e, local) ==
  /\ e \in DOMAIN registry /\ registry[e].local # local
  /\ registry' = [registry EXCEPT ![e].local = local]
  /\ last' = "edit"
  /\ UNCHANGED stranded

\* updateWorldTransforms, as called directly or by runSystems.
UpdateWorldTransforms ==
  /\ registry' = Visit(registry, DOMAIN registry)
  /\ WorldsBounded(registry')
  /\ last' = "update"
  /\ stranded' = StrandedBy(registry, DOMAIN registry)

ClearEntities ==
  /\ registry' = NoEntities
  /\ last' = "edit"
  /\ stranded' = {}

-----------------------------------------------------------------------------
(***************************************************************************)
(* duplicateEntity.  copyOf gives the copied entities their new UUIDs.      *)
(***************************************************************************)
Copying(sources) ==
  {copyOf \in [sources -> Ids \ DOMAIN registry] :
     \A s, t \in sources : copyOf[s] = copyOf[t] => s = t}

\* Fault: the copies keep the parents of their sources.
SourceParent(redirected, id) == id

\* Links inside the subtree are redirected to the copies.
RemappedParent(redirected, id) == IF id \in DOMAIN redirected THEN redirected[id] ELSE id

Copied(source, redirected) ==
  [source EXCEPT !.parent_id = RemappedParent(redirected, @), !.cache.dirty = TRUE]

\* The registry with the copies, links to what is in `redirected' changed.
WithCopies(copyOf, redirected) ==
  [e \in DOMAIN registry \cup Range(copyOf) |->
     IF e \in DOMAIN registry THEN registry[e]
     ELSE Copied(registry[CHOOSE s \in DOMAIN copyOf : copyOf[s] = e], redirected)]

DuplicateEntity(root) ==
  /\ root \in DOMAIN registry
  /\ \E copyOf \in Copying(Subtree(registry, root)) :
       registry' = WithCopies(copyOf, copyOf)
  /\ last' = "copy"
  /\ UNCHANGED stranded

\* The entities copied before the preorder walk reached a given one.
IsPreorderPrefix(r, root, prefix) ==
  LET unfinished == {e \in prefix : ~(Subtree(r, e) \subseteq prefix)}
  IN  /\ \A e \in prefix : AncestorsOrSelf(r, e) \cap Subtree(r, root) \subseteq prefix
      /\ \A d, e \in unfinished : d \in AncestorsOrSelf(r, e) \/ e \in AncestorsOrSelf(r, d)

\* Copying a component throws: that copy is destroyed, the earlier ones stay
\* and the loop that redirects their parents is not reached.
DuplicateFails(root) ==
  /\ root \in DOMAIN registry
  /\ \E prefix \in SUBSET Subtree(registry, root) \ {{}, Subtree(registry, root)} :
       /\ IsPreorderPrefix(registry, root, prefix)
       /\ \E copyOf \in Copying(prefix) : registry' = WithCopies(copyOf, [id \in {} |-> NoId])
  /\ last' = "edit"
  /\ UNCHANGED stranded

-----------------------------------------------------------------------------
(***************************************************************************)
(* deserialize: a document that passes the checks is built in a staging     *)
(* scene, which then replaces the entities.  The components, the parent     *)
(* links among them, are written before setParent is called for each entity *)
(* with a parent, in document order.                                        *)
(***************************************************************************)
IdsOf(doc) == {doc[i].id : i \in DOMAIN doc}

Written(doc) ==
  [e \in IdsOf(doc) |->
     LET pending == doc[CHOOSE i \in DOMAIN doc : doc[i].id = e]
     IN  NewEntity(pending.local, pending.parent_id)]

AcceptsDocument(doc) ==
  /\ \A i, j \in DOMAIN doc : doc[i].id = doc[j].id => i = j
  /\ \A i \in DOMAIN doc : doc[i].parent_id \in IdsOf(doc) \cup {NoId}
  /\ \A e \in IdsOf(doc) : ~OnCycle(Written(doc), e)

LinkParents(doc, staging) ==
  LET linked[n \in 0 .. Len(doc)] ==
        IF n = 0 THEN staging
        ELSE IF doc[n].parent_id = NoId THEN linked[n - 1]
        ELSE Relink(linked[n - 1], doc[n].id, doc[n].parent_id)
  IN  linked[Len(doc)]

\* Fault: the links are made by setParent alone.
StagedBySetParent(doc) ==
  LinkParents(doc, [e \in IdsOf(doc) |-> [Written(doc)[e] EXCEPT !.parent_id = NoId]])

Staged(doc) == LinkParents(doc, Written(doc))

Load(doc) ==
  /\ AcceptsDocument(doc)
  /\ registry' = Visit(Staged(doc), IdsOf(doc))
  /\ last' = "load"
  /\ stranded' = {}

-----------------------------------------------------------------------------
SceneNext ==
  \/ \E id \in Ids \cup {NoId} : CreateEntity(id)
  \/ \E e \in Ids : \/ DestroyEntity(e)
                    \/ DetachFromParent(e)
                    \/ DuplicateEntity(e)
                    \/ DuplicateFails(e)
                    \/ \E parent \in Ids : SetParent(e, parent)
                    \/ \E local \in Locals : SetLocal(e, local)
  \/ UpdateWorldTransforms
  \/ ClearEntities
  \/ \E doc \in Documents : Load(doc)

SceneSpec == SceneInit /\ [][SceneNext]_sceneVars

-----------------------------------------------------------------------------
(***************************************************************************)
(* Every parent link leads to a live entity, and no entity is its own       *)
(* ancestor, whatever was destroyed, relinked, copied (even in part) or     *)
(* loaded: updateWorldTransform and collectSubtree recurse along the links. *)
(***************************************************************************)
IsForest(r) ==
  \A e \in DOMAIN r : r[e].parent_id \in DOMAIN r \cup {NoId} /\ ~OnCycle(r, e)

HierarchyIsForest == IsForest(registry)

(***************************************************************************)
(* After duplicateEntity the new entities are a copy of the subtree, linked *)
(* among themselves as their sources are, the new root is a sibling of the  *)
(* old one, and nothing else changed.                                       *)
(***************************************************************************)
IsCopyOf(copyOf, root) ==
  LET sources == Subtree(registry, root)
  IN  /\ \A s \in sources \ {root} :
           registry'[copyOf[s]].parent_id = copyOf[registry[s].parent_id]
      /\ registry'[copyOf[root]].parent_id = registry[root].parent_id
      /\ \A s \in sources : registry'[copyOf[s]].local = registry[s].local
      /\ \A s \in sources : Subtree(registry', copyOf[s]) = {copyOf[t] : t \in Subtree(registry, s)}

DuplicateIsSibling ==
  [][last' = "copy" =>
       /\ Restrict(registry', DOMAIN registry) = registry
       /\ \E root \in DOMAIN registry : \E copyOf \in Copying(Subtree(registry, root)) :
            Range(copyOf) = DOMAIN registry' \ DOMAIN registry /\ IsCopyOf(copyOf, root)]_sceneVars

\* The product of the local transforms from the root of an entity down to it.
TrueWorld(r) ==
  LET world[e \in DOMAIN r] ==
        (IF ParentOf(r, e) = NoId THEN <<>> ELSE world[ParentOf(r, e)]) \o r[e].local
  IN  world

\* The entities whose cached world transform is the true one.
Current == LET true == TrueWorld(registry) IN {e \in DOMAIN registry : registry[e].cache.world = true[e]}

(***************************************************************************)
(* An update brings the world transforms up to date: edited local           *)
(* transforms and changed parents reach every descendant, through creations, *)
(* copies and destructions.  Excepted are entities, and what is below them,  *)
(* whose parent was refreshed without them when setParent or                *)
(* detachFromParent refreshed one entity and its ancestors: nothing tells   *)
(* them that their parent has changed.                                      *)
(***************************************************************************)
LocalEditsPropagate ==
  last = "update" =>
    {e \in DOMAIN registry : AncestorsOrSelf(registry, e) \cap stranded = {}} \subseteq Current

(***************************************************************************)
(* A scene is current right after it was loaded, although the links were    *)
(* made one by one, in document order, each refreshing only one entity and  *)
(* its ancestors.                                                           *)
(***************************************************************************)
LoadedIsCurrent == last = "load" => Current = DOMAIN registry

-----------------------------------------------------------------------------
(***************************************************************************)
(* Why: the inductive invariant behind the properties.                      *)
(***************************************************************************)

\* A cache that no visit would refresh unless the local transform or the
\* parent's changed was made from the parent's, if the entity is not stranded.
CacheInv ==
  \A e \in DOMAIN registry \ stranded :
    LET parent == ParentOf(registry, e)
        cache  == registry[e].cache
    IN  ~cache.dirty /\ cache.parent_id = parent =>
          cache.world = (IF parent = NoId THEN <<>> ELSE registry[parent].cache.world) \o cache.local

SceneInv ==
  /\ SceneTypeOK /\ HierarchyIsForest /\ CacheInv
  /\ LocalEditsPropagate /\ LoadedIsCurrent
================================================================================
