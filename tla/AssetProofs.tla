----------------------------- MODULE AssetProofs ------------------------------
(***************************************************************************)
(* The proofs about the assets: the catalog of AssetDatabase, and the       *)
(* reconciliation of sources, sidecars and artifacts of AssetReconcile.     *)
(*                                                                          *)
(* The indices of the catalog agree with its entries for any handles,       *)
(* sources, importers and sidecars: only insert and erase change a catalog, *)
(* and they keep a catalog sound whatever they are given.                   *)
(*                                                                          *)
(* What load finds in the cache is current, because until an asset goes     *)
(* adrift, the catalog has, or will have when an operation is done, an      *)
(* entry for it that depends on all it was made of: DatabaseInv, at the end *)
(* of AssetDatabase, which needs the meaning of its recursive functions:    *)
(* Walk, a closure, and the community modules' FlattenSeq.  A plan may be   *)
(* older than the sidecars it is applied to, but gives no handle to another *)
(* asset than they do.                                                      *)
(*                                                                          *)
(* The properties of AssetReconcile hold for any sources, settings, edits,  *)
(* failed writes and crashes.  ReconcileInv, at the end of that module, is  *)
(* inductive.  Its crux is that a UUID, once a sidecar, the catalog or an   *)
(* import records it for a path, is recorded for no other path: so an       *)
(* import or the removal of an orphan never touches the asset of another    *)
(* source.                                                                  *)
(***************************************************************************)
EXTENDS AssetDatabase, AssetReconcile, FiniteSetTheorems, WellFoundedInduction, TLAPS

-----------------------------------------------------------------------------
(* The catalog. *)

\* A catalog as its operations make it: both indices are there for all keys,
\* and an entry is stored under its own handle.
Formed(c) ==
  /\ c = [entries |-> c.entries, by_source |-> c.by_source, dependents |-> c.dependents]
  /\ c.entries = [h \in DOMAIN c.entries |-> c.entries[h]]
  /\ c.by_source = [s \in Sources |-> c.by_source[s]]
  /\ c.dependents = [h \in Handles |-> c.dependents[h]]
  /\ \A h \in DOMAIN c.entries : c.entries[h].handle = h

Sound(c) == Formed(c) /\ IndicesAgreeIn(c)

-----------------------------------------------------------------------------
\* What the three steps of insert and erase do to the parts of a catalog.
LEMMA PutParts ==
  ASSUME NEW c, Formed(c), NEW entry
  PROVE  LET p == PutEntry(c, entry)
         IN  /\ p.by_source = c.by_source
             /\ p.dependents = c.dependents
             /\ DOMAIN p.entries = DOMAIN c.entries \cup {entry.handle}
             /\ p.entries[entry.handle] = entry
             /\ \A h \in DOMAIN c.entries \ {entry.handle} : p.entries[h] = c.entries[h]
  <1> DEFINE e == [h \in DOMAIN c.entries \cup {entry.handle} |->
                     IF h = entry.handle THEN entry ELSE c.entries[h]]
  <1> HIDE DEF e
  <1>1. PutEntry(c, entry) = [c EXCEPT !.entries = e]
    BY DEF PutEntry, e
  <1>2. [c EXCEPT !.entries = e] = [entries |-> e, by_source |-> c.by_source, dependents |-> c.dependents]
    BY DEF Formed
  <1> QED
    BY <1>1, <1>2 DEF e

\* a is c with the metadata in its indices, or without it.
Added(a, c, metadata) ==
  /\ a.entries = c.entries
  /\ \A s \in Sources :
       a.by_source[s] = IF s = metadata.source
                        THEN c.by_source[s] \cup {metadata.handle} ELSE c.by_source[s]
  /\ \A d \in Handles :
       a.dependents[d] = IF d \in DependsOn(metadata)
                         THEN c.dependents[d] \cup {metadata.handle} ELSE c.dependents[d]

LEMMA AddParts ==
  ASSUME NEW c, Formed(c), NEW metadata
  PROVE  Added(AddIndices(c, metadata), c, metadata)
  <1> DEFINE b == [c.by_source EXCEPT ![metadata.source] = @ \cup {metadata.handle}]
  <1>1. \A s \in Sources : b[s] = IF s = metadata.source
                                 THEN c.by_source[s] \cup {metadata.handle} ELSE c.by_source[s]
    BY DEF Formed
  <1> HIDE DEF b
  <1>2. AddIndices(c, metadata).by_source = b
    BY DEF AddIndices, b
  <1> QED
    BY <1>1, <1>2 DEF Added, AddIndices

Removed(a, c, metadata) ==
  /\ a.entries = c.entries
  /\ \A s \in Sources :
       a.by_source[s] = IF s = metadata.source
                        THEN c.by_source[s] \ {metadata.handle} ELSE c.by_source[s]
  /\ \A d \in Handles :
       a.dependents[d] = IF d \in DependsOn(metadata)
                         THEN c.dependents[d] \ {metadata.handle} ELSE c.dependents[d]

LEMMA RemoveParts ==
  ASSUME NEW c, Formed(c), NEW metadata
  PROVE  Removed(RemoveIndices(c, metadata), c, metadata)
  <1> DEFINE b == [c.by_source EXCEPT ![metadata.source] = @ \ {metadata.handle}]
  <1>1. \A s \in Sources : b[s] = IF s = metadata.source
                                 THEN c.by_source[s] \ {metadata.handle} ELSE c.by_source[s]
    BY DEF Formed
  <1> HIDE DEF b
  <1>2. RemoveIndices(c, metadata).by_source = b
    BY DEF RemoveIndices, b
  <1> QED
    BY <1>1, <1>2 DEF Removed, RemoveIndices

LEMMA PutFormed ==
  ASSUME NEW c, Formed(c), NEW entry
  PROVE  Formed(PutEntry(c, entry))
  <1> DEFINE e == [h \in DOMAIN c.entries \cup {entry.handle} |->
                     IF h = entry.handle THEN entry ELSE c.entries[h]]
  <1>1. \A h \in DOMAIN e : e[h].handle = h
    BY DEF Formed
  <1>2. e = [h \in DOMAIN e |-> e[h]]
    OBVIOUS
  <1> HIDE DEF e
  <1>3. PutEntry(c, entry) = [entries |-> e, by_source |-> c.by_source, dependents |-> c.dependents]
    BY DEF Formed, PutEntry, e
  <1> QED
    BY <1>1, <1>2, <1>3 DEF Formed

LEMMA IndicesFormed ==
  ASSUME NEW c, Formed(c), NEW metadata
  PROVE  Formed(AddIndices(c, metadata)) /\ Formed(RemoveIndices(c, metadata))
  <1>1. Formed(AddIndices(c, metadata))
    BY DEF Formed, AddIndices
  <1>2. Formed(RemoveIndices(c, metadata))
    BY DEF Formed, RemoveIndices
  <1> QED
    BY <1>1, <1>2

-----------------------------------------------------------------------------
\* The indices agree with the entries but for the one of a handle, which they
\* do not mention.
AgreesWithout(c, handle) ==
  /\ \A s \in Sources :
       c.by_source[s] = {h \in DOMAIN c.entries \ {handle} : c.entries[h].source = s}
  /\ \A d \in Handles :
       c.dependents[d] = {h \in DOMAIN c.entries \ {handle} : d \in DependsOn(c.entries[h])}

LEMMA UnknownHandle ==
  ASSUME NEW c, IndicesAgreeIn(c), NEW handle, handle \notin DOMAIN c.entries
  PROVE  AgreesWithout(c, handle)
  BY DEF IndicesAgreeIn, AgreesWithout

LEMMA RemovedHandle ==
  ASSUME NEW c, Sound(c), NEW handle \in DOMAIN c.entries
  PROVE  AgreesWithout(RemoveIndices(c, c.entries[handle]), handle)
  <1> DEFINE m == c.entries[handle]
             r == RemoveIndices(c, m)
  <1>0. Removed(r, c, m)
    BY RemoveParts DEF Sound
  <1> HIDE DEF r
  <1>1. m.handle = handle /\ r.entries = c.entries
    BY <1>0 DEF Removed, Sound, Formed
  <1>2. ASSUME NEW s \in Sources
        PROVE  r.by_source[s] = {h \in DOMAIN r.entries \ {handle} : r.entries[h].source = s}
    <2>1. r.by_source[s] = IF s = m.source THEN c.by_source[s] \ {handle} ELSE c.by_source[s]
      BY <1>0, <1>1 DEF Removed
    <2> QED
      BY <1>1, <2>1 DEF Sound, IndicesAgreeIn
  <1>3. ASSUME NEW d \in Handles
        PROVE  r.dependents[d] = {h \in DOMAIN r.entries \ {handle} : d \in DependsOn(r.entries[h])}
    <2>1. r.dependents[d] = IF d \in DependsOn(m) THEN c.dependents[d] \ {handle} ELSE c.dependents[d]
      BY <1>0, <1>1 DEF Removed
    <2> QED
      BY <1>1, <2>1 DEF Sound, IndicesAgreeIn
  <1> QED
    BY <1>2, <1>3 DEF AgreesWithout, r, m

LEMMA PutSound ==
  ASSUME NEW c, Formed(c), NEW metadata, NEW origin, AgreesWithout(c, metadata.handle)
  PROVE  Sound(PutEntry(AddIndices(c, metadata), Entry(metadata, origin)))
  <1> DEFINE entry == Entry(metadata, origin)
             a == AddIndices(c, metadata)
             p == PutEntry(a, entry)
             handle == metadata.handle
  <1>1. entry.handle = handle /\ entry.source = metadata.source /\ DependsOn(entry) = DependsOn(metadata)
    BY DEF Entry, DependsOn
  <1>2. Formed(a) /\ Formed(p)
    BY IndicesFormed, PutFormed
  <1>3. Added(a, c, metadata)
    BY AddParts
  <1> HIDE DEF a, entry
  <1>4. /\ p.by_source = a.by_source
        /\ p.dependents = a.dependents
        /\ DOMAIN p.entries = DOMAIN a.entries \cup {entry.handle}
        /\ p.entries[entry.handle] = entry
        /\ \A h \in DOMAIN a.entries \ {entry.handle} : p.entries[h] = a.entries[h]
    BY <1>2, PutParts, Zenon
  <1> HIDE DEF p
  <1>5. ASSUME NEW s \in Sources
        PROVE  p.by_source[s] = {h \in DOMAIN p.entries : p.entries[h].source = s}
    <2>1. c.by_source[s] = {h \in DOMAIN c.entries \ {handle} : c.entries[h].source = s}
      BY DEF AgreesWithout
    <2>2. p.by_source[s] = IF s = metadata.source THEN c.by_source[s] \cup {handle} ELSE c.by_source[s]
      BY <1>3, <1>4 DEF Added
    <2> HIDE DEF handle
    <2> QED
      BY <1>1, <1>3, <1>4, <2>1, <2>2 DEF Added
  <1>6. ASSUME NEW d \in Handles
        PROVE  p.dependents[d] = {h \in DOMAIN p.entries : d \in DependsOn(p.entries[h])}
    <2>1. c.dependents[d] = {h \in DOMAIN c.entries \ {handle} : d \in DependsOn(c.entries[h])}
      BY DEF AgreesWithout
    <2>2. p.dependents[d] = IF d \in DependsOn(metadata)
                            THEN c.dependents[d] \cup {handle} ELSE c.dependents[d]
      BY <1>3, <1>4 DEF Added
    <2> HIDE DEF handle
    <2> QED
      BY <1>1, <1>3, <1>4, <2>1, <2>2 DEF Added
  <1>7. Sound(p)
    BY <1>2, <1>5, <1>6 DEF Sound, IndicesAgreeIn
  <1> QED
    BY <1>7 DEF p, a, entry

\* insert keeps a catalog sound, whatever it is given.
LEMMA InsertSound ==
  ASSUME NEW c, Sound(c), NEW metadata, NEW origin
  PROVE  Sound(Insert(c, metadata, origin))
  <1>1. CASE metadata.handle \notin DOMAIN c.entries
    BY <1>1, UnknownHandle, PutSound DEF Insert, Sound
  <1>2. CASE /\ metadata.handle \in DOMAIN c.entries
             /\ SameIdentity(c.entries[metadata.handle], metadata)
    <2> DEFINE r == RemoveIndices(c, c.entries[metadata.handle])
    <2>1. Formed(r) /\ AgreesWithout(r, metadata.handle)
      BY <1>2, IndicesFormed, RemovedHandle DEF Sound
    <2>2. Insert(c, metadata, origin) = PutEntry(AddIndices(r, metadata), Entry(metadata, origin))
      BY <1>2 DEF Insert
    <2> HIDE DEF r
    <2> QED
      BY <2>1, <2>2, PutSound
  <1> QED
    BY <1>1, <1>2 DEF Insert

\* So does erase.
LEMMA EraseSound ==
  ASSUME NEW c, Sound(c), NEW handle
  PROVE  Sound(Erase(c, handle))
  <1>1. CASE handle \notin DOMAIN c.entries
    BY <1>1 DEF Erase
  <1>2. CASE handle \in DOMAIN c.entries
    <2> DEFINE r == RemoveIndices(c, c.entries[handle])
               e == [h \in DOMAIN r.entries \ {handle} |-> r.entries[h]]
               x == [entries |-> e, by_source |-> r.by_source, dependents |-> r.dependents]
    <2>1. Formed(r) /\ AgreesWithout(r, handle)
      BY <1>2, IndicesFormed, RemovedHandle DEF Sound
    <2>2. Erase(c, handle) = [r EXCEPT !.entries = e]
      BY <1>2 DEF Erase, Restrict
    <2>3. [r EXCEPT !.entries = e] = x
      <3> HIDE DEF e, r
      <3> QED BY <2>1 DEF Formed
    <2>4. Sound(x)
      <3> HIDE DEF r
      <3> QED BY <2>1 DEF Sound, Formed, AgreesWithout, IndicesAgreeIn
    <2> QED
      BY <2>2, <2>3, <2>4
  <1> QED
    BY <1>1, <1>2

-----------------------------------------------------------------------------
(***************************************************************************)
(* Catalogs are sound from the beginning and after every step: each action  *)
(* empties the catalog, inserts into it, erases from it or leaves it alone. *)
(***************************************************************************)
THEOREM CatalogSound == Spec => []Sound(catalog)
  <1>0. Sound(EmptyCatalog)
    BY DEF Sound, Formed, IndicesAgreeIn, EmptyCatalog
  <1>1. Init => Sound(catalog)
    BY <1>0 DEF Init
  <1>2. Sound(catalog) /\ [Next]_vars => Sound(catalog)'
    <2> SUFFICES ASSUME Sound(catalog), [Next]_vars
                 PROVE  Sound(catalog')
      OBVIOUS
    <2>1. CASE Open \/ OpenPackaged \/ Close
      BY <1>0, <2>1 DEF Open, OpenPackaged, Close, Closed
    <2>2. CASE EraseNext
      BY <2>2, EraseSound DEF EraseNext
    <2>3. CASE InsertNext
      BY <2>3, InsertSound DEF InsertNext
    <2>4. CASE ForgetOrphan
      BY <2>4, EraseSound DEF ForgetOrphan
    <2>5. CASE \E s \in Files : Import(s)
      <3>1. PICK s \in Files : Import(s)
        BY <2>5
      <3>2. catalog' = catalog
        BY <3>1, Zenon DEF Import, ImportSucceeds, ImportFails
      <3> QED
        BY <3>2
    <2>6. CASE \E s \in Files : DeleteSource(s) \/ DeleteSidecar(s)
      BY <2>6 DEF DeleteSource, DeleteSidecar
    <2>7. CASE \/ TakePlan \/ \E taken \in plans : ApplyReconcile(taken)
               \/ \E h \in EngineAssets : RegisterEngineAsset(h)
      BY <2>7 DEF TakePlan, ApplyReconcile, RegisterEngineAsset
    <2>8. CASE Drop \/ \E h \in Handles : Unload(h) \/ UnloadWithDependents(h)
      BY <2>8 DEF Drop, Unload, UnloadWithDependents
    <2>9. CASE Loading \/ \E h \in Handles : LoadCached(h) \/ BeginLoad(h)
      BY <2>9 DEF Loading, LoadCached, BeginLoad, DependencyFails, Decode, DecodeFails
    <2>10. CASE UNCHANGED vars
      BY <2>10 DEF vars
    <2> QED
      BY <2>1, <2>2, <2>3, <2>4, <2>5, <2>6, <2>7, <2>8, <2>9, <2>10 DEF Next
  <1> QED
    BY <1>1, <1>2, PTL DEF Spec

(***************************************************************************)
(* After every single change of the catalog its indices by source and by    *)
(* dependency name exactly the entries they should: what unloadWithDependents *)
(* and the import of a source rely on.                                      *)
(***************************************************************************)
THEOREM CatalogIndices == Spec => []IndicesAgree
  <1>1. Sound(catalog) => IndicesAgree
    BY DEF Sound, IndicesAgree
  <1> QED
    BY <1>1, CatalogSound, PTL

-----------------------------------------------------------------------------
(* Walks and sequences. *)

LEMMA LeastOf ==
  ASSUME NEW S \in SUBSET Nat, S # {}
  PROVE  \E n \in S : \A m \in S : n <= m
  <1>1. \E x \in S : \A y \in S : ~(<<y, x>> \in OpToRel(<, Nat))
    BY NatLessThanWellFounded, WFMin
  <1>2. \A x, y \in Nat : y < x => <<y, x>> \in OpToRel(<, Nat)
    BY DEF OpToRel
  <1> HIDE DEF OpToRel
  <1>3. PICK x \in S : \A y \in S : ~(y < x)
    BY <1>1, <1>2
  <1> QED
    BY <1>3

\* G gives the n-th value in D from the one before it.
IsFold(G, N, D) == G \in [(1 .. N) \X D -> D]

Run(f, N, D, base, G) ==
  f \in [0 .. N -> D] /\ f[0] = base /\ \A n \in 1 .. N : f[n] = G[<<n, f[n - 1]>>]

LEMMA SequenceRecursion ==
  ASSUME NEW N \in Nat, NEW D, NEW base \in D, NEW G, IsFold(G, N, D)
  PROVE  \E f : Run(f, N, D, base, G)
  <1> DEFINE Solves(f, m) == /\ f \in [0 .. m -> D]
                             /\ f[0] = base
                             /\ \A n \in 1 .. m : f[n] = G[<<n, f[n - 1]>>]
             bad == {m \in 0 .. N : \A f : ~Solves(f, m)}
  <1>0. G \in [(1 .. N) \X D -> D]
    BY DEF IsFold
  <1>1. bad = {}
    <2> SUFFICES ASSUME bad # {}
                 PROVE  FALSE
      OBVIOUS
    <2>1. PICK m \in bad : \A k \in bad : m <= k
      <3>1. bad \in SUBSET Nat
        OBVIOUS
      <3> HIDE DEF bad
      <3> QED
        BY <3>1, LeastOf
    <2>4. m \in 0 .. N /\ \A f : ~Solves(f, m)
      OBVIOUS
    <2>2. CASE m = 0
      <3>1. Solves([n \in 0 .. 0 |-> base], 0)
        OBVIOUS
      <3> QED
        BY <2>1, <2>2, <3>1
    <2>3. CASE m # 0
      <3>1. m - 1 \in 0 .. N /\ m - 1 \notin bad
        <4> HIDE DEF bad
        <4> QED
          BY <2>1, <2>3, <2>4
      <3>2. PICK f : Solves(f, m - 1)
        <4> HIDE DEF Solves
        <4> QED
          BY <3>1
      <3> DEFINE g == [n \in 0 .. m |-> IF n = m THEN G[<<m, f[m - 1]>>] ELSE f[n]]
      <3>3. m \in 1 .. N /\ f[m - 1] \in D
        BY <2>1, <2>3, <3>2
      <3>4. G[<<m, f[m - 1]>>] \in D
        BY <1>0, <3>3
      <3>5. g \in [0 .. m -> D] /\ g[0] = base
        BY <3>2, <3>3, <3>4
      <3>6. ASSUME NEW n \in 1 .. m
            PROVE  g[n] = G[<<n, g[n - 1]>>]
        <4>1. n - 1 \in 0 .. m /\ n - 1 # m /\ n \in 0 .. m
          BY <3>3
        <4>2. g[n - 1] = f[n - 1]
          BY <4>1
        <4>3. CASE n = m
          BY <4>1, <4>2, <4>3
        <4>4. CASE n # m
          <5>1. n \in 1 .. m - 1
            BY <3>3, <4>4
          <5> QED
            BY <3>2, <4>1, <4>2, <4>4, <5>1
        <4> QED
          BY <4>3, <4>4
      <3>7. Solves(g, m)
        BY <3>5, <3>6
      <3> HIDE DEF Solves, g
      <3> QED
        BY <2>4, <3>7
    <2> QED
      BY <2>2, <2>3
  <1>2. PICK f : Solves(f, N)
    <2> HIDE DEF Solves
    <2> QED
      BY <1>1
  <1> QED
    BY <1>2 DEF Run

-----------------------------------------------------------------------------
(* Walks. *)

ClosedUnder(next, S) == \A x \in S : next[x] \subseteq S

LEMMA WalkIs ==
  ASSUME NEW D, IsFiniteSet(D), NEW next \in [D -> SUBSET D], NEW roots \in SUBSET D
  PROVE  LET W == Walk(next, roots)
         IN  /\ roots \subseteq W /\ W \subseteq D /\ ClosedUnder(next, W)
             /\ \A S : roots \subseteq S /\ ClosedUnder(next, S) => W \subseteq S
  <1> DEFINE N == Cardinality(D)
             step(S) == UNION {{x} \cup next[x] : x \in S}
             visits(v) == v = [n \in 0 .. N |-> IF n = 0 THEN roots ELSE step(v[n - 1])]
  <1>1. N \in Nat /\ DOMAIN next = D
    BY FS_CardinalityType
  <1>2. \A S \in SUBSET D : step(S) \in SUBSET D
    OBVIOUS
  <1>3. \E v : visits(v)
    <2> DEFINE G == [x \in (1 .. N) \X SUBSET D |-> step(x[2])]
    <2>1. IsFold(G, N, SUBSET D)
      <3> HIDE DEF N, step
      <3> QED
        BY <1>2 DEF IsFold
    <2>2. \A n \in 1 .. N, S \in SUBSET D : G[<<n, S>>] = step(S)
      <3> HIDE DEF N, step
      <3> QED
        OBVIOUS
    <2> HIDE DEF G, N, step
    <2>3. PICK v : Run(v, N, SUBSET D, roots, G)
      BY <1>1, <2>1, SequenceRecursion
    <2>4. v \in [0 .. N -> SUBSET D] /\ v[0] = roots
      BY <2>3 DEF Run
    <2>5. ASSUME NEW n \in 1 .. N
          PROVE  v[n] = step(v[n - 1])
      <3>1. n - 1 \in 0 .. N
        BY <1>1
      <3> QED
        BY <2>2, <2>3, <2>4, <3>1 DEF Run
    <2>6. \A n \in 0 .. N : v[n] = IF n = 0 THEN roots ELSE step(v[n - 1])
      BY <1>1, <2>4, <2>5
    <2>7. visits(v)
      BY <2>4, <2>6
    <2> QED
      BY <2>7
  <1> DEFINE v == CHOOSE w : visits(w)
  <1>4. visits(v)
    <2> HIDE DEF visits
    <2> QED
      BY <1>3
  <1>5. Walk(next, roots) = v[N]
    BY <1>1 DEF Walk
  <1>6. v[0] = roots /\ \A n \in 1 .. N : v[n] = step(v[n - 1])
    <2> HIDE DEF v, step, N
    <2> QED
      BY <1>1, <1>4
  <1> DEFINE Good(n) == /\ roots \subseteq v[n] /\ v[n] \subseteq D
                        /\ \A S : roots \subseteq S /\ ClosedUnder(next, S) => v[n] \subseteq S
                        /\ ClosedUnder(next, v[n]) \/ Cardinality(v[n]) >= n
             bad == {n \in 0 .. N : ~Good(n)}
  <1> HIDE DEF v
  <1>7. bad = {}
    <2> SUFFICES ASSUME bad # {}
                 PROVE  FALSE
      OBVIOUS
    <2>1. PICK n \in bad : \A k \in bad : n <= k
      <3>1. bad \in SUBSET Nat
        OBVIOUS
      <3> HIDE DEF bad
      <3> QED
        BY <3>1, LeastOf
    <2>2. n \in 0 .. N /\ ~Good(n)
      OBVIOUS
    <2> HIDE DEF N
    <2>3. n # 0
      <3> SUFFICES ASSUME n = 0
                   PROVE  Good(0)
        BY <2>2
      <3>1. Cardinality(roots) \in Nat
        BY FS_Subset, FS_CardinalityType
      <3> QED
        BY <1>6, <3>1
    <2>4. n \in 1 .. N /\ n - 1 \in 0 .. N
      BY <1>1, <2>2, <2>3
    <2>5. Good(n - 1)
      <3>1. n - 1 \notin bad
        <4> HIDE DEF bad
        <4> QED
          BY <2>1, <2>4
      <3> HIDE DEF Good
      <3> QED
        BY <2>4, <3>1
    <2> DEFINE p == v[n - 1]
    <2>6. v[n] = step(p)
      BY <1>6, <2>4
    <2>7. roots \subseteq p /\ p \subseteq D
      BY <2>5
    <2>8. p \subseteq v[n] /\ v[n] \subseteq D /\ \A x \in p : next[x] \subseteq v[n]
      BY <2>6, <2>7
    <2>9. \A S : roots \subseteq S /\ ClosedUnder(next, S) => v[n] \subseteq S
      <3> SUFFICES ASSUME NEW S, roots \subseteq S, ClosedUnder(next, S)
                   PROVE  v[n] \subseteq S
        OBVIOUS
      <3>1. p \subseteq S
        BY <2>5
      <3> HIDE DEF p
      <3> QED
        BY <2>6, <3>1 DEF ClosedUnder
    <2>10. CASE ClosedUnder(next, p)
      <3>1. v[n] = p
        BY <2>6, <2>8, <2>10 DEF ClosedUnder
      <3> HIDE DEF p
      <3> QED
        BY <2>2, <2>7, <2>9, <2>10, <3>1
    <2>11. CASE ~ClosedUnder(next, p)
      <3>1. PICK x \in p : \E y \in next[x] : y \notin p
        BY <2>11 DEF ClosedUnder
      <3>2. PICK y \in next[x] : y \notin p
        BY <3>1
      <3>3. p \cup {y} \subseteq v[n]
        BY <2>8
      <3>4. IsFiniteSet(p) /\ IsFiniteSet(v[n])
        BY <2>7, <2>8, FS_Subset
      <3>5. Cardinality(p) >= n - 1 /\ Cardinality(p) \in Nat
        BY <2>5, <2>11, <3>4, FS_CardinalityType
      <3>6. Cardinality(p \cup {y}) = Cardinality(p) + 1
        <4> HIDE DEF p
        <4> QED
          BY <3>2, <3>4, FS_AddElement
      <3>7. Cardinality(p \cup {y}) <= Cardinality(v[n]) /\ Cardinality(v[n]) \in Nat
        BY <3>3, <3>4, FS_Subset, FS_CardinalityType
      <3>8. Cardinality(v[n]) >= n
        <4> HIDE DEF p
        <4> QED
          BY <2>2, <3>5, <3>6, <3>7
      <3> HIDE DEF p
      <3> QED
        BY <2>2, <2>7, <2>8, <2>9, <3>8
    <2> QED
      BY <2>10, <2>11
  <1>8. Good(N)
    <2> HIDE DEF Good, N
    <2> QED
      BY <1>1, <1>7
  <1>9. ClosedUnder(next, v[N])
    <2>1. CASE Cardinality(v[N]) >= N
      <3>1. Cardinality(v[N]) <= N /\ Cardinality(v[N]) \in Nat
        BY <1>8, FS_Subset, FS_CardinalityType
      <3>2. v[N] = D
        BY <1>1, <1>8, <2>1, <3>1, FS_Subset
      <3> QED
        BY <3>2 DEF ClosedUnder
    <2> QED
      BY <1>8, <2>1
  <1> HIDE DEF N
  <1> QED
    BY <1>5, <1>8, <1>9

-----------------------------------------------------------------------------
(* Dependencies are sequences of handles. *)

LEMMA SetToSeqTyped ==
  ASSUME NEW S, IsFiniteSet(S)
  PROVE  SetToSeq(S) \in Seq(S)
  <1>1. Cardinality(S) \in Nat
    BY FS_CardinalityType
  <1>2. PICK f \in [1 .. Cardinality(S) -> S] : IsInjective(f)
    BY FS_CardinalityType DEF ExistsBijection, Bijection, Injection, IsInjective
  <1>3. SetToSeq(S) \in [1 .. Cardinality(S) -> S]
    <2> DEFINE N == Cardinality(S)
    <2> HIDE DEF N
    <2>1. \E g \in [1 .. N -> S] : IsInjective(g)
      BY <1>2 DEF N
    <2>2. (CHOOSE g \in [1 .. N -> S] : IsInjective(g)) \in [1 .. N -> S]
      BY <2>1
    <2> QED
      BY <2>2 DEF SetToSeq, N
  <1> QED
    BY <1>1, <1>3

LEMMA FlattenSeqTyped ==
  ASSUME NEW X, NEW seqs \in Seq(Seq(X))
  PROVE  FlattenSeq(seqs) \in Seq(X)
  <1>1. CASE Len(seqs) = 0
    BY <1>1 DEF FlattenSeq
  <1>2. CASE Len(seqs) # 0
    <2> DEFINE N == Len(seqs)
               flat(v) == v = [i \in 1 .. N |-> IF i = 1 THEN seqs[i] ELSE v[i - 1] \o seqs[i]]
               w == CHOOSE v : flat(v)
    <2>1. N \in Nat \ {0} /\ \A i \in 1 .. N : seqs[i] \in Seq(X)
      BY <1>2
    <2>2. \E v \in [1 .. N -> Seq(X)] : flat(v)
      <3> DEFINE M == N - 1
                 G == [x \in (1 .. M) \X Seq(X) |-> x[2] \o seqs[x[1] + 1]]
      <3>1. M \in Nat /\ \A i \in 1 .. M : seqs[i + 1] \in Seq(X)
        BY <2>1
      <3>2. IsFold(G, M, Seq(X))
        <4> HIDE DEF M
        <4>1. \A x \in (1 .. M) \X Seq(X) : x[2] \o seqs[x[1] + 1] \in Seq(X)
          BY <3>1
        <4> QED
          BY <4>1 DEF IsFold
      <3>3. \A n \in 1 .. M, s \in Seq(X) : G[<<n, s>>] = s \o seqs[n + 1]
        <4> HIDE DEF M
        <4> QED
          OBVIOUS
      <3>4. seqs[1] \in Seq(X)
        BY <2>1
      <3> HIDE DEF G
      <3>5. PICK f : Run(f, M, Seq(X), seqs[1], G)
        <4> HIDE DEF M
        <4> QED
          BY <3>1, <3>2, <3>4, SequenceRecursion
      <3> DEFINE v == [i \in 1 .. N |-> f[i - 1]]
      <3>6. f \in [0 .. M -> Seq(X)] /\ f[0] = seqs[1]
        BY <3>5 DEF Run
      <3>7. \A i \in 1 .. N : v[i] \in Seq(X)
        <4>1. \A i \in 1 .. N : i - 1 \in 0 .. M
          BY <2>1
        <4> HIDE DEF N, M
        <4> QED
          BY <3>6, <4>1
      <3>8. ASSUME NEW i \in 1 .. N
            PROVE  v[i] = IF i = 1 THEN seqs[i] ELSE v[i - 1] \o seqs[i]
        <4>1. CASE i = 1
          BY <3>6, <4>1
        <4>2. CASE i # 1
          <5>1. i - 1 \in 1 .. M /\ i - 1 \in 1 .. N /\ (i - 1) + 1 = i
            BY <2>1, <4>2
          <5>2. (i - 1) - 1 \in 0 .. M
            BY <5>1
          <5>3. f[i - 1] = G[<<i - 1, f[(i - 1) - 1]>>]
            BY <3>5, <5>1 DEF Run
          <5>4. f[i - 1] = f[(i - 1) - 1] \o seqs[i]
            BY <3>3, <3>6, <5>1, <5>2, <5>3
          <5>5. v[i] = f[i - 1] /\ v[i - 1] = f[(i - 1) - 1]
            BY <5>1
          <5> HIDE DEF v
          <5> QED
            BY <4>2, <5>4, <5>5
        <4> QED
          BY <4>1, <4>2
      <3>9. v \in [1 .. N -> Seq(X)]
        BY <3>7
      <3> HIDE DEF v, N
      <3>10. flat(v)
        BY <3>8, <3>9
      <3> QED
        BY <3>9, <3>10
    <2>3. flat(w)
      <3> HIDE DEF flat
      <3> QED
        BY <2>2
    <2>4. FlattenSeq(seqs) = w[N]
      BY <1>2 DEF FlattenSeq
    <2> HIDE DEF w, N
    <2>5. \A i \in 1 .. N : w[i] = IF i = 1 THEN seqs[i] ELSE w[i - 1] \o seqs[i]
      BY <2>3
    <2> DEFINE bad == {i \in 1 .. N : w[i] \notin Seq(X)}
    <2>6. bad = {}
      <3> SUFFICES ASSUME bad # {}
                   PROVE  FALSE
        OBVIOUS
      <3>1. PICK n \in bad : \A k \in bad : n <= k
        <4>1. bad \in SUBSET Nat
          OBVIOUS
        <4> HIDE DEF bad
        <4> QED
          BY <4>1, LeastOf
      <3>2. n \in 1 .. N /\ w[n] \notin Seq(X)
        OBVIOUS
      <3>3. n # 1
        BY <2>1, <2>5, <3>2
      <3>4. n - 1 \in 1 .. N
        BY <2>1, <3>2, <3>3
      <3>5. w[n - 1] \in Seq(X)
        <4>1. n - 1 \notin bad
          <5> HIDE DEF bad
          <5> QED
            BY <2>1, <3>1, <3>2, <3>4
        <4> QED
          BY <3>4, <4>1
      <3>6. w[n] = w[n - 1] \o seqs[n] /\ seqs[n] \in Seq(X)
        BY <2>1, <2>5, <3>2, <3>3
      <3> QED
        BY <3>2, <3>5, <3>6
    <2> QED
      BY <2>1, <2>4, <2>6
  <1> QED
    BY <1>1, <1>2

-----------------------------------------------------------------------------
(* The cache of loaded assets. *)

LEMMA RestrictOf ==
  ASSUME NEW f, NEW S
  PROVE  /\ DOMAIN Restrict(f, S) = S
         /\ \A z \in S : Restrict(f, S)[z] = f[z]
         /\ Restrict(f, S) = [z \in DOMAIN Restrict(f, S) |-> Restrict(f, S)[z]]
  BY DEF Restrict

LEMMA InsertEffect ==
  ASSUME NEW c, Sound(c), NEW m, NEW origin,
         m.handle \in DOMAIN c.entries => SameIdentity(c.entries[m.handle], m)
  PROVE  LET q == Insert(c, m, origin)
         IN  /\ DOMAIN q.entries = DOMAIN c.entries \cup {m.handle}
             /\ q.entries[m.handle] = Entry(m, origin)
             /\ \A h \in DOMAIN c.entries \ {m.handle} : q.entries[h] = c.entries[h]
  <1> DEFINE before == IF m.handle \in DOMAIN c.entries
                       THEN RemoveIndices(c, c.entries[m.handle]) ELSE c
             a == AddIndices(before, m)
             entry == Entry(m, origin)
  <1>1. Insert(c, m, origin) = PutEntry(a, entry)
    BY DEF Insert
  <1>2. Formed(before) /\ before.entries = c.entries
    <2>1. CASE m.handle \in DOMAIN c.entries
      BY <2>1, IndicesFormed, RemoveParts DEF Sound, Removed
    <2> QED
      BY <2>1 DEF Sound
  <1> HIDE DEF before
  <1>3. Formed(a) /\ a.entries = c.entries
    BY <1>2, IndicesFormed, AddParts DEF Added
  <1>4. entry.handle = m.handle
    BY DEF Entry
  <1> HIDE DEF a, entry
  <1> DEFINE p == PutEntry(a, entry)
  <1>5. /\ p.by_source = a.by_source
        /\ p.dependents = a.dependents
        /\ DOMAIN p.entries = DOMAIN a.entries \cup {entry.handle}
        /\ p.entries[entry.handle] = entry
        /\ \A h \in DOMAIN a.entries \ {entry.handle} : p.entries[h] = a.entries[h]
    BY <1>3, PutParts, Zenon
  <1> HIDE DEF p
  <1> QED
    BY <1>1, <1>3, <1>4, <1>5 DEF entry, p

LEMMA EraseEffect ==
  ASSUME NEW c, Sound(c), NEW handle
  PROVE  LET q == Erase(c, handle)
         IN  /\ DOMAIN q.entries = DOMAIN c.entries \ {handle}
             /\ \A h \in DOMAIN c.entries \ {handle} : q.entries[h] = c.entries[h]
  <1>1. CASE handle \notin DOMAIN c.entries
    BY <1>1 DEF Erase
  <1>2. CASE handle \in DOMAIN c.entries
    <2> DEFINE r == RemoveIndices(c, c.entries[handle])
               e == [h \in DOMAIN r.entries \ {handle} |-> r.entries[h]]
               x == [entries |-> e, by_source |-> r.by_source, dependents |-> r.dependents]
    <2>1. Formed(r) /\ r.entries = c.entries
      BY <1>2, IndicesFormed, RemoveParts DEF Sound, Removed
    <2>2. Erase(c, handle) = [r EXCEPT !.entries = e]
      BY <1>2 DEF Erase, Restrict
    <2>3. [r EXCEPT !.entries = e] = x
      <3> HIDE DEF e, r
      <3> QED BY <2>1 DEF Formed
    <2> HIDE DEF r
    <2> QED
      BY <2>1, <2>2, <2>3
  <1> QED
    BY <1>1, <1>2

\* unloadWithDependents reaches every entry that depends, through others, on
\* the handle.
LEMMA DependentsAre ==
  ASSUME Sound(catalog), DOMAIN catalog.entries \subseteq Handles, NEW h \in Handles
  PROVE  /\ h \in Dependents(h)
         /\ Dependents(h) \subseteq Handles
         /\ \A d \in Dependents(h) : \A e \in DOMAIN catalog.entries :
              d \in DependsOn(catalog.entries[e]) => e \in Dependents(h)
  <1> DEFINE next == [d \in Handles |-> DependentsOf(catalog, d)]
  <1>1. \A d \in Handles : next[d] = {e \in DOMAIN catalog.entries : d \in DependsOn(catalog.entries[e])}
    BY DEF DependentsOf, Sound, IndicesAgreeIn
  <1>2. next \in [Handles -> SUBSET Handles]
    <2>1. \A d \in Handles : next[d] \in SUBSET Handles
      BY <1>1
    <2> QED
      BY <2>1
  <1>3. IsFiniteSet(Handles) /\ {h} \in SUBSET Handles
    BY DatabaseAssumption
  <1>4. Dependents(h) = Walk(next, {h})
    BY DEF Dependents
  <1> HIDE DEF next
  <1>5. LET W == Walk(next, {h})
        IN  {h} \subseteq W /\ W \subseteq Handles /\ ClosedUnder(next, W)
    BY <1>2, <1>3, WalkIs
  <1> QED
    BY <1>1, <1>4, <1>5 DEF ClosedUnder

LEMMA ReachIs ==
  ASSUME NEW objs, DOMAIN objs \subseteq Handles \X Copies,
         \A o \in DOMAIN objs : Range(objs[o].parts) \subseteq DOMAIN objs,
         NEW roots \in SUBSET DOMAIN objs
  PROVE  /\ roots \subseteq Reach(objs, roots)
         /\ Reach(objs, roots) \subseteq DOMAIN objs
         /\ \A o \in Reach(objs, roots) : Range(objs[o].parts) \subseteq Reach(objs, roots)
         /\ \A S \in SUBSET DOMAIN objs :
              roots \subseteq S /\ (\A o \in S : Range(objs[o].parts) \subseteq S) =>
                Reach(objs, roots) \subseteq S
  <1> DEFINE next == [o \in DOMAIN objs |-> Range(objs[o].parts)]
  <1>1. IsFiniteSet(DOMAIN objs)
    <2>1. IsFiniteSet(Handles \X Copies)
      BY DatabaseAssumption, FS_Product
    <2> QED
      BY <2>1, FS_Subset
  <1>2. next \in [DOMAIN objs -> SUBSET DOMAIN objs] /\ \A o \in DOMAIN objs : next[o] = Range(objs[o].parts)
    OBVIOUS
  <1>3. Reach(objs, roots) = Walk(next, roots)
    BY DEF Reach
  <1> HIDE DEF next
  <1>4. LET W == Walk(next, roots)
        IN  /\ roots \subseteq W /\ W \subseteq DOMAIN objs /\ ClosedUnder(next, W)
            /\ \A S : roots \subseteq S /\ ClosedUnder(next, S) => W \subseteq S
    BY <1>1, <1>2, WalkIs
  <1> DEFINE W == Walk(next, roots)
  <1> HIDE DEF W
  <1>5. /\ roots \subseteq W /\ W \subseteq DOMAIN objs /\ ClosedUnder(next, W)
        /\ \A S : roots \subseteq S /\ ClosedUnder(next, S) => W \subseteq S
    BY <1>4 DEF W
  <1>6. \A o \in W : Range(objs[o].parts) \subseteq W
    BY <1>2, <1>5 DEF ClosedUnder
  <1>7. ASSUME NEW S \in SUBSET DOMAIN objs, roots \subseteq S,
               \A o \in S : Range(objs[o].parts) \subseteq S
        PROVE  W \subseteq S
    <2>1. ClosedUnder(next, S)
      BY <1>2, <1>7 DEF ClosedUnder
    <2> QED
      BY <1>5, <1>7, <2>1
  <1> QED
    BY <1>3, <1>5, <1>6, <1>7 DEF W

\* What is left of a heap when the application holds h and the loads go on.
LEMMA KeepStep ==
  ASSUME NEW entries, NEW objs, NEW cached, NEW h, NEW loads,
         HeapInv(objs, cached, h), CallsInv(entries, objs, loads), Keep(objs, cached, h, loads)
  PROVE  /\ HeapInv(objects', loaded', held')
         /\ CallsInv(entries, objects', loads)
         /\ \A T, future : Trusted(T, future, objs, cached, loads) =>
              \E U \in SUBSET DOMAIN objects' : Trusted(U, future, objects', loaded', loads)
  <1> DEFINE roots == h \cup UNION {Range(loads[i].parts) : i \in DOMAIN loads}
             alive == Reach(objs, roots)
  <1>1. roots \in SUBSET DOMAIN objs
    <2>1. \A i \in DOMAIN loads : Range(loads[i].parts) \subseteq DOMAIN objs
      BY DEF CallsInv, Range
    <2> QED
      BY <2>1 DEF HeapInv
  <1>2. \A o \in DOMAIN objs : Range(objs[o].parts) \subseteq DOMAIN objs
    BY DEF HeapInv, Range
  <1>3. /\ roots \subseteq alive /\ alive \subseteq DOMAIN objs
        /\ \A o \in alive : Range(objs[o].parts) \subseteq alive
    <2> HIDE DEF roots
    <2> QED
      BY <1>1, <1>2, ReachIs DEF HeapInv
  <1>4. /\ objects' = Restrict(objs, alive)
        /\ loaded' = Restrict(cached, {d \in DOMAIN cached : cached[d] \in DOMAIN objects'})
        /\ held' = h
    BY DEF Keep
  <1>5. h \subseteq alive /\ \A i \in DOMAIN loads : Range(loads[i].parts) \subseteq alive
    <2> HIDE DEF alive
    <2> QED
      BY <1>3
  <1> HIDE DEF roots, alive
  <1>6. /\ objects' = [o \in DOMAIN objects' |-> objects'[o]]
        /\ DOMAIN objects' = alive
        /\ \A o \in alive : objects'[o] = objs[o]
    BY <1>4, RestrictOf
  <1>7. /\ loaded' = [d \in DOMAIN loaded' |-> loaded'[d]]
        /\ DOMAIN loaded' = {d \in DOMAIN cached : cached[d] \in alive}
        /\ \A d \in DOMAIN loaded' : loaded'[d] = cached[d]
    BY <1>4, <1>6, RestrictOf
  <1>8. \A o \in alive : objects'[o].parts \in Seq(alive)
    <2> SUFFICES ASSUME NEW o \in alive
                 PROVE  objs[o].parts \in Seq(alive)
      BY <1>6
    <2>1. objs[o].parts \in Seq(DOMAIN objs) /\ Range(objs[o].parts) \subseteq alive
      BY <1>3 DEF HeapInv
    <2> DEFINE s == objs[o].parts
    <2> HIDE DEF s
    <2>2. s \in Seq(DOMAIN objs) /\ \A i \in 1 .. Len(s) : s[i] \in alive
      BY <2>1 DEF s, Range
    <2> QED
      BY <2>2 DEF s
  <1>9. HeapInv(objects', loaded', held')
    BY <1>3, <1>4, <1>5, <1>6, <1>7, <1>8 DEF HeapInv
  <1>10. CallsInv(entries, objects', loads)
    <2>1. \A i \in DOMAIN loads : \A j \in DOMAIN loads[i].parts : loads[i].parts[j] \in alive
      BY <1>5 DEF Range
    <2> QED
      BY <1>6, <2>1 DEF CallsInv
  <1>11. ASSUME NEW T, NEW future, Trusted(T, future, objs, cached, loads)
         PROVE  \E U \in SUBSET DOMAIN objects' : Trusted(U, future, objects', loaded', loads)
    <2> DEFINE U == T \cap alive
    <2>1. U \subseteq DOMAIN objects' /\ Range(loaded') \subseteq U
      BY <1>6, <1>7, <1>11 DEF Trusted, Range
    <2>2. \A i \in DOMAIN loads : Range(loads[i].parts) \subseteq U
      BY <1>5, <1>11 DEF Trusted
    <2>3. ASSUME NEW o \in U
          PROVE  objects'[o].fresh /\ (objects'[o].adrift \/ MadeOf(o, U, future, objects'))
      <3>1. o \in T /\ o \in alive /\ objects'[o] = objs[o] /\ Range(objs[o].parts) \subseteq alive
        BY <1>3, <1>6
      <3>2. objs[o].fresh /\ (objs[o].adrift \/ MadeOf(o, T, future, objs))
        BY <1>11, <3>1, Zenon DEF Trusted
      <3>3. MadeOf(o, T, future, objs) => MadeOf(o, U, future, objects')
        BY <3>1 DEF MadeOf
      <3> QED
        BY <3>1, <3>2, <3>3, Zenon
    <2> HIDE DEF U
    <2>4. Trusted(U, future, objects', loaded', loads)
      BY <2>1, <2>2, <2>3, Zenon DEF Trusted
    <2> QED
      BY <2>1, <2>4
  <1> QED
    BY <1>9, <1>10, <1>11, Zenon

\* The metadata after has m's asset, with m's dependencies and perhaps more.
Covered(m, after) ==
  \E n \in after : n.handle = m.handle /\ DependsOn(m) \subseteq DependsOn(n)

\* What is trusted stays so when its assets keep their dependencies or are adrift.
LEMMA FutureShrinks ==
  ASSUME NEW T, NEW future, NEW after, NEW objs, NEW cached, NEW loads,
         Trusted(T, future, objs, cached, loads),
         \A o \in T : objs[o].adrift \/ \A m \in future : m.handle = o[1] => Covered(m, after)
  PROVE  Trusted(T, after, objs, cached, loads)
  <1>1. ASSUME NEW o \in T
        PROVE  objs[o].fresh /\ (objs[o].adrift \/ MadeOf(o, T, after, objs))
    <2>1. objs[o].fresh /\ (objs[o].adrift \/ MadeOf(o, T, future, objs))
      BY Zenon DEF Trusted
    <2>2. CASE objs[o].adrift
      BY <2>1, <2>2, Zenon
    <2>3. CASE MadeOf(o, T, future, objs) /\ \A m \in future : m.handle = o[1] => Covered(m, after)
      <3>1. PICK m \in future :
              m.handle = o[1] /\ \A p \in Range(objs[o].parts) : p \in T /\ p[1] \in DependsOn(m)
        BY <2>3 DEF MadeOf
      <3>2. PICK n \in after : n.handle = m.handle /\ DependsOn(m) \subseteq DependsOn(n)
        BY <2>3, <3>1 DEF Covered
      <3>3. MadeOf(o, T, after, objs)
        BY <3>1, <3>2 DEF MadeOf
      <3> QED
        BY <2>1, <3>3, Zenon
    <2> QED
      BY <2>1, <2>2, <2>3, Zenon
  <1> QED
    BY <1>1, Zenon DEF Trusted

\* It stays so when assets go adrift.
LEMMA AdriftTrust ==
  ASSUME NEW objs, NEW handles
  PROVE  /\ \A T, future, cached, loads : Trusted(T, future, objs, cached, loads) =>
              Trusted(T, future, Adrift(objs, handles), cached, loads)
         /\ \A cached, h : HeapInv(objs, cached, h) => HeapInv(Adrift(objs, handles), cached, h)
         /\ \A o \in DOMAIN objs : Adrift(objs, handles)[o].adrift \/ o[1] \notin handles
         /\ DOMAIN Adrift(objs, handles) = DOMAIN objs
  <1> DEFINE q == Adrift(objs, handles)
  <1>1. DOMAIN q = DOMAIN objs /\ q = [o \in DOMAIN q |-> q[o]]
    BY DEF Adrift
  <1>2. \A o \in DOMAIN objs : q[o] = IF o[1] \in handles THEN [objs[o] EXCEPT !.adrift = TRUE] ELSE objs[o]
    BY DEF Adrift
  <1> HIDE DEF q
  <1>3. \A o \in DOMAIN objs : q[o].parts = objs[o].parts
    <2>1. ASSUME NEW o \in DOMAIN objs
          PROVE  q[o].parts = objs[o].parts
      <3>1. [objs[o] EXCEPT !.adrift = TRUE].parts = objs[o].parts
        OBVIOUS
      <3> QED
        BY <1>2, <3>1
    <2> QED
      BY <2>1
  <1>4. ASSUME NEW o \in DOMAIN objs
        PROVE  (objs[o].fresh => q[o].fresh) /\ (objs[o].adrift => q[o].adrift)
               /\ (q[o].adrift \/ o[1] \notin handles)
    <2>1. CASE o[1] \notin handles
      <3>1. q[o] = objs[o]
        BY <1>2, <2>1
      <3> QED
        BY <2>1, <3>1, Zenon
    <2>2. CASE o[1] \in handles
      <3> DEFINE r == [objs[o] EXCEPT !.adrift = TRUE]
      <3>1. r.adrift /\ (objs[o].fresh => r.fresh)
        OBVIOUS
      <3>2. q[o] = r
        BY <1>2, <2>2
      <3> HIDE DEF r
      <3> QED
        BY <3>1, <3>2, Zenon
    <2> QED
      BY <2>1, <2>2
  <1>5. ASSUME NEW T, NEW future, NEW cached, NEW loads, Trusted(T, future, objs, cached, loads)
        PROVE  Trusted(T, future, q, cached, loads)
    <2>1. ASSUME NEW o \in T
          PROVE  q[o].fresh /\ (q[o].adrift \/ MadeOf(o, T, future, q))
      <3>1. o \in DOMAIN objs
        BY <1>5, Zenon DEF Trusted
      <3>2. objs[o].fresh /\ (objs[o].adrift \/ MadeOf(o, T, future, objs))
        BY <1>5, Zenon DEF Trusted
      <3>3. MadeOf(o, T, future, objs) => MadeOf(o, T, future, q)
        BY <1>3, <3>1 DEF MadeOf
      <3> QED
        BY <1>4, <3>1, <3>2, <3>3, Zenon
    <2> QED
      BY <1>1, <1>5, <2>1, Zenon DEF Trusted
  <1>6. ASSUME NEW cached, NEW h, HeapInv(objs, cached, h)
        PROVE  HeapInv(q, cached, h)
    BY <1>1, <1>3, <1>6 DEF HeapInv
  <1> QED
    BY <1>1, <1>4, <1>5, <1>6, Zenon DEF q

\* So it does when the cache forgets some of it.
LEMMA CacheShrinks ==
  ASSUME NEW objs, NEW cached, NEW h, HeapInv(objs, cached, h), NEW S \in SUBSET DOMAIN cached
  PROVE  /\ HeapInv(objs, Restrict(cached, S), h)
         /\ Range(Restrict(cached, S)) \subseteq Range(cached)
         /\ \A T, future, loads : Trusted(T, future, objs, cached, loads) =>
                                    Trusted(T, future, objs, Restrict(cached, S), loads)
  <1> DEFINE c == Restrict(cached, S)
  <1>1. c = [d \in DOMAIN c |-> c[d]] /\ DOMAIN c = S /\ \A d \in S : c[d] = cached[d]
    BY RestrictOf
  <1> HIDE DEF c
  <1>2. HeapInv(objs, c, h)
    BY <1>1 DEF HeapInv
  <1>3. Range(c) \subseteq Range(cached)
    BY <1>1 DEF Range
  <1>4. \A T, future, loads : Trusted(T, future, objs, cached, loads) =>
                                    Trusted(T, future, objs, c, loads)
    BY <1>3, Zenon DEF Trusted
  <1> QED
    BY <1>2, <1>3, <1>4, Zenon DEF c

-----------------------------------------------------------------------------
(* The catalog while it is changed. *)

BaseInv == Sound(catalog) /\ EntriesInv /\ SidecarsInv

CacheInv ==
  /\ stack # <<>> => work = NoWork /\ mode # "closed"
  /\ CallsInv(catalog.entries, objects, stack) /\ HeapInv(objects, loaded, held)
  /\ \E T \in SUBSET DOMAIN objects : Trusted(T, Future, objects, loaded, stack)

Shaped(w) ==
  w = [erase |-> w.erase, insert |-> w.insert, origin |-> w.origin, orphans |-> w.orphans]

LEMMA RestIs ==
  ASSUME NEW erase, NEW insert, NEW origin, NEW orphans
  PROVE  LET left == Rest([erase |-> erase, insert |-> insert, origin |-> origin, orphans |-> orphans])
         IN  /\ left.erase = erase /\ left.insert = insert /\ left.orphans = orphans
             /\ insert # {} => left.origin = origin
             /\ Shaped(left)
  BY DEF Rest, NoWork, Shaped

\* What the operations leave to be done.
LEMMA WorkLeft ==
  ASSUME Shaped(work), NEW S
  PROVE  /\ [work EXCEPT !.erase = S] = [erase |-> S, insert |-> work.insert,
                                         origin |-> work.origin, orphans |-> work.orphans]
         /\ [work EXCEPT !.insert = S] = [erase |-> work.erase, insert |-> S,
                                          origin |-> work.origin, orphans |-> work.orphans]
         /\ [work EXCEPT !.orphans = S] = [erase |-> work.erase, insert |-> work.insert,
                                           origin |-> work.origin, orphans |-> S]
  BY DEF Shaped

LEMMA MetadataHandle ==
  ASSUME Sound(catalog)
  PROVE  \A h \in DOMAIN catalog.entries :
           /\ MetadataOf(h).handle = h
           /\ MetadataOf(h).source = catalog.entries[h].source
           /\ MetadataOf(h).local = catalog.entries[h].local
           /\ MetadataOf(h).dependencies = catalog.entries[h].dependencies
  BY DEF MetadataOf, Metadata, Sound, Formed

LEMMA IdleFuture ==
  ASSUME work = NoWork
  PROVE  Future = {MetadataOf(h) : h \in DOMAIN catalog.entries}
  BY DEF Future, NoWork

LEMMA CatalogTyped ==
  ASSUME BaseInv
  PROVE  DOMAIN catalog.entries \subseteq Handles
  BY MetadataHandle DEF BaseInv, EntriesInv, WellFormed

LEMMA NoCalls ==
  \A entries, objs : CallsInv(entries, objs, <<>>)
  <1>1. <<>> \in Seq([handle : Handles, dependencies : Seq(Handles), parts : Seq(Handles \X Copies)])
    OBVIOUS
  <1>2. DOMAIN <<>> = {} /\ 1 .. Len(<<>>) - 1 = {}
    OBVIOUS
  <1> QED
    BY <1>1, <1>2 DEF CallsInv

\* A step that leaves the cache alone while no load is under way.
LEMMA CacheUntouched ==
  ASSUME CacheInv, stack = <<>>, UNCHANGED <<cache, calls>>, Future \subseteq Future'
  PROVE  CacheInv'
  <1>1. PICK T \in SUBSET DOMAIN objects : Trusted(T, Future, objects, loaded, stack)
    BY DEF CacheInv
  <1>2. objects' = objects /\ loaded' = loaded /\ held' = held /\ stack' = stack
    BY DEF cache, calls
  <1>3. Trusted(T, Future', objects, loaded, stack)
    <2> DEFINE before == Future
               after == Future'
    <2>1. \A m \in before : Covered(m, after)
      BY DEF Covered
    <2>2. Trusted(T, before, objects, loaded, stack)
      BY <1>1
    <2> HIDE DEF before, after
    <2>3. Trusted(T, after, objects, loaded, stack)
      BY <2>1, <2>2, FutureShrinks, Zenon
    <2> QED
      BY <2>3 DEF after
  <1>4. CallsInv(catalog'.entries, objects', stack')
    BY <1>2, NoCalls
  <1>5. HeapInv(objects', loaded', held')
    BY <1>2 DEF CacheInv
  <1>6. stack' = <<>>
    BY <1>2
  <1>7. \E U \in SUBSET DOMAIN objects' : Trusted(U, Future', objects', loaded', stack')
    BY <1>2, <1>3
  <1> QED
    BY <1>4, <1>5, <1>6, <1>7, Zenon DEF CacheInv

\* A step after which nothing is known that was not known before, but for
\* what it does not know any more.
LEMMA SidecarsKept ==
  ASSUME BaseInv, plans' = plans, sources' \subseteq Files, sidecars' = [s \in Files |-> sidecars'[s]],
         Expanded(Files)' \subseteq Expanded(Files), work'.orphans \subseteq Planned \cup work.orphans,
         \A orphan \in work'.orphans : \A m \in Future' : m.handle # orphan.handle,
         \A m \in Future' : m.handle \notin EngineAssets => m \in UserKnown
  PROVE  SidecarsInv'
  <1>1. Planned' = Planned
    BY DEF Planned
  <1>2. UserKnown' \subseteq UserKnown
    BY <1>1 DEF UserKnown
  <1>3. \A m \in Planned : m.source \in Files
    BY DEF BaseInv, SidecarsInv, WellFormed, Planned, UserMetadata
  <1>4. UserMetadata(Expanded(Files)')
    BY DEF BaseInv, SidecarsInv, UserMetadata
  <1>5. \A taken \in plans' :
          UserMetadata(taken.accepted \cup taken.orphans) /\ taken.accepted \cap taken.orphans = {}
    BY DEF BaseInv, SidecarsInv
  <1>6. \A m \in Planned' : WellFormed(m)
    BY <1>1 DEF BaseInv, SidecarsInv
  <1>7. \A orphan \in work'.orphans :
          orphan.source \in Files /\ \A m \in Future' : m.handle # orphan.handle
    BY <1>3 DEF BaseInv, SidecarsInv
  <1>8. \A m, n \in UserKnown' : m.handle = n.handle => SameIdentity(m, n)
    BY <1>2 DEF BaseInv, SidecarsInv
  <1> QED
    BY <1>4, <1>5, <1>6, <1>7, <1>8, Zenon DEF SidecarsInv

\* The catalog is what it was to be.
LEMMA SidecarsOnly ==
  ASSUME BaseInv, plans' = plans, sources' \subseteq Files, sidecars' = [s \in Files |-> sidecars'[s]],
         Expanded(Files)' \subseteq Expanded(Files), Future' = Future,
         work'.orphans \subseteq work.orphans
  PROVE  SidecarsInv'
  <1>1. \A orphan \in work'.orphans : \A m \in Future' : m.handle # orphan.handle
    BY DEF BaseInv, SidecarsInv
  <1>2. \A m \in Future' : m.handle \notin EngineAssets => m \in UserKnown
    BY DEF UserKnown
  <1> QED
    BY <1>1, <1>2, SidecarsKept

LEMMA FilesUntouched ==
  ASSUME BaseInv, UNCHANGED <<plans, sources, sidecars>>, Future' = Future,
         work'.orphans \subseteq work.orphans
  PROVE  SidecarsInv'
  <1>1. Expanded(Files)' = Expanded(Files)
    BY DEF Expanded
  <1>2. sources' \subseteq Files /\ sidecars' = [s \in Files |-> sidecars'[s]]
    BY DEF BaseInv, SidecarsInv
  <1> QED
    BY <1>1, <1>2, SidecarsOnly

LEMMA EraseNextStep ==
  ASSUME BaseInv, CacheInv, EraseNext
  PROVE  EntriesInv' /\ SidecarsInv' /\ CacheInv'
  <1>1. PICK h \in work.erase :
          catalog' = Erase(catalog, h) /\ work' = Rest([work EXCEPT !.erase = @ \ {h}])
    BY DEF EraseNext
  <1>2. UNCHANGED <<mode, files, plans, cache, calls>> /\ work # NoWork
    BY DEF EraseNext, NoWork
  <1>3. /\ DOMAIN catalog'.entries = DOMAIN catalog.entries \ {h}
        /\ \A k \in DOMAIN catalog.entries \ {h} : catalog'.entries[k] = catalog.entries[k]
    BY <1>1, EraseEffect DEF BaseInv
  <1>4. /\ work'.erase = work.erase \ {h} /\ work'.insert = work.insert
        /\ work'.orphans = work.orphans /\ (work.insert # {} => work'.origin = work.origin)
        /\ Shaped(work')
    <2>1. work' = Rest([erase |-> work.erase \ {h}, insert |-> work.insert,
                        origin |-> work.origin, orphans |-> work.orphans])
      BY <1>1, WorkLeft DEF BaseInv, EntriesInv, Shaped
    <2> QED
      BY <2>1, RestIs
  <1>5. \A k \in DOMAIN catalog'.entries : MetadataOf(k)' = MetadataOf(k)
    BY <1>3 DEF MetadataOf
  <1>6. Future' = Future
    BY <1>3, <1>4, <1>5 DEF Future
  <1>7. EntriesInv'
    BY <1>3, <1>4, <1>5 DEF BaseInv, EntriesInv, WellFormed, Shaped
  <1>8. SidecarsInv'
    BY <1>2, <1>4, <1>6, FilesUntouched DEF files
  <1>9. stack = <<>>
    BY <1>2 DEF CacheInv
  <1>10. CacheInv'
    BY <1>2, <1>6, <1>9, CacheUntouched
  <1> QED
    BY <1>7, <1>8, <1>10

LEMMA InsertNextStep ==
  ASSUME BaseInv, CacheInv, InsertNext
  PROVE  EntriesInv' /\ SidecarsInv' /\ CacheInv'
  <1>1. PICK m \in work.insert :
          /\ catalog' = Insert(catalog, m, work.origin)
          /\ work' = Rest([work EXCEPT !.insert = @ \ {m}])
    BY DEF InsertNext
  <1>2. UNCHANGED <<mode, files, plans, cache, calls>> /\ work # NoWork /\ work.erase = {}
    BY DEF InsertNext, NoWork
  <1>3. /\ WellFormed(m) /\ (work.origin = "User" <=> m.handle \notin EngineAssets)
        /\ \A n \in work.insert : n.handle = m.handle => n = m
        /\ m.handle \in DOMAIN catalog.entries => SameIdentity(catalog.entries[m.handle], m)
    BY <1>2 DEF BaseInv, EntriesInv
  <1>4. /\ DOMAIN catalog'.entries = DOMAIN catalog.entries \cup {m.handle}
        /\ catalog'.entries[m.handle] = Entry(m, work.origin)
        /\ \A k \in DOMAIN catalog.entries \ {m.handle} : catalog'.entries[k] = catalog.entries[k]
    BY <1>1, <1>3, InsertEffect DEF BaseInv
  <1>5. /\ work'.erase = {} /\ work'.insert = work.insert \ {m}
        /\ work'.orphans = work.orphans /\ (work'.insert # {} => work'.origin = work.origin)
        /\ Shaped(work')
    <2>1. work' = Rest([erase |-> work.erase, insert |-> work.insert \ {m},
                        origin |-> work.origin, orphans |-> work.orphans])
      BY <1>1, WorkLeft DEF BaseInv, EntriesInv, Shaped
    <2> QED
      BY <1>2, <2>1, RestIs
  <1>6. MetadataOf(m.handle)' = m /\ catalog'.entries[m.handle].origin = work.origin
    BY <1>3, <1>4 DEF MetadataOf, Metadata, Entry, WellFormed
  <1>7. \A k \in DOMAIN catalog.entries \ {m.handle} : MetadataOf(k)' = MetadataOf(k)
    BY <1>4 DEF MetadataOf
  <1>8. Future' = Future
    <2>1. ASSUME NEW x \in Future
          PROVE  x \in Future'
      <3>1. CASE x = m
        BY <1>3, <1>4, <1>5, <1>6, <3>1 DEF Future
      <3>2. CASE x # m /\ x \in work.insert
        BY <1>5, <3>2 DEF Future
      <3>3. CASE x \notin work.insert
        <4>1. PICK k \in DOMAIN catalog.entries \ {n.handle : n \in work.insert} : x = MetadataOf(k)
          BY <1>2, <3>3 DEF Future
        <4>2. k # m.handle /\ k \notin {n.handle : n \in work'.insert}
          BY <1>5, <4>1
        <4> QED
          BY <1>4, <1>5, <1>7, <4>1, <4>2 DEF Future
      <3> QED
        BY <3>1, <3>2, <3>3
    <2>2. ASSUME NEW x \in Future'
          PROVE  x \in Future
      <3>1. CASE x \in work'.insert
        BY <1>5, <3>1 DEF Future
      <3>2. CASE x \notin work'.insert
        <4>1. PICK k \in DOMAIN catalog'.entries \ {n.handle : n \in work'.insert} : x = MetadataOf(k)'
          BY <1>5, <3>2 DEF Future
        <4>2. CASE k = m.handle
          BY <1>6, <4>1, <4>2 DEF Future
        <4>3. CASE k # m.handle
          <5>1. k \in DOMAIN catalog.entries /\ k \notin {n.handle : n \in work.insert} /\ x = MetadataOf(k)
            BY <1>4, <1>5, <1>7, <4>1, <4>3
          <5> QED
            BY <1>2, <5>1 DEF Future
        <4> QED
          BY <4>2, <4>3
      <3> QED
        BY <3>1, <3>2
    <2> QED
      BY <2>1, <2>2
  <1>9. EntriesInv'
    <2>1. ASSUME NEW h \in DOMAIN catalog'.entries
          PROVE  /\ WellFormed(MetadataOf(h)')
                 /\ catalog'.entries[h].origin = "User" <=> h \notin EngineAssets
      <3>1. CASE h = m.handle
        BY <1>3, <1>6, <3>1
      <3>2. CASE h # m.handle
        BY <1>4, <1>7, <3>2 DEF BaseInv, EntriesInv
      <3> QED
        BY <3>1, <3>2
    <2>2. ASSUME NEW n \in work'.insert
          PROVE  /\ WellFormed(n) /\ (work'.origin = "User" <=> n.handle \notin EngineAssets)
                 /\ \A k \in work'.insert : k.handle = n.handle => k = n
                 /\ n.handle \in DOMAIN catalog'.entries \ work'.erase =>
                      SameIdentity(catalog'.entries[n.handle], n)
      <3>1. n \in work.insert /\ n # m /\ n.handle # m.handle /\ work'.origin = work.origin
        BY <1>3, <1>5
      <3>2. /\ WellFormed(n) /\ (work.origin = "User" <=> n.handle \notin EngineAssets)
            /\ \A k \in work.insert : k.handle = n.handle => k = n
            /\ n.handle \in DOMAIN catalog.entries => SameIdentity(catalog.entries[n.handle], n)
        BY <1>2, <3>1 DEF BaseInv, EntriesInv
      <3> QED
        BY <1>4, <1>5, <3>1, <3>2
    <2> QED
      BY <1>5, <2>1, <2>2 DEF EntriesInv, WellFormed, Shaped
  <1>10. SidecarsInv'
    BY <1>2, <1>5, <1>8, FilesUntouched DEF files
  <1>11. stack = <<>>
    BY <1>2 DEF CacheInv
  <1>12. CacheInv'
    BY <1>2, <1>8, <1>11, CacheUntouched
  <1> QED
    BY <1>9, <1>10, <1>12

\* A step that only unloads, while no load is under way.
LEMMA OnlyUnloads ==
  ASSUME CacheInv, stack = <<>>, UNCHANGED <<objects, held, calls>>,
         NEW S \in SUBSET DOMAIN loaded, loaded' = Restrict(loaded, S),
         Future' = Future
  PROVE  CacheInv'
  <1>1. PICK T \in SUBSET DOMAIN objects : Trusted(T, Future, objects, loaded, stack)
    BY DEF CacheInv
  <1>2. objects' = objects /\ held' = held /\ stack' = <<>>
    BY DEF calls
  <1>3. HeapInv(objects, loaded, held)
    BY DEF CacheInv
  <1>4. HeapInv(objects, Restrict(loaded, S), held)
    BY <1>3, CacheShrinks
  <1>5. Trusted(T, Future, objects, Restrict(loaded, S), stack)
    BY <1>1, <1>3, CacheShrinks, Zenon
  <1>6. \E U \in SUBSET DOMAIN objects' : Trusted(U, Future', objects', loaded', stack')
    BY <1>2, <1>5
  <1>7. CallsInv(catalog'.entries, objects', stack')
    BY <1>2, NoCalls
  <1>8. HeapInv(objects', loaded', held')
    BY <1>2, <1>4
  <1> QED
    BY <1>2, <1>6, <1>7, <1>8, Zenon DEF CacheInv

LEMMA ForgetOrphanStep ==
  ASSUME BaseInv, CacheInv, ForgetOrphan
  PROVE  EntriesInv' /\ SidecarsInv' /\ CacheInv'
  <1>1. PICK orphan \in work.orphans :
          /\ loaded' = Unloaded({orphan.handle})
          /\ catalog' = Erase(catalog, orphan.handle)
          /\ sidecars' = [sidecars EXCEPT ![orphan.source] = {}]
          /\ work' = Rest([work EXCEPT !.orphans = @ \ {orphan}])
    BY DEF ForgetOrphan
  <1> DEFINE h == orphan.handle
  <1>2. /\ UNCHANGED <<mode, sources, changes, plans, objects, held, calls>> /\ work # NoWork
        /\ work.erase = {} /\ work.insert = {}
    BY DEF ForgetOrphan, NoWork
  <1>3. /\ DOMAIN catalog'.entries = DOMAIN catalog.entries \ {h}
        /\ \A k \in DOMAIN catalog.entries \ {h} : catalog'.entries[k] = catalog.entries[k]
    BY <1>1, EraseEffect DEF BaseInv
  <1>4. work'.erase = {} /\ work'.insert = {} /\ work'.orphans = work.orphans \ {orphan} /\ Shaped(work')
    <2>1. work' = Rest([erase |-> {}, insert |-> {},
                        origin |-> work.origin, orphans |-> work.orphans \ {orphan}])
      BY <1>1, <1>2, WorkLeft DEF BaseInv, EntriesInv, Shaped
    <2> QED
      BY <2>1, RestIs
  <1>5. \A k \in DOMAIN catalog'.entries : MetadataOf(k)' = MetadataOf(k)
    BY <1>3 DEF MetadataOf
  <1>6. /\ Future = {MetadataOf(k) : k \in DOMAIN catalog.entries}
        /\ Future' = {MetadataOf(k) : k \in DOMAIN catalog.entries \ {h}}
    BY <1>2, <1>3, <1>4, <1>5 DEF Future
  <1>7. orphan.source \in Files /\ h \notin DOMAIN catalog.entries
    <2>1. orphan.source \in Files /\ \A m \in Future : m.handle # h
      BY DEF BaseInv, SidecarsInv
    <2> QED
      BY <1>6, <2>1, MetadataHandle DEF BaseInv
  <1>8. Future' = Future
    BY <1>6, <1>7
  <1>9. sidecars' = [s \in Files |-> IF s = orphan.source THEN {} ELSE sidecars[s]]
    BY <1>1, <1>7 DEF BaseInv, SidecarsInv
  <1>10. EntriesInv'
    BY <1>3, <1>4, <1>5 DEF BaseInv, EntriesInv, WellFormed, Shaped
  <1>11. SidecarsInv'
    <2>1. sources' \subseteq Files /\ sidecars' = [s \in Files |-> sidecars'[s]]
      BY <1>2, <1>9 DEF BaseInv, SidecarsInv
    <2>2. Expanded(Files)' \subseteq Expanded(Files)
      BY <1>9 DEF Expanded, ExpandedOf
    <2> QED
      BY <1>2, <1>4, <1>8, <2>1, <2>2, SidecarsOnly
  <1>12. CacheInv'
    <2>1. stack = <<>>
      BY <1>2 DEF CacheInv
    <2>2. PICK S \in SUBSET DOMAIN loaded : loaded' = Restrict(loaded, S)
      BY <1>1 DEF Unloaded
    <2> QED
      BY <1>2, <1>8, <2>1, <2>2, OnlyUnloads
  <1> QED
    BY <1>10, <1>11, <1>12

\* The catalog is all there is when the application calls the manager.
LEMMA IdleCatalog ==
  ASSUME BaseInv, Callable
  PROVE  /\ stack = <<>> /\ work = NoWork /\ work.orphans = {}
         /\ Future = {MetadataOf(k) : k \in DOMAIN catalog.entries}
         /\ \A m \in Future : /\ m.handle \in DOMAIN catalog.entries /\ m = MetadataOf(m.handle)
                              /\ WellFormed(m)
         /\ \A k \in DOMAIN catalog.entries : MetadataOf(k) \in Future /\ MetadataOf(k).handle = k
         /\ \A m, n \in Future : m.handle = n.handle => m = n
  <1>1. stack = <<>> /\ work = NoWork /\ work.orphans = {}
    BY DEF Callable, NoWork
  <1>2. Future = {MetadataOf(k) : k \in DOMAIN catalog.entries}
    BY <1>1, IdleFuture
  <1>3. \A k \in DOMAIN catalog.entries : MetadataOf(k).handle = k /\ WellFormed(MetadataOf(k))
    BY MetadataHandle DEF BaseInv, EntriesInv
  <1> QED
    BY <1>1, <1>2, <1>3

LEMMA ExpandedWellFormed ==
  ASSUME BaseInv
  PROVE  \A m \in Expanded(Files) : WellFormed(m) /\ m.handle \notin EngineAssets
  <1> SUFFICES ASSUME NEW m \in Expanded(Files)
               PROVE  WellFormed(m) /\ m.handle \notin EngineAssets
    OBVIOUS
  <1>1. PICK s \in Files : \E r \in sidecars[s] : m = Metadata(s, r)
    BY DEF Expanded, ExpandedOf
  <1>2. m.source = s /\ m = Metadata(m.source, m) /\ s \in Sources
    BY <1>1 DEF Metadata, Files
  <1> QED
    BY <1>2 DEF WellFormed, BaseInv, SidecarsInv, UserMetadata

LEMMA TakePlanStep ==
  ASSUME BaseInv, CacheInv, TakePlan
  PROVE  EntriesInv' /\ SidecarsInv' /\ CacheInv'
  <1> DEFINE taken == [accepted |-> Expanded(sources), orphans |-> Expanded(Files \ sources)]
  <1>1. Callable /\ plans' = {taken} /\ UNCHANGED <<mode, catalog, work, files, cache, calls>>
    BY DEF TakePlan
  <1>2. Future' = Future /\ EntriesInv'
    BY <1>1 DEF Future, MetadataOf, EntriesInv, WellFormed, BaseInv
  <1>3. Expanded(Files)' = Expanded(Files) /\ sidecars' = sidecars /\ sources' = sources
    BY <1>1 DEF files, Expanded
  <1>4. /\ Expanded(sources) \subseteq Expanded(Files)
        /\ Expanded(Files \ sources) \subseteq Expanded(Files)
        /\ \A m \in Expanded(sources) : m.source \in sources
        /\ \A m \in Expanded(Files \ sources) : m.source \notin sources
    BY DEF Expanded, ExpandedOf, Metadata, BaseInv, SidecarsInv
  <1>5. Planned' \subseteq Expanded(Files)
    <2>1. Planned' = UNION {p.accepted \cup p.orphans : p \in {taken}}
      BY <1>1 DEF Planned
    <2>2. taken.accepted \subseteq Expanded(Files) /\ taken.orphans \subseteq Expanded(Files)
      BY <1>4
    <2> HIDE DEF taken
    <2> QED
      BY <2>1, <2>2
  <1>6. SidecarsInv'
    <2>1. UserMetadata(taken.accepted \cup taken.orphans) /\ taken.accepted \cap taken.orphans = {}
      BY <1>4 DEF BaseInv, SidecarsInv, UserMetadata
    <2>2. \A m \in Planned' : WellFormed(m)
      BY <1>5, ExpandedWellFormed
    <2>3. UserKnown' \subseteq UserKnown
      BY <1>1, <1>2, <1>3, <1>5 DEF UserKnown
    <2>4. \A m, n \in UserKnown' : m.handle = n.handle => SameIdentity(m, n)
      BY <2>3 DEF BaseInv, SidecarsInv
    <2>5. \A orphan \in work'.orphans :
            orphan.source \in Files /\ \A m \in Future' : m.handle # orphan.handle
      BY <1>1, <1>2 DEF BaseInv, SidecarsInv
    <2>6. \A p \in plans' :
            UserMetadata(p.accepted \cup p.orphans) /\ p.accepted \cap p.orphans = {}
      BY <1>1, <2>1
    <2>7. /\ sources' \subseteq Files /\ sidecars' = [s \in Files |-> sidecars'[s]]
          /\ UserMetadata(Expanded(Files)')
      BY <1>3 DEF BaseInv, SidecarsInv
    <2> QED
      BY <2>2, <2>4, <2>5, <2>6, <2>7, Zenon DEF SidecarsInv
  <1>7. CacheInv'
    BY <1>1, <1>2, IdleCatalog, CacheUntouched
  <1> QED
    BY <1>2, <1>6, <1>7

\* The plan may be older than the sidecars: what the rebuilt catalog lacks is
\* adrift.
LEMMA ApplyReconcileStep ==
  ASSUME BaseInv, CacheInv, NEW taken \in plans, ApplyReconcile(taken)
  PROVE  EntriesInv' /\ SidecarsInv' /\ CacheInv'
  <1> DEFINE users == EntriesWithOrigin(catalog, "User")
             severed == Severed(users, taken.accepted)
             entries == catalog.entries
  <1>1. /\ Callable /\ UNCHANGED <<mode, catalog, files, plans, loaded, held, calls>>
        /\ objects' = Adrift(objects, severed)
    BY DEF ApplyReconcile
  <1>2. /\ work'.erase = users /\ work'.insert = taken.accepted /\ work'.orphans = taken.orphans
        /\ work'.insert # {} => work'.origin = "User"
        /\ Shaped(work')
    <2>1. work' = Rest([erase |-> users, insert |-> taken.accepted, origin |-> "User",
                        orphans |-> taken.orphans])
      BY DEF ApplyReconcile
    <2> QED
      BY <2>1, RestIs
  <1>3. catalog' = catalog /\ \A k : MetadataOf(k)' = MetadataOf(k)
    BY <1>1 DEF MetadataOf
  <1>4. \A k \in DOMAIN entries : k \in users <=> k \notin EngineAssets
    BY DEF EntriesWithOrigin, BaseInv, EntriesInv
  <1>5. users \subseteq DOMAIN entries
    BY DEF EntriesWithOrigin
  <1>6. /\ stack = <<>> /\ \A m \in Future : m.handle \in DOMAIN entries /\ m = MetadataOf(m.handle)
        /\ \A k \in DOMAIN entries : /\ MetadataOf(k) \in Future /\ MetadataOf(k).handle = k
                                      /\ DependsOn(MetadataOf(k)) = DependsOn(entries[k])
    BY <1>1, IdleCatalog, MetadataHandle DEF BaseInv, DependsOn
  <1>7. /\ taken.accepted \subseteq Planned /\ taken.orphans \subseteq Planned
        /\ taken.accepted \cap taken.orphans = {}
        /\ \A m \in taken.accepted \cup taken.orphans :
             /\ WellFormed(m) /\ m.handle \notin EngineAssets
             /\ \A n \in taken.accepted \cup taken.orphans : n.handle = m.handle => n = m
    BY DEF BaseInv, SidecarsInv, UserMetadata, Planned
  <1> HIDE DEF users
  <1>8. Future' = taken.accepted
          \cup {MetadataOf(k) : k \in DOMAIN entries \ (users \cup {m.handle : m \in taken.accepted})}
    BY <1>2, <1>3 DEF Future
  <1>9. \A m \in Future : m.handle \notin users => m \in Future'
    <2> SUFFICES ASSUME NEW m \in Future, m.handle \notin users
                 PROVE  m \in Future'
      OBVIOUS
    <2>1. m.handle \in DOMAIN entries /\ m = MetadataOf(m.handle)
      BY <1>6
    <2>2. m.handle \in EngineAssets
      BY <1>4, <2>1
    <2>3. m.handle \notin {n.handle : n \in taken.accepted}
      BY <1>7, <2>2
    <2> QED
      BY <1>8, <2>1, <2>3
  <1>10. \A m \in Future' \ taken.accepted : m \in Future /\ m.handle \in EngineAssets
    <2> SUFFICES ASSUME NEW m \in Future', m \notin taken.accepted
                 PROVE  m \in Future /\ m.handle \in EngineAssets
      OBVIOUS
    <2>1. PICK k \in DOMAIN entries \ users : m = MetadataOf(k)
      BY <1>8
    <2> QED
      BY <1>4, <1>6, <2>1
  <1>11. EntriesInv'
    <2>1. ASSUME NEW m \in work'.insert
          PROVE  /\ WellFormed(m) /\ (work'.origin = "User" <=> m.handle \notin EngineAssets)
                 /\ \A n \in work'.insert : n.handle = m.handle => n = m
                 /\ m.handle \notin DOMAIN entries \ users
      BY <1>2, <1>4, <1>7
    <2>2. \A k \in DOMAIN entries :
            WellFormed(MetadataOf(k)) /\ (entries[k].origin = "User" <=> k \notin EngineAssets)
      BY DEF BaseInv, EntriesInv
    <2> QED
      BY <1>2, <1>3, <2>1, <2>2 DEF EntriesInv, WellFormed, Shaped
  <1>12. SidecarsInv'
    <2>1. Expanded(Files)' = Expanded(Files) /\ sidecars' = sidecars /\ sources' = sources
      BY <1>1 DEF files, Expanded
    <2>2. \A orphan \in work'.orphans : \A m \in Future' : m.handle # orphan.handle
      BY <1>2, <1>7, <1>10
    <2>3. \A m \in Future' : m.handle \notin EngineAssets => m \in UserKnown
      BY <1>7, <1>10 DEF UserKnown
    <2>4. sources' \subseteq Files /\ sidecars' = [s \in Files |-> sidecars'[s]]
      BY <2>1 DEF BaseInv, SidecarsInv
    <2> QED
      BY <1>1, <1>2, <1>7, <2>1, <2>2, <2>3, <2>4, SidecarsKept
  <1>13. CacheInv'
    <2>1. PICK T \in SUBSET DOMAIN objects : Trusted(T, Future, objects, loaded, stack)
      BY DEF CacheInv
    <2> DEFINE before == Future
               after == Future'
               objs == Adrift(objects, severed)
    <2>2. ASSUME NEW o \in T
          PROVE  objs[o].adrift \/ \A m \in before : m.handle = o[1] => Covered(m, after)
      <3>1. objs[o].adrift \/ o[1] \notin severed
        BY AdriftTrust
      <3>2. ASSUME o[1] \notin severed, NEW m \in Future, m.handle = o[1]
            PROVE  Covered(m, Future')
        <4>1. CASE m.handle \notin users
          BY <1>9, <3>2, <4>1 DEF Covered
        <4>2. CASE m.handle \in users
          <5>1. m.handle \in DOMAIN entries /\ DependsOn(m) = DependsOn(entries[m.handle])
            BY <1>6, <3>2
          <5>2. PICK n \in taken.accepted :
                  n.handle = m.handle /\ DependsOn(entries[m.handle]) \subseteq DependsOn(n)
            BY <3>2, <4>2, <5>1 DEF Severed
          <5> QED
            BY <1>8, <5>1, <5>2 DEF Covered
        <4> QED
          BY <4>1, <4>2
      <3> HIDE DEF severed, objs
      <3> QED
        BY <3>1, <3>2
    <2>3. /\ Trusted(T, before, objs, loaded, stack)
          /\ HeapInv(objs, loaded, held) /\ DOMAIN objs = DOMAIN objects
      <3>1. HeapInv(objects, loaded, held)
        BY DEF CacheInv
      <3> HIDE DEF severed
      <3> QED
        BY <2>1, <3>1, AdriftTrust, Zenon
    <2>4. objects' = objs /\ loaded' = loaded /\ held' = held /\ stack' = <<>> /\ stack = <<>>
      BY <1>1, <1>6 DEF calls
    <2> HIDE DEF before, after, objs, severed
    <2>5. Trusted(T, after, objs, loaded, stack)
      BY <2>2, <2>3, FutureShrinks, Zenon
    <2>6. \E U \in SUBSET DOMAIN objects' : Trusted(U, Future', objects', loaded', stack')
      BY <2>3, <2>4, <2>5 DEF after
    <2>7. CallsInv(catalog'.entries, objects', stack')
      BY <2>4, NoCalls
    <2>8. HeapInv(objects', loaded', held')
      BY <2>3, <2>4
    <2> QED
      BY <2>4, <2>6, <2>7, <2>8, Zenon DEF CacheInv
  <1> QED
    BY <1>11, <1>12, <1>13

\* The other steps that leave the cache alone.
LEMMA SmallSteps ==
  ASSUME BaseInv, CacheInv,
         \/ \E s \in Files : DeleteSource(s) \/ DeleteSidecar(s)
         \/ \E h \in Handles : Unload(h) \/ UnloadWithDependents(h)
  PROVE  EntriesInv' /\ SidecarsInv' /\ CacheInv'
  <1>1. Callable /\ UNCHANGED <<mode, catalog, work, plans, objects, held, calls>>
    BY DEF DeleteSource, DeleteSidecar, Unload, UnloadWithDependents, cache
  <1>2. Future' = Future /\ EntriesInv'
    BY <1>1 DEF Future, MetadataOf, EntriesInv, WellFormed, BaseInv
  <1>3. stack = <<>>
    BY <1>1, IdleCatalog
  <1>4. CASE \E s \in Files : DeleteSource(s) \/ DeleteSidecar(s)
    <2>1. UNCHANGED <<cache, calls>>
      BY <1>4 DEF DeleteSource, DeleteSidecar
    <2>2. CacheInv'
      BY <1>2, <1>3, <2>1, CacheUntouched
    <2>3. CASE \E s \in Files : DeleteSource(s)
      <3>1. sources' \subseteq Files /\ Expanded(Files)' = Expanded(Files) /\ sidecars' = sidecars
        BY <2>3 DEF DeleteSource, BaseInv, SidecarsInv, Expanded
      <3>2. SidecarsInv'
        BY <1>1, <1>2, <3>1, SidecarsOnly DEF BaseInv, SidecarsInv
      <3> QED
        BY <1>2, <2>2, <3>2
    <2>4. CASE \E s \in Files : DeleteSidecar(s)
      <3>1. PICK s \in Files : sidecars' = [sidecars EXCEPT ![s] = {}] /\ sources' = sources
        BY <2>4 DEF DeleteSidecar
      <3>2. sidecars' = [t \in Files |-> IF t = s THEN {} ELSE sidecars[t]]
        BY <3>1 DEF BaseInv, SidecarsInv
      <3>3. Expanded(Files)' \subseteq Expanded(Files) /\ sidecars' = [t \in Files |-> sidecars'[t]]
        BY <3>2 DEF Expanded, ExpandedOf
      <3>4. SidecarsInv'
        BY <1>1, <1>2, <3>1, <3>3, SidecarsOnly DEF BaseInv, SidecarsInv
      <3> QED
        BY <1>2, <2>2, <3>4
    <2> QED
      BY <1>4, <2>3, <2>4
  <1>5. CASE \E h \in Handles : Unload(h) \/ UnloadWithDependents(h)
    <2>1. UNCHANGED files
      BY <1>5 DEF Unload, UnloadWithDependents
    <2>2. SidecarsInv'
      BY <1>1, <1>2, <2>1, FilesUntouched DEF files
    <2>3. PICK S \in SUBSET DOMAIN loaded : loaded' = Restrict(loaded, S)
      BY <1>5 DEF Unload, UnloadWithDependents, Unloaded
    <2>4. CacheInv'
      BY <1>1, <1>2, <1>3, <2>3, OnlyUnloads
    <2> QED
      BY <1>2, <2>2, <2>4
  <1> QED
    BY <1>4, <1>5

LEMMA RegisterStep ==
  ASSUME BaseInv, CacheInv, NEW h \in EngineAssets, RegisterEngineAsset(h)
  PROVE  EntriesInv' /\ SidecarsInv' /\ CacheInv'
  <1> DEFINE m == [handle |-> h, source |-> EngineSource[h], local |-> "", dependencies |-> <<>>]
  <1>1. /\ Callable /\ h \notin DOMAIN catalog.entries
        /\ UNCHANGED <<mode, catalog, sources, sidecars, changes, plans, cache, calls>>
        /\ work' = [NoWork EXCEPT !.origin = "Engine", !.insert = {m}]
    BY DEF RegisterEngineAsset
  <1>2. WellFormed(m) /\ m.handle = h
    <2>1. EngineSource[h] \in Range(EngineSource) /\ h \in Handles /\ EngineSource[h] \in Sources
      BY DatabaseAssumption DEF EngineAssets, Range
    <2>2. EngineSource[h] \notin Files
      BY <2>1 DEF Files
    <2> QED
      BY <2>1, <2>2 DEF WellFormed, Metadata
  <1> HIDE DEF m
  <1>3. /\ work'.erase = {} /\ work'.insert = {m} /\ work'.orphans = {} /\ work'.origin = "Engine"
        /\ Shaped(work')
    BY <1>1 DEF NoWork, Shaped
  <1>4. catalog' = catalog /\ \A k : MetadataOf(k)' = MetadataOf(k)
    BY <1>1 DEF MetadataOf
  <1>5. Future' = Future \cup {m}
    <2>1. Future' = {m} \cup {MetadataOf(k) : k \in DOMAIN catalog.entries \ {h}}
      BY <1>2, <1>3, <1>4 DEF Future
    <2>2. Future = {MetadataOf(k) : k \in DOMAIN catalog.entries}
      BY <1>1, IdleCatalog
    <2> QED
      BY <1>1, <2>1, <2>2
  <1>6. EntriesInv'
    <2>1. \A k \in DOMAIN catalog.entries :
            WellFormed(MetadataOf(k)) /\ (catalog.entries[k].origin = "User" <=> k \notin EngineAssets)
      BY DEF BaseInv, EntriesInv
    <2> QED
      BY <1>1, <1>2, <1>3, <1>4, <2>1 DEF EntriesInv, WellFormed, Shaped
  <1>7. SidecarsInv'
    <2>1. Expanded(Files)' = Expanded(Files)
      BY <1>1 DEF Expanded
    <2>2. \A n \in Future' : n.handle \notin EngineAssets => n \in UserKnown
      BY <1>2, <1>5 DEF UserKnown
    <2>3. sources' \subseteq Files /\ sidecars' = [s \in Files |-> sidecars'[s]]
      BY <1>1 DEF BaseInv, SidecarsInv
    <2> QED
      BY <1>1, <1>3, <2>1, <2>2, <2>3, SidecarsKept
  <1>8. CacheInv'
    <2>1. stack = <<>> /\ UNCHANGED <<cache, calls>>
      BY <1>1, IdleCatalog
    <2> QED
      BY <1>5, <2>1, CacheUntouched
  <1> QED
    BY <1>6, <1>7, <1>8

\* open, openPackaged and close empty the cache; nothing is trusted then.
LEMMA ClosedCache ==
  ASSUME CacheInv, Callable, Closed
  PROVE  CacheInv' /\ catalog' = EmptyCatalog
  <1>1. Keep(objects, NoneLoaded, held, <<>>) /\ stack' = stack /\ stack = <<>> /\ catalog' = EmptyCatalog
    BY DEF Closed, Callable
  <1>2. HeapInv(objects, NoneLoaded, held)
    BY DEF CacheInv, HeapInv, NoneLoaded
  <1>3. CallsInv(catalog'.entries, objects, <<>>)
    BY NoCalls
  <1>4. Trusted({}, Future', objects, NoneLoaded, <<>>)
    <2>1. Range(NoneLoaded) = {} /\ DOMAIN <<>> = {}
      BY DEF Range, NoneLoaded
    <2> QED
      BY <2>1 DEF Trusted
  <1> DEFINE entries == catalog'.entries
             after == Future'
  <1> HIDE DEF entries, after
  <1>5. /\ HeapInv(objects', loaded', held')
        /\ CallsInv(entries, objects', <<>>)
        /\ \A T, future : Trusted(T, future, objects, NoneLoaded, <<>>) =>
             \E U \in SUBSET DOMAIN objects' : Trusted(U, future, objects', loaded', <<>>)
    BY <1>1, <1>2, <1>3, KeepStep, Zenon DEF entries
  <1>6. \E U \in SUBSET DOMAIN objects' : Trusted(U, after, objects', loaded', <<>>)
    BY <1>4, <1>5, Zenon DEF after
  <1>7. stack' = <<>>
    BY <1>1
  <1> QED
    BY <1>1, <1>5, <1>6, <1>7, Zenon DEF CacheInv, entries, after

LEMMA OpenStep ==
  ASSUME BaseInv, CacheInv, Open \/ OpenPackaged \/ Close
  PROVE  EntriesInv' /\ SidecarsInv' /\ CacheInv'
  <1>1. Callable /\ Closed /\ UNCHANGED <<files, plans>>
    BY DEF Open, OpenPackaged, Close, Closed
  <1>2. CacheInv' /\ catalog' = EmptyCatalog
    BY <1>1, ClosedCache
  <1>3. DOMAIN catalog'.entries = {}
    BY <1>2 DEF EmptyCatalog
  <1>4. Expanded(Files)' = Expanded(Files) /\ sidecars' = sidecars /\ sources' = sources
    BY <1>1 DEF files, Expanded
  <1>5. ASSUME NEW inserted, work' = Rest([NoWork EXCEPT !.insert = inserted]),
               \A m \in inserted : WellFormed(m) /\ m.handle \notin EngineAssets,
               \A m, n \in inserted : m.handle = n.handle => m = n
        PROVE  EntriesInv' /\ Future' = inserted /\ work'.orphans = {}
    <2>1. /\ work'.erase = {} /\ work'.insert = inserted /\ work'.orphans = {}
          /\ (inserted # {} => work'.origin = "User") /\ Shaped(work')
      <3>1. [NoWork EXCEPT !.insert = inserted]
              = [erase |-> {}, insert |-> inserted, origin |-> "User", orphans |-> {}]
        BY DEF NoWork
      <3> QED
        BY <1>5, <3>1, RestIs
    <2> QED
      BY <1>3, <1>5, <2>1 DEF EntriesInv, Future, Shaped, WellFormed
  <1>6. sources' \subseteq Files /\ sidecars' = [s \in Files |-> sidecars'[s]]
    BY <1>4 DEF BaseInv, SidecarsInv
  <1>7. CASE Open
    <2>1. work' = Rest([NoWork EXCEPT !.insert = Expanded(Files)])
      BY <1>7 DEF Open
    <2>2. \A m \in Expanded(Files) : WellFormed(m) /\ m.handle \notin EngineAssets
      BY ExpandedWellFormed
    <2>3. \A m, n \in Expanded(Files) : m.handle = n.handle => m = n
      BY DEF BaseInv, SidecarsInv, UserMetadata
    <2>4. EntriesInv' /\ Future' = Expanded(Files) /\ work'.orphans = {}
      BY <1>5, <2>1, <2>2, <2>3
    <2>5. SidecarsInv'
      BY <1>1, <1>4, <1>6, <2>4, SidecarsKept DEF UserKnown
    <2> QED
      BY <1>2, <2>4, <2>5
  <1>8. CASE OpenPackaged
    <2>1. work' = Rest([NoWork EXCEPT !.insert = Manifest]) /\ mode' = "packaged"
      BY <1>8 DEF OpenPackaged
    <2>2. \A m \in Manifest : WellFormed(m) /\ m.handle \notin EngineAssets
      BY <1>1, IdleCatalog DEF Manifest, EntriesWithOrigin, BaseInv, EntriesInv
    <2>3. Manifest \subseteq Future
      BY <1>1, IdleCatalog DEF Manifest, EntriesWithOrigin
    <2>4. \A m, n \in Manifest : m.handle = n.handle => m = n
      BY <1>1, <2>3, IdleCatalog
    <2>5. EntriesInv' /\ Future' = Manifest /\ work'.orphans = {}
      BY <1>5, <2>1, <2>2, <2>4
    <2>6. SidecarsInv'
      BY <1>1, <1>4, <1>6, <2>3, <2>5, SidecarsKept DEF UserKnown
    <2> QED
      BY <1>2, <2>5, <2>6
  <1>9. CASE Close
    <2>1. work' = work /\ mode' = "closed" /\ work = NoWork
      BY <1>9 DEF Close, Callable
    <2>2. EntriesInv'
      BY <1>3, <2>1 DEF EntriesInv, NoWork, WellFormed
    <2>3. Future' = {} /\ work'.orphans = {}
      BY <1>3, <2>1 DEF Future, NoWork
    <2>4. SidecarsInv'
      BY <1>1, <1>4, <1>6, <2>3, SidecarsKept
    <2> QED
      BY <1>2, <2>2, <2>4
  <1> QED
    BY <1>7, <1>8, <1>9

-----------------------------------------------------------------------------
(* Loading. *)

LEMMA CatalogUntouched ==
  ASSUME BaseInv, UNCHANGED <<mode, catalog, work, plans, sources, sidecars>>
  PROVE  EntriesInv' /\ SidecarsInv' /\ Future' = Future
  <1>1. Future' = Future /\ EntriesInv'
    BY DEF Future, MetadataOf, EntriesInv, WellFormed, BaseInv
  <1>2. SidecarsInv'
    BY <1>1, FilesUntouched
  <1> QED
    BY <1>1, <1>2

\* A step whose effect on the heap is Keep's.
LEMMA KeptCache ==
  ASSUME BaseInv, UNCHANGED <<mode, catalog, work, plans, sources, sidecars>>,
         NEW objs, NEW cached, NEW h, NEW loads, NEW T,
         HeapInv(objs, cached, h), CallsInv(catalog.entries, objs, loads),
         Trusted(T, Future, objs, cached, loads),
         Keep(objs, cached, h, loads), stack' = loads,
         loads = <<>> \/ (work = NoWork /\ mode # "closed")
  PROVE  CacheInv'
  <1> DEFINE entries == catalog.entries
             future == Future
  <1>1. future = Future' /\ entries = catalog'.entries
    BY CatalogUntouched
  <1> HIDE DEF entries, future
  <1>2. CallsInv(entries, objs, loads) /\ Trusted(T, future, objs, cached, loads)
    BY DEF entries, future
  <1>3. /\ HeapInv(objects', loaded', held')
        /\ CallsInv(entries, objects', loads)
        /\ \E U \in SUBSET DOMAIN objects' : Trusted(U, future, objects', loaded', loads)
    BY <1>2, KeepStep, Zenon
  <1>4. stack' # <<>> => work' = NoWork /\ mode' # "closed"
    OBVIOUS
  <1>5. CallsInv(catalog'.entries, objects', stack')
    BY <1>1, <1>3, Zenon
  <1>6. \E U \in SUBSET DOMAIN objects' : Trusted(U, Future', objects', loaded', stack')
    BY <1>1, <1>3, Zenon
  <1> QED
    BY <1>3, <1>4, <1>5, <1>6, Zenon DEF CacheInv

\* The loads stop, or none is under way.
LEMMA LoadsGone ==
  ASSUME BaseInv, CacheInv, UNCHANGED <<mode, catalog, work, plans, sources, sidecars>>,
         NEW h \in SUBSET held, Keep(objects, loaded, h, <<>>), stack' = <<>>
  PROVE  CacheInv'
  <1>1. PICK T : Trusted(T, Future, objects, loaded, stack)
    BY DEF CacheInv
  <1>2. Trusted(T, Future, objects, loaded, <<>>)
    <2>1. DOMAIN <<>> = {}
      OBVIOUS
    <2> QED
      BY <1>1, <2>1, Zenon DEF Trusted
  <1>3. HeapInv(objects, loaded, h)
    BY DEF CacheInv, HeapInv
  <1>4. CallsInv(catalog.entries, objects, <<>>)
    BY NoCalls
  <1> QED
    BY <1>2, <1>3, <1>4, KeptCache

\* The load on top of loads waits for the asset h.
Awaits(loads, h) ==
  LET top == loads[Len(loads)]
  IN  Len(top.parts) < Len(top.dependencies) /\ h = top.dependencies[Len(top.parts) + 1]

LEMMA RecordParts ==
  ASSUME NEW A, NEW B, NEW C, NEW r \in [handle : A, dependencies : B, parts : C], NEW o
  PROVE  [r EXCEPT !.parts = Append(@, o)]
           = [handle |-> r.handle, dependencies |-> r.dependencies, parts |-> Append(r.parts, o)]
  OBVIOUS

LEMMA TopChanged ==
  ASSUME NEW f, NEW n, NEW o
  PROVE  LET g == [f EXCEPT ![n].parts = Append(@, o)]
         IN  g = [i \in DOMAIN f |-> g[i]]
  OBVIOUS

LEMMA ReturnStep ==
  ASSUME BaseInv, work = NoWork, mode # "closed", UNCHANGED <<mode, catalog, work, plans, sources, sidecars>>,
         NEW objs, NEW cached, NEW o \in DOMAIN objs, NEW loads, NEW T,
         HeapInv(objs, cached, held), CallsInv(catalog.entries, objs, loads),
         Trusted(T, Future, objs, cached, loads), o \in T,
         loads # <<>> => Awaits(loads, o[1]),
         Return(objs, cached, o, loads)
  PROVE  CacheInv'
  <1>1. CASE loads = <<>>
    <2>1. Keep(objs, cached, {o}, loads) /\ stack' = loads
      BY <1>1 DEF Return
    <2>2. HeapInv(objs, cached, {o})
      BY DEF HeapInv
    <2> QED
      BY <1>1, <2>1, <2>2, KeptCache
  <1>2. CASE loads # <<>>
    <2> DEFINE n == Len(loads)
               to == [loads EXCEPT ![n].parts = Append(@, o)]
               Calls == [handle : Handles, dependencies : Seq(Handles), parts : Seq(Handles \X Copies)]
    <2>1. Keep(objs, cached, held, to) /\ stack' = to
      BY <1>2 DEF Return
    <2>2. loads \in Seq(Calls) /\ n \in Nat \ {0} /\ n \in DOMAIN loads
      BY <1>2 DEF CallsInv
    <2> HIDE DEF Calls
    <2>3. /\ DOMAIN to = DOMAIN loads /\ Len(to) = n
          /\ to[n] = [loads[n] EXCEPT !.parts = Append(@, o)]
          /\ (\A i \in DOMAIN loads \ {n} : to[i] = loads[i])
      BY <2>2
    <2>14. to = [i \in DOMAIN loads |-> to[i]]
      BY TopChanged
    <2>13. DOMAIN loads = 1 .. n
      BY <2>2
    <2> HIDE DEF to, n
    <2> DEFINE old == loads[n].parts
               new == Append(old, o)
    <2>4. /\ loads[n] \in Calls /\ old \in Seq(Handles \X Copies)
          /\ to[n].handle = loads[n].handle /\ to[n].dependencies = loads[n].dependencies
          /\ to[n].parts = new
      <3>1. loads[n] \in Calls
        BY <2>2
      <3>2. [loads[n] EXCEPT !.parts = Append(@, o)]
              = [handle |-> loads[n].handle, dependencies |-> loads[n].dependencies, parts |-> new]
        <4> DEFINE r == loads[n]
        <4> HIDE DEF r
        <4>1. r \in [handle : Handles, dependencies : Seq(Handles), parts : Seq(Handles \X Copies)]
          BY <3>1 DEF r, Calls
        <4>2. [r EXCEPT !.parts = Append(@, o)]
                = [handle |-> r.handle, dependencies |-> r.dependencies, parts |-> Append(r.parts, o)]
          BY <4>1, RecordParts
        <4> QED
          BY <4>2 DEF r
      <3>3. old \in Seq(Handles \X Copies)
        BY <3>1 DEF Calls
      <3> QED
        BY <2>3, <3>1, <3>2, <3>3
    <2>5. o \in Handles \X Copies
      BY DEF HeapInv
    <2>6. new \in Seq(Handles \X Copies) /\ Len(new) = Len(old) + 1
          /\ (\A j \in 1 .. Len(old) : new[j] = old[j]) /\ new[Len(old) + 1] = o
          /\ DOMAIN new = 1 .. Len(old) + 1 /\ DOMAIN old = 1 .. Len(old)
      BY <2>4, <2>5
    <2>7. to[n] \in Calls
      BY <2>3, <2>4, <2>6 DEF Calls
    <2> HIDE DEF new
    <2>8. to \in Seq(Calls)
      <3>1. \A i \in 1 .. n : to[i] \in Calls
        <4>1. \A i \in DOMAIN loads : loads[i] \in Calls
          BY <2>2
        <4> QED
          BY <2>3, <2>7, <2>13, <4>1
      <3> QED
        BY <2>2, <2>13, <2>14, <3>1
    <2>9. ASSUME NEW i \in DOMAIN to
          PROVE  /\ to[i].handle \in DOMAIN catalog.entries
                 /\ to[i].dependencies = catalog.entries[to[i].handle].dependencies
                 /\ Len(to[i].parts) <= Len(to[i].dependencies)
                 /\ \A j \in DOMAIN to[i].parts :
                      to[i].parts[j] \in DOMAIN objs /\ to[i].parts[j][1] = to[i].dependencies[j]
      <3>1. /\ loads[i].handle \in DOMAIN catalog.entries
            /\ loads[i].dependencies = catalog.entries[loads[i].handle].dependencies
            /\ Len(loads[i].parts) <= Len(loads[i].dependencies)
            /\ \A j \in DOMAIN loads[i].parts :
                 loads[i].parts[j] \in DOMAIN objs /\ loads[i].parts[j][1] = loads[i].dependencies[j]
        BY <2>3 DEF CallsInv
      <3>2. CASE i # n
        BY <2>3, <3>1, <3>2
      <3>3. CASE i = n
        <4>1. Len(old) < Len(loads[n].dependencies) /\ o[1] = loads[n].dependencies[Len(old) + 1]
          BY <1>2 DEF Awaits, n
        <4>2. Len(new) <= Len(to[n].dependencies)
          <5>1. Len(loads[n].dependencies) \in Nat /\ Len(old) \in Nat
            BY <2>4 DEF Calls
          <5> QED
            BY <2>4, <2>6, <4>1, <5>1
        <4>3. \A j \in DOMAIN new : new[j] \in DOMAIN objs /\ new[j][1] = to[n].dependencies[j]
          <5>1. \A j \in 1 .. Len(old) : old[j] \in DOMAIN objs /\ old[j][1] = loads[n].dependencies[j]
            BY <2>6, <3>1, <3>3
          <5>2. Len(old) \in Nat /\ \A j \in 1 .. Len(old) + 1 : j = Len(old) + 1 \/ j \in 1 .. Len(old)
            <6> HIDE DEF old
            <6> QED
              BY <2>4
          <5> HIDE DEF old
          <5> QED
            BY <2>4, <2>6, <4>1, <5>1, <5>2
        <4> QED
          BY <2>4, <3>1, <3>3, <4>2, <4>3
      <3> QED
        BY <3>2, <3>3
    <2>10. ASSUME NEW i \in 1 .. Len(to) - 1
           PROVE  /\ Len(to[i].parts) < Len(to[i].dependencies)
                  /\ to[i + 1].handle = to[i].dependencies[Len(to[i].parts) + 1]
      <3>1. i \in DOMAIN loads \ {n} /\ i + 1 \in DOMAIN loads /\ i \in 1 .. Len(loads) - 1
        BY <2>2, <2>3 DEF n
      <3>2. to[i] = loads[i] /\ to[i + 1].handle = loads[i + 1].handle
        BY <2>3, <2>4, <3>1
      <3> QED
        BY <3>1, <3>2 DEF CallsInv
    <2>11. CallsInv(catalog.entries, objs, to)
      BY <2>8, <2>9, <2>10 DEF CallsInv, Calls
    <2>12. Trusted(T, Future, objs, cached, to)
      <3>1. ASSUME NEW i \in DOMAIN to
            PROVE  Range(to[i].parts) \subseteq T
        <4>1. Range(loads[i].parts) \subseteq T
          BY <2>3 DEF Trusted
        <4>2. CASE i # n
          BY <2>3, <4>1, <4>2
        <4>3. CASE i = n
          <5>1. \A j \in 1 .. Len(old) : old[j] \in T
            BY <2>6, <4>1, <4>3 DEF Range
          <5>2. Len(old) \in Nat /\ \A j \in 1 .. Len(old) + 1 : j = Len(old) + 1 \/ j \in 1 .. Len(old)
            <6> HIDE DEF old
            <6> QED
              BY <2>4
          <5> HIDE DEF old
          <5>3. \A j \in DOMAIN new : new[j] \in T
            BY <2>6, <5>1, <5>2
          <5> QED
            BY <2>4, <4>3, <5>3 DEF Range
        <4> QED
          BY <4>2, <4>3
      <3> QED
        BY <3>1, Zenon DEF Trusted
    <2> QED
      BY <2>1, <2>11, <2>12, KeptCache
  <1> QED
    BY <1>1, <1>2

LEMMA LoadCachedStep ==
  ASSUME BaseInv, CacheInv, NEW h, LoadCached(h)
  PROVE  CacheInv'
  <1>1. PICK T \in SUBSET DOMAIN objects : Trusted(T, Future, objects, loaded, stack)
    BY DEF CacheInv
  <1>2. /\ work = NoWork /\ mode # "closed" /\ (stack = <<>> \/ h \in Wanted) /\ h \in DOMAIN loaded
        /\ Return(objects, loaded, loaded[h], stack) /\ UNCHANGED <<mode, catalog, work, plans, sources, sidecars>>
    BY DEF LoadCached, files
  <1>3. loaded[h] \in DOMAIN objects /\ loaded[h][1] = h /\ loaded[h] \in Range(loaded)
    BY <1>2 DEF CacheInv, HeapInv, Range
  <1>4. loaded[h] \in T
    BY <1>1, <1>3 DEF Trusted
  <1>5. stack # <<>> => Awaits(stack, h)
    <2> SUFFICES ASSUME stack # <<>>
                 PROVE  Awaits(stack, h)
      OBVIOUS
    <2>1. ~Complete /\ h = Top.dependencies[Len(Top.parts) + 1]
      BY <1>2 DEF Wanted
    <2>2. Len(Top.parts) # Len(Top.dependencies)
      BY <2>1 DEF Complete
    <2>3. /\ Len(Top.parts) <= Len(Top.dependencies)
          /\ Len(Top.parts) \in Nat /\ Len(Top.dependencies) \in Nat
      BY DEF CacheInv, CallsInv, Top
    <2> QED
      BY <2>1, <2>2, <2>3 DEF Awaits, Top
  <1> QED
    BY <1>1, <1>2, <1>3, <1>4, <1>5, ReturnStep DEF CacheInv

LEMMA BeginLoadStep ==
  ASSUME BaseInv, CacheInv, NEW h, BeginLoad(h)
  PROVE  CacheInv'
  <1>1. PICK T \in SUBSET DOMAIN objects : Trusted(T, Future, objects, loaded, stack)
    BY DEF CacheInv
  <1>2. /\ work = NoWork /\ mode # "closed" /\ (stack = <<>> \/ h \in Wanted)
        /\ h \in DOMAIN catalog.entries
        /\ stack' = Append(stack, Frame(h)) /\ UNCHANGED <<mode, catalog, work, plans, sources, sidecars, cache>>
    BY DEF BeginLoad, Loadable, files
  <1> DEFINE n == Len(stack)
             Calls == [handle : Handles, dependencies : Seq(Handles), parts : Seq(Handles \X Copies)]
  <1>3. Frame(h) \in Calls
    <2>1. h \in Handles /\ catalog.entries[h].dependencies \in Seq(Handles)
      BY <1>2, MetadataHandle DEF BaseInv, EntriesInv, WellFormed
    <2> QED
      BY <2>1 DEF Frame
  <1> HIDE DEF Calls
  <1>4. stack \in Seq(Calls)
    BY DEF CacheInv, CallsInv, Calls
  <1>5. /\ stack' \in Seq(Calls) /\ Len(stack') = n + 1 /\ n \in Nat
        /\ DOMAIN stack' = 1 .. n + 1 /\ DOMAIN stack = 1 .. n
        /\ stack'[n + 1] = Frame(h) /\ \A i \in 1 .. n : stack'[i] = stack[i]
    BY <1>2, <1>3, <1>4
  <1>6. Frame(h).handle = h /\ Frame(h).dependencies = catalog.entries[h].dependencies
        /\ Frame(h).parts = <<>> /\ DOMAIN Frame(h).parts = {} /\ Len(Frame(h).parts) = 0
        /\ Len(Frame(h).dependencies) \in Nat
    BY <1>3 DEF Frame, Calls
  <1>7. ASSUME n # 0
        PROVE  /\ Len(stack[n].parts) < Len(stack[n].dependencies)
               /\ h = stack[n].dependencies[Len(stack[n].parts) + 1]
    <2>1. stack # <<>> /\ Top = stack[n]
      BY <1>7 DEF Top
    <2>2. ~Complete /\ h = Top.dependencies[Len(Top.parts) + 1]
      BY <1>2, <2>1 DEF Wanted
    <2>3. Len(Top.parts) # Len(Top.dependencies)
      BY <2>1, <2>2 DEF Complete
    <2>4. /\ Len(Top.parts) <= Len(Top.dependencies)
          /\ Len(Top.parts) \in Nat /\ Len(Top.dependencies) \in Nat
      BY <2>1 DEF CacheInv, CallsInv, Top
    <2> QED
      BY <2>1, <2>2, <2>3, <2>4
  <1>8. CallsInv(catalog.entries, objects, stack)
    BY DEF CacheInv
  <1>9. ASSUME NEW i \in DOMAIN stack'
        PROVE  /\ stack'[i].handle \in DOMAIN catalog.entries
               /\ stack'[i].dependencies = catalog.entries[stack'[i].handle].dependencies
               /\ Len(stack'[i].parts) <= Len(stack'[i].dependencies)
               /\ \A j \in DOMAIN stack'[i].parts :
                    stack'[i].parts[j] \in DOMAIN objects /\ stack'[i].parts[j][1] = stack'[i].dependencies[j]
    <2>1. CASE i = n + 1
      BY <1>2, <1>5, <1>6, <2>1
    <2>2. CASE i # n + 1
      <3>1. i \in DOMAIN stack /\ stack'[i] = stack[i]
        BY <1>5, <2>2
      <3> QED
        BY <1>8, <3>1 DEF CallsInv
    <2> QED
      BY <2>1, <2>2
  <1>10. ASSUME NEW i \in 1 .. Len(stack') - 1
         PROVE  /\ Len(stack'[i].parts) < Len(stack'[i].dependencies)
                /\ stack'[i + 1].handle = stack'[i].dependencies[Len(stack'[i].parts) + 1]
    <2>1. i \in 1 .. n /\ stack'[i] = stack[i]
      BY <1>5
    <2>2. CASE i = n
      BY <1>5, <1>6, <1>7, <2>1, <2>2
    <2>3. CASE i # n
      <3>1. i \in 1 .. n - 1 /\ i + 1 \in 1 .. n
        <4> HIDE DEF n
        <4> QED
          BY <1>5, <2>1, <2>3
      <3>2. i \in 1 .. Len(stack) - 1 /\ stack'[i + 1] = stack[i + 1]
        BY <1>5, <3>1
      <3> QED
        BY <1>8, <2>1, <3>2 DEF CallsInv
    <2> QED
      BY <2>2, <2>3
  <1>11. objects' = objects /\ loaded' = loaded /\ held' = held
    BY <1>2 DEF cache
  <1>12. CallsInv(catalog'.entries, objects', stack')
    BY <1>2, <1>5, <1>9, <1>10, <1>11 DEF CallsInv, Calls
  <1>13. Trusted(T, Future, objects, loaded, stack')
    <2>1. \A i \in DOMAIN stack' : Range(stack'[i].parts) \subseteq T
      BY <1>1, <1>5, <1>6 DEF Trusted, Range
    <2> QED
      BY <1>1, <2>1, Zenon DEF Trusted
  <1>14. Future' = Future
    BY <1>2, CatalogUntouched
  <1>15. \E U \in SUBSET DOMAIN objects' : Trusted(U, Future', objects', loaded', stack')
    BY <1>11, <1>13, <1>14
  <1>16. HeapInv(objects', loaded', held')
    BY <1>11 DEF CacheInv
  <1>17. stack' # <<>> => work' = NoWork /\ mode' # "closed"
    BY <1>2
  <1> QED
    BY <1>12, <1>15, <1>16, <1>17, Zenon DEF CacheInv

\* The loads below the one on top.
LEMMA BelowCalls ==
  ASSUME NEW entries, NEW objs, CallsInv(entries, objs, stack), stack # <<>>
  PROVE  /\ CallsInv(entries, objs, Below)
         /\ Below # <<>> => Awaits(Below, Top.handle)
         /\ DOMAIN Below \subseteq DOMAIN stack /\ \A i \in DOMAIN Below : Below[i] = stack[i]
  <1> DEFINE n == Len(stack)
             Calls == [handle : Handles, dependencies : Seq(Handles), parts : Seq(Handles \X Copies)]
  <1>1. stack \in Seq(Calls) /\ n \in Nat \ {0}
    BY DEF CallsInv
  <1> HIDE DEF Calls
  <1>2. /\ Below \in Seq(Calls) /\ Len(Below) = n - 1 /\ DOMAIN Below = 1 .. n - 1
        /\ \A i \in 1 .. n - 1 : Below[i] = stack[i]
    <2>1. Below = SubSeq(stack, 1, n - 1)
      BY DEF Below
    <2> HIDE DEF n
    <2>2. stack \in Seq(Calls) /\ n \in Nat \ {0} /\ n = Len(stack)
      BY <1>1 DEF n
    <2> QED
      BY <2>1, <2>2
  <1>3. DOMAIN stack = 1 .. n /\ \A i \in 1 .. n - 1 : i \in 1 .. n
    BY <1>1
  <1>4. ASSUME NEW i \in DOMAIN Below
        PROVE  /\ Below[i].handle \in DOMAIN entries
               /\ Below[i].dependencies = entries[Below[i].handle].dependencies
               /\ Len(Below[i].parts) <= Len(Below[i].dependencies)
               /\ \A j \in DOMAIN Below[i].parts :
                    Below[i].parts[j] \in DOMAIN objs /\ Below[i].parts[j][1] = Below[i].dependencies[j]
    <2>1. i \in DOMAIN stack /\ Below[i] = stack[i]
      BY <1>2, <1>3
    <2> QED
      BY <2>1 DEF CallsInv
  <1>5. ASSUME NEW i \in 1 .. n - 1
        PROVE  /\ Len(stack[i].parts) < Len(stack[i].dependencies)
               /\ stack[i + 1].handle = stack[i].dependencies[Len(stack[i].parts) + 1]
    BY DEF CallsInv
  <1> HIDE DEF n
  <1>6. ASSUME NEW i \in 1 .. Len(Below) - 1
        PROVE  /\ Len(Below[i].parts) < Len(Below[i].dependencies)
               /\ Below[i + 1].handle = Below[i].dependencies[Len(Below[i].parts) + 1]
    <2>1. i \in 1 .. n - 1 /\ i + 1 \in 1 .. n - 1
      BY <1>1, <1>2
    <2> QED
      BY <1>2, <1>5, <2>1
  <1>7. ASSUME Below # <<>>
        PROVE  Awaits(Below, Top.handle)
    <2>1. n - 1 \in 1 .. n - 1 /\ (n - 1) + 1 = n
      BY <1>1, <1>2, <1>7
    <2>2. Below[n - 1] = stack[n - 1] /\ Top = stack[(n - 1) + 1]
      BY <1>2, <2>1 DEF Top, n
    <2> QED
      BY <1>2, <1>5, <2>1, <2>2 DEF Awaits
  <1>8. CallsInv(entries, objs, Below)
    BY <1>2, <1>4, <1>6 DEF CallsInv, Calls
  <1> QED
    BY <1>2, <1>3, <1>7, <1>8

LEMMA DecodeStep ==
  ASSUME BaseInv, CacheInv, Decode
  PROVE  CacheInv'
  <1>1. PICK T \in SUBSET DOMAIN objects : Trusted(T, Future, objects, loaded, stack)
    BY DEF CacheInv
  <1> DEFINE free == ({Top.handle} \X Copies) \ DOMAIN objects
             o == CHOOSE f \in free : TRUE
             asset == [parts |-> Top.parts, fresh |-> TRUE, adrift |-> FALSE]
             objs == [p \in DOMAIN objects \cup {o} |-> IF p = o THEN asset ELSE objects[p]]
             cached == [d \in DOMAIN loaded \cup {Top.handle} |-> IF d = Top.handle THEN o ELSE loaded[d]]
             n == Len(stack)
  <1>2. /\ Complete /\ Top.handle \in artifacts /\ free # {}
        /\ Return(objs, cached, o, Below) /\ UNCHANGED <<mode, catalog, work, plans, sources, sidecars>>
    BY DEF Decode, files
  <1>3. stack # <<>> /\ Len(Top.parts) = Len(Top.dependencies) /\ work = NoWork /\ mode # "closed"
    BY <1>2 DEF Complete, CacheInv
  <1>4. o \in free
    <2> HIDE DEF free
    <2> QED
      BY <1>2
  <1> HIDE DEF o
  <1>5. o[1] = Top.handle /\ o \notin DOMAIN objects /\ o \in {Top.handle} \X Copies
    BY <1>4
  <1>6. CallsInv(catalog.entries, objects, stack) /\ n \in DOMAIN stack /\ Top = stack[n]
    <2>1. CallsInv(catalog.entries, objects, stack)
      BY DEF CacheInv
    <2>2. n \in DOMAIN stack
      BY <1>3, <2>1 DEF CallsInv
    <2> QED
      BY <2>1, <2>2 DEF Top
  <1> HIDE DEF n
  <1>7. /\ Top.handle \in DOMAIN catalog.entries
        /\ Top.dependencies = catalog.entries[Top.handle].dependencies
        /\ \A j \in DOMAIN Top.parts : Top.parts[j] \in DOMAIN objects /\ Top.parts[j][1] = Top.dependencies[j]
        /\ Range(Top.parts) \subseteq T
    BY <1>1, <1>6 DEF CallsInv, Trusted
  <1>8. Top.parts \in Seq(Handles \X Copies) /\ Top.dependencies \in Seq(Handles)
    <2> DEFINE Calls == [handle : Handles, dependencies : Seq(Handles), parts : Seq(Handles \X Copies)]
    <2> HIDE DEF Calls
    <2>1. stack \in Seq(Calls)
      BY <1>6 DEF CallsInv, Calls
    <2>2. Top \in Calls
      BY <1>6, <2>1
    <2> QED
      BY <2>2 DEF Calls
  <1> DEFINE parts == Top.parts
             deps == Top.dependencies
  <1>9. Top.handle \in Handles
    BY <1>7, CatalogTyped
  <1>10. /\ DOMAIN objs = DOMAIN objects \cup {o} /\ objs[o] = asset /\ asset.fresh /\ asset.parts = parts
         /\ \A p \in DOMAIN objects : objs[p] = objects[p]
         /\ objs = [p \in DOMAIN objs |-> objs[p]]
    BY <1>5
  <1>11. /\ DOMAIN cached = DOMAIN loaded \cup {Top.handle} /\ cached[Top.handle] = o
         /\ \A d \in DOMAIN loaded : cached[d] = loaded[d] \/ (cached[d] = o /\ d = Top.handle)
         /\ cached = [d \in DOMAIN cached |-> cached[d]]
    OBVIOUS
  <1> HIDE DEF objs, cached
  <1>12. HeapInv(objects, loaded, held)
    BY DEF CacheInv
  <1>13. HeapInv(objs, cached, held)
    <2>1. ASSUME NEW p \in DOMAIN objs
          PROVE  objs[p].parts \in Seq(DOMAIN objs)
      <3>1. CASE p \in DOMAIN objects
        <4>1. objects[p].parts \in Seq(DOMAIN objects)
          BY <1>12, <3>1 DEF HeapInv
        <4>2. objs[p].parts \in Seq(DOMAIN objects) /\ DOMAIN objects \subseteq DOMAIN objs
          BY <1>10, <3>1, <4>1
        <4> QED
          BY <4>2
      <3>2. CASE p = o
        <4>1. parts \in Seq(Handles \X Copies) /\ \A j \in 1 .. Len(parts) : parts[j] \in DOMAIN objs
          BY <1>7, <1>8, <1>10
        <4> HIDE DEF parts
        <4>2. parts \in Seq(DOMAIN objs)
          BY <4>1
        <4> QED
          BY <1>10, <3>2, <4>2
      <3> QED
        BY <1>10, <3>1, <3>2
    <2>2. DOMAIN objs \subseteq Handles \X Copies
      BY <1>5, <1>9, <1>10, <1>12 DEF HeapInv
    <2>3. /\ DOMAIN cached \subseteq Handles
          /\ \A d \in DOMAIN cached : cached[d] \in DOMAIN objs /\ cached[d][1] = d
      BY <1>5, <1>9, <1>10, <1>11, <1>12 DEF HeapInv
    <2>4. held \subseteq DOMAIN objs
      BY <1>10, <1>12 DEF HeapInv
    <2> QED
      BY <1>10, <1>11, <2>1, <2>2, <2>3, <2>4, Zenon DEF HeapInv
  <1>14. /\ CallsInv(catalog.entries, objects, Below) /\ (Below # <<>> => Awaits(Below, o[1]))
         /\ DOMAIN Below \subseteq DOMAIN stack /\ \A i \in DOMAIN Below : Below[i] = stack[i]
    BY <1>3, <1>5, <1>6, BelowCalls
  <1>15. CallsInv(catalog.entries, objs, Below)
    BY <1>10, <1>14 DEF CallsInv
  <1> DEFINE U == T \cup {o}
  <1>16. Trusted(U, Future, objs, cached, Below)
    <2>1. U \subseteq DOMAIN objs /\ Range(cached) \subseteq U
      BY <1>1, <1>10, <1>11 DEF Trusted, Range
    <2>2. \A i \in DOMAIN Below : Range(Below[i].parts) \subseteq U
      BY <1>1, <1>14 DEF Trusted
    <2>3. ASSUME NEW p \in U
          PROVE  objs[p].fresh /\ (objs[p].adrift \/ MadeOf(p, U, Future, objs))
      <3>1. CASE p \in T
        <4>1. objects[p].fresh /\ (objects[p].adrift \/ MadeOf(p, T, Future, objects))
          BY <1>1, <3>1, Zenon DEF Trusted
        <4>2. objs[p] = objects[p]
          BY <1>10, <3>1
        <4>3. MadeOf(p, T, Future, objects) => MadeOf(p, U, Future, objs)
          BY <4>2 DEF MadeOf
        <4> QED
          BY <4>1, <4>2, <4>3, Zenon
      <3>2. CASE p = o
        <4>1. objs[p].fresh
          BY <1>10, <3>2, Zenon
        <4>2. PICK m \in Future : m.handle = p[1] /\ m.dependencies = deps
          <5>1. Future = {MetadataOf(k) : k \in DOMAIN catalog.entries}
            BY <1>3, IdleFuture
          <5> QED
            BY <1>5, <1>7, <3>2, <5>1, MetadataHandle DEF BaseInv
        <4>3. ASSUME NEW q \in Range(objs[p].parts)
              PROVE  q \in U /\ q[1] \in DependsOn(m)
          <5>1. objs[p].parts = parts
            BY <1>10, <3>2
          <5>2. PICK j \in DOMAIN parts : q = parts[j]
            BY <5>1 DEF Range
          <5>3. q[1] = deps[j] /\ q \in T
            BY <1>7, <5>2 DEF Range
          <5>4. DOMAIN parts = 1 .. Len(parts) /\ DOMAIN deps = 1 .. Len(deps) /\ Len(parts) = Len(deps)
            BY <1>3, <1>8
          <5>5. q[1] \in Range(deps)
            BY <5>2, <5>3, <5>4 DEF Range
          <5> QED
            BY <4>2, <5>3, <5>5 DEF DependsOn
        <4> HIDE DEF U
        <4>4. MadeOf(p, U, Future, objs)
          BY <4>2, <4>3 DEF MadeOf
        <4> QED
          BY <4>1, <4>4, Zenon
      <3> QED
        BY <3>1, <3>2
    <2> HIDE DEF U
    <2> QED
      BY <2>1, <2>2, <2>3, Zenon DEF Trusted
  <1>17. o \in U /\ o \in DOMAIN objs
    BY <1>10
  <1> HIDE DEF U
  <1> QED
    BY <1>2, <1>3, <1>13, <1>14, <1>15, <1>16, <1>17, ReturnStep

LEMMA OtherLoads ==
  ASSUME BaseInv, CacheInv,
         \/ Drop \/ DecodeFails
         \/ \E h \in Wanted : DependencyFails(h)
  PROVE  CacheInv'
  <1>1. CASE Drop
    <2>1. /\ Keep(objects, loaded, {}, stack) /\ stack = <<>>
          /\ UNCHANGED <<mode, catalog, work, plans, sources, sidecars, calls>>
      BY <1>1 DEF Drop, Callable, files
    <2> QED
      BY <2>1, LoadsGone DEF calls
  <1>2. CASE DecodeFails
    BY <1>2, LoadsGone DEF DecodeFails, files
  <1>3. CASE \E h \in Wanted : DependencyFails(h)
    BY <1>3, LoadsGone DEF DependencyFails, files
  <1> QED
    BY <1>1, <1>2, <1>3

-----------------------------------------------------------------------------
(* import. *)

\* What is replaced is unloaded with its dependents: what remains is trusted
\* although the artifacts of some handles are written.
LEMMA UnloadedTrust ==
  ASSUME BaseInv, CacheInv, Callable, NEW R \in SUBSET DOMAIN catalog.entries, NEW written,
         \A o \in DOMAIN objects : o[1] \in written => o[1] \in R,
         NEW T, Trusted(T, Future, objects, loaded, stack)
  PROVE  LET U == {o \in T : o[1] \notin UNION {Dependents(h) : h \in R}}
         IN  /\ Trusted(U, Future, Aged(written), Unloaded(R), <<>>)
             /\ \A o \in U : o[1] \notin R
             /\ HeapInv(Aged(written), Unloaded(R), held)
  <1> DEFINE gone == UNION {Dependents(h) : h \in R}
             U == {o \in T : o[1] \notin gone}
             objs == Aged(written)
             cached == Unloaded(R)
  <1>1. HeapInv(objects, loaded, held)
    BY DEF CacheInv
  <1>2. cached = Restrict(loaded, DOMAIN loaded \ gone)
    BY DEF Unloaded
  <1>3. R \subseteq Handles /\ Sound(catalog) /\ DOMAIN catalog.entries \subseteq Handles
    BY CatalogTyped DEF BaseInv
  <1>4. R \subseteq gone
    BY <1>3, DependentsAre
  <1>5. ASSUME NEW d \in gone, NEW e \in DOMAIN catalog.entries, d \in DependsOn(catalog.entries[e])
        PROVE  e \in gone
    <2>1. PICK h \in R : d \in Dependents(h)
      OBVIOUS
    <2> QED
      BY <1>3, <1>5, <2>1, DependentsAre
  <1>6. /\ DOMAIN objs = DOMAIN objects /\ objs = [o \in DOMAIN objs |-> objs[o]]
        /\ \A o \in DOMAIN objects : o[1] \notin written => objs[o] = objects[o]
    BY DEF Aged
  <1>7. \A o \in DOMAIN objects : objs[o].parts = objects[o].parts
    BY DEF Aged
  <1>8. /\ cached = [d \in DOMAIN cached |-> cached[d]] /\ DOMAIN cached = DOMAIN loaded \ gone
        /\ \A d \in DOMAIN cached : cached[d] = loaded[d]
    BY <1>2, RestrictOf
  <1>9. Future = {MetadataOf(k) : k \in DOMAIN catalog.entries}
    BY IdleCatalog
  <1> HIDE DEF gone, objs, cached
  <1>10. HeapInv(objs, cached, held)
    BY <1>1, <1>6, <1>7, <1>8 DEF HeapInv
  <1>11. \A o \in U : o \in T /\ o \in DOMAIN objects /\ o[1] \notin gone /\ o[1] \notin R
    BY <1>4 DEF Trusted
  <1>12. U \subseteq DOMAIN objs /\ Range(cached) \subseteq U
    <2>1. ASSUME NEW d \in DOMAIN cached
          PROVE  cached[d] \in U
      <3>1. d \in DOMAIN loaded /\ d \notin gone /\ cached[d] = loaded[d] /\ loaded[d][1] = d
        BY <1>1, <1>8 DEF HeapInv
      <3>2. loaded[d] \in T
        BY <3>1 DEF Trusted, Range
      <3> QED
        BY <3>1, <3>2
    <2> QED
      BY <1>6, <1>11, <2>1 DEF Range
  <1>13. ASSUME NEW o \in U
         PROVE  objs[o].fresh /\ (objs[o].adrift \/ MadeOf(o, U, Future, objs))
    <2>1. o \in T /\ o \in DOMAIN objects /\ o[1] \notin gone /\ objs[o] = objects[o]
      BY <1>6, <1>11
    <2>2. objects[o].fresh /\ (objects[o].adrift \/ MadeOf(o, T, Future, objects))
      BY <2>1, Zenon DEF Trusted
    <2>3. ASSUME MadeOf(o, T, Future, objects)
          PROVE  MadeOf(o, U, Future, objs)
      <3>1. PICK m \in Future :
              m.handle = o[1] /\ \A p \in Range(objects[o].parts) : p \in T /\ p[1] \in DependsOn(m)
        BY <2>3 DEF MadeOf
      <3>2. PICK k \in DOMAIN catalog.entries : m = MetadataOf(k)
        BY <1>9
      <3>3. k = o[1] /\ DependsOn(m) = DependsOn(catalog.entries[k])
        BY <1>3, <3>1, <3>2, MetadataHandle DEF DependsOn
      <3>4. \A p \in Range(objects[o].parts) : p[1] \notin gone
        BY <1>5, <2>1, <3>1, <3>3
      <3> QED
        BY <2>1, <3>1, <3>4 DEF MadeOf
    <2> QED
      BY <2>1, <2>2, <2>3, Zenon
  <1>14. \A i \in DOMAIN <<>> : Range(<<>>[i].parts) \subseteq U
    OBVIOUS
  <1> HIDE DEF U
  <1>15. Trusted(U, Future, objs, cached, <<>>)
    BY <1>12, <1>13, <1>14, Zenon DEF Trusted
  <1>16. \A o \in U : o[1] \notin R
    BY <1>11
  <1> QED
    BY <1>10, <1>15, <1>16 DEF U, objs, cached, gone

\* A handle is that of the known asset or in use nowhere.
LEMMA IdentityIs ==
  ASSUME BaseInv, NEW s \in Files, NEW outputs, NEW id \in Identities(s, outputs),
         NEW local \in Locals(outputs)
  PROVE  LET h == id[local]
         IN  /\ DOMAIN id = Locals(outputs) /\ h \in Handles \ EngineAssets
             /\ h \in DOMAIN catalog.entries =>
                  catalog.entries[h].source = s /\ catalog.entries[h].local = local
             /\ h \notin DOMAIN catalog.entries =>
                  /\ \A o \in DOMAIN objects : o[1] # h
                  /\ \A m \in Expanded(Files) \cup Planned : m.handle # h
  <1> DEFINE h == id[local]
             known == Range(catalog.entries) \cup Expanded(Files) \cup Planned
  <1>1. /\ DOMAIN id = Locals(outputs)
        /\ h \in IF Known(s, local) # {} THEN Known(s, local) ELSE Handles \ InUse
    BY DEF Identities
  <1>2. CASE h \in Known(s, local)
    <2>1. h \in DOMAIN catalog.entries /\ catalog.entries[h].local = local /\ h \in catalog.by_source[s]
      BY <1>2 DEF Known, FindBySourceAndLocalId
    <2>2. s \in Sources
      BY DEF Files
    <2>3. catalog.entries[h].source = s
      BY <2>1, <2>2 DEF BaseInv, Sound, IndicesAgreeIn
    <2>4. WellFormed(MetadataOf(h)) /\ MetadataOf(h).source = s /\ MetadataOf(h).handle = h
      BY <2>1, <2>3, MetadataHandle DEF BaseInv, EntriesInv
    <2>5. h \in Handles \ EngineAssets
      BY <2>4 DEF WellFormed
    <2> QED
      BY <1>1, <2>1, <2>3, <2>5
  <1>3. CASE h \in Handles \ InUse
    <2>1. /\ EngineAssets \subseteq InUse
          /\ \A o \in DOMAIN objects : o[1] \in InUse
          /\ \A m \in known : m.handle \in InUse
      BY DEF InUse
    <2>2. \A k \in DOMAIN catalog.entries : k \in InUse
      BY <2>1 DEF Range, BaseInv, Sound, Formed
    <2> QED
      BY <1>1, <1>3, <2>1, <2>2
  <1> QED
    BY <1>1, <1>2, <1>3

LEMMA RecordIs ==
  ASSUME BaseInv, NEW s \in Files, NEW outputs \in Products[s], NEW id \in Identities(s, outputs),
         NEW i \in DOMAIN outputs
  PROVE  LET r == Record(s, id, outputs[i])
         IN  /\ outputs[i].local \in Locals(outputs)
             /\ r.handle = id[outputs[i].local] /\ r.local = outputs[i].local
             /\ r.dependencies \in Seq(Handles)
  <1> DEFINE refs == outputs[i].refs
             target(ref) == IF ref[1] = s /\ ref[2] \in DOMAIN id
                            THEN {id[ref[2]]} ELSE Known(ref[1], ref[2])
             seqs == [k \in DOMAIN refs |-> SetToSeq(target(refs[k]))]
  <1>1. outputs[i].local \in Locals(outputs)
    BY DEF Locals
  <1>2. refs \in Seq(Range(refs))
    <2>1. \A output \in Range(outputs) : output.refs \in Seq(Range(output.refs))
      BY DatabaseAssumption
    <2>2. outputs[i] \in Range(outputs)
      BY DEF Range
    <2> QED
      BY <2>1, <2>2
  <1>3. \A ref : target(ref) \in SUBSET Handles
    <2>1. \A ref : Known(ref[1], ref[2]) \subseteq Handles
      BY CatalogTyped DEF Known, FindBySourceAndLocalId
    <2>2. \A local \in DOMAIN id : id[local] \in Handles
      <3>1. DOMAIN id = Locals(outputs)
        BY DEF Identities
      <3> QED
        BY <3>1, IdentityIs
    <2> QED
      BY <2>1, <2>2
  <1>4. \A ref : SetToSeq(target(ref)) \in Seq(Handles)
    <2> TAKE ref
    <2> DEFINE S == target(ref)
    <2>1. S \in SUBSET Handles
      BY <1>3
    <2> HIDE DEF S
    <2>2. SetToSeq(S) \in Seq(S)
      BY <2>1, SetToSeqTyped, FS_Subset, DatabaseAssumption
    <2>3. SetToSeq(S) \in Seq(Handles)
      BY <2>1, <2>2
    <2> QED
      BY <2>3 DEF S
  <1>5. seqs \in Seq(Seq(Handles))
    <2>1. Len(refs) \in Nat /\ DOMAIN refs = 1 .. Len(refs)
      BY <1>2
    <2>2. \A k \in 1 .. Len(refs) : seqs[k] \in Seq(Handles)
      BY <1>4, <2>1
    <2>3. seqs = [k \in 1 .. Len(refs) |-> seqs[k]]
      BY <2>1
    <2> HIDE DEF seqs, refs
    <2> QED
      BY <2>1, <2>2, <2>3
  <1>6. Resolved(s, id, refs) = FlattenSeq(seqs)
    BY DEF Resolved
  <1> HIDE DEF seqs
  <1>7. Resolved(s, id, refs) \in Seq(Handles)
    BY <1>5, <1>6, FlattenSeqTyped
  <1> QED
    BY <1>1, <1>7 DEF Record
\* The records of a valid sidecar are of different assets.
LEMMA RecordsDiffer ==
  ASSUME BaseInv, NEW s \in Files, NEW outputs \in Products[s], NEW id \in Identities(s, outputs),
         ValidSidecar(outputs), NEW q \in Records(s, id, outputs), NEW r \in Records(s, id, outputs),
         q.handle = r.handle
  PROVE  q = r
  <1> DEFINE N == Len(outputs)
             L == Locals(outputs)
             f == [i \in 1 .. N |-> outputs[i].local]
  <1>1. N \in Nat /\ DOMAIN outputs = 1 .. N
    <2>1. outputs \in Seq(Range(outputs))
      BY DatabaseAssumption
    <2> QED
      BY <2>1
  <1>2. \A i \in 1 .. N : outputs[i].local \in L
    BY <1>1 DEF Locals
  <1>3. f \in [1 .. N -> L]
    BY <1>2
  <1>4. \A l \in L : \E i \in 1 .. N : f[i] = l
    BY <1>1 DEF Locals
  <1>5. f \in Surjection(1 .. N, L)
    BY <1>3, <1>4 DEF Surjection
  <1>7. Cardinality(L) = N
    BY DEF ValidSidecar
  <1> HIDE DEF f, N, L
  <1>6. IsFiniteSet(1 .. N) /\ Cardinality(1 .. N) = N
    <2>1. 1 \in Int /\ N \in Int /\ (1 > N => N = 0)
      BY <1>1
    <2>2. IsFiniteSet(1 .. N) /\ Cardinality(1 .. N) = IF 1 > N THEN 0 ELSE N - 1 + 1
      BY <2>1, FS_Interval
    <2> QED
      BY <1>1, <2>2
  <1>8. f \in Injection(1 .. N, L)
    BY <1>5, <1>6, <1>7, FS_Surjection
  <1>9. \A i, j \in 1 .. N : f[i] = f[j] => i = j
    BY <1>8 DEF Injection, IsInjective
  <1>10. PICK i \in 1 .. N, j \in 1 .. N :
           q = Record(s, id, outputs[i]) /\ r = Record(s, id, outputs[j])
    BY <1>1 DEF Records
  <1>11. q.handle = id[outputs[i].local] /\ r.handle = id[outputs[j].local]
    BY <1>10 DEF Record
  <1>12. DOMAIN id = L /\ IsInjective(id)
    BY DEF Identities, L
  <1>13. outputs[i].local = outputs[j].local
    BY <1>2, <1>11, <1>12 DEF IsInjective
  <1>14. i = j
    BY <1>9, <1>13 DEF f
  <1> QED
    BY <1>10, <1>14

\* What is recorded of an output.
LEMMA RecordsAre ==
  ASSUME BaseInv, NEW s \in Files, NEW outputs \in Products[s], NEW id \in Identities(s, outputs),
         NEW r \in Records(s, id, outputs)
  PROVE  /\ r.handle \in Handles \ EngineAssets /\ r.dependencies \in Seq(Handles)
         /\ r.handle \in DOMAIN catalog.entries =>
              catalog.entries[r.handle].source = s /\ catalog.entries[r.handle].local = r.local
         /\ r.handle \notin DOMAIN catalog.entries =>
              /\ \A o \in DOMAIN objects : o[1] # r.handle
              /\ \A m \in Expanded(Files) \cup Planned : m.handle # r.handle
  <1>1. PICK i \in DOMAIN outputs : r = Record(s, id, outputs[i])
    BY DEF Records
  <1>2. /\ outputs[i].local \in Locals(outputs)
        /\ r.handle = id[outputs[i].local] /\ r.local = outputs[i].local
        /\ r.dependencies \in Seq(Handles)
    BY <1>1, RecordIs
  <1> QED
    BY <1>2, IdentityIs

LEMMA ImportFailsStep ==
  ASSUME BaseInv, CacheInv, Callable, NEW s \in Files, NEW outputs \in Products[s],
         NEW id \in Identities(s, outputs), NEW kept, NEW n \in 0 .. Len(outputs),
         ImportFails(s, outputs, id, kept, n)
  PROVE  EntriesInv' /\ SidecarsInv' /\ CacheInv'
  <1> DEFINE records == Records(s, id, outputs)
             R == Replaced(s, records, kept)
             written == {r.handle : r \in {Record(s, id, outputs[i]) : i \in 1 .. n} \ kept}
  <1>1. /\ Keep(Aged(written), Unloaded(R), held, <<>>)
        /\ UNCHANGED <<mode, catalog, work, plans, sources, sidecars, calls>>
    BY DEF ImportFails
  <1>2. EntriesInv' /\ SidecarsInv'
    BY <1>1, CatalogUntouched
  <1>3. 1 .. n \subseteq DOMAIN outputs
    <2>1. outputs \in Seq(Range(outputs))
      BY DatabaseAssumption
    <2> QED
      BY <2>1
  <1>4. ASSUME NEW o \in DOMAIN objects, o[1] \in written
        PROVE  o[1] \in R
    <2>1. PICK r \in records : r \notin kept /\ o[1] = r.handle
      BY <1>3, <1>4 DEF Records
    <2>2. r.handle \in DOMAIN catalog.entries
      BY <2>1, RecordsAre
    <2> QED
      BY <2>1, <2>2 DEF Replaced
  <1>5. R \in SUBSET DOMAIN catalog.entries
    BY DEF Replaced
  <1>6. PICK T : Trusted(T, Future, objects, loaded, stack)
    BY DEF CacheInv
  <1> HIDE DEF R, written
  <1>7. PICK U : /\ Trusted(U, Future, Aged(written), Unloaded(R), <<>>)
                 /\ HeapInv(Aged(written), Unloaded(R), held)
    BY <1>4, <1>5, <1>6, UnloadedTrust
  <1>8. CallsInv(catalog.entries, Aged(written), <<>>)
    BY NoCalls
  <1>9. stack' = <<>>
    BY <1>1, IdleCatalog DEF calls
  <1>10. CacheInv'
    BY <1>1, <1>7, <1>8, <1>9, KeptCache
  <1> QED
    BY <1>2, <1>10

LEMMA ImportSucceedsStep ==
  ASSUME BaseInv, CacheInv, Callable, mode = "workspace", NEW s \in Files,
         NEW outputs \in Products[s], NEW id \in Identities(s, outputs),
         NEW kept \in SUBSET {r \in Records(s, id, outputs) : Unchanged(s, r)},
         ImportSucceeds(s, outputs, id, kept)
  PROVE  EntriesInv' /\ SidecarsInv' /\ CacheInv'
  <1> DEFINE records == Records(s, id, outputs)
             writes  == {r.handle : r \in records \ kept}
             ids     == {r.handle : r \in records}
             dropped == (catalog.by_source[s] \cap DOMAIN catalog.entries) \ ids
             insert  == {Metadata(s, r) : r \in records}
             R == Replaced(s, records, kept) \cup dropped
             entries == catalog.entries
             severed == Severed({r.handle : r \in kept}, insert)
  <1>1. /\ ValidSidecar(outputs)
        /\ sidecars' = [sidecars EXCEPT ![s] = records]
        /\ Keep(Adrift(Aged(writes), severed), Unloaded(R), held, <<>>)
        /\ work' = [erase |-> dropped, insert |-> insert, origin |-> "User", orphans |-> {}]
        /\ UNCHANGED <<mode, catalog, sources, plans, calls>>
    BY DEF ImportSucceeds
  <1>2. /\ s \in Sources
        /\ \A k \in dropped : k \in DOMAIN entries /\ entries[k].source = s
        /\ \A k \in DOMAIN entries : entries[k].source = s => k \in dropped \cup ids
    BY DEF BaseInv, Sound, IndicesAgreeIn, Files
  <1>3. \A r \in records :
          /\ r.handle \in Handles \ EngineAssets /\ r.dependencies \in Seq(Handles)
          /\ r.handle \in DOMAIN entries =>
               entries[r.handle].source = s /\ entries[r.handle].local = r.local
          /\ r.handle \notin DOMAIN entries =>
               /\ \A o \in DOMAIN objects : o[1] # r.handle
               /\ \A m \in Expanded(Files) \cup Planned : m.handle # r.handle
    BY RecordsAre
  <1>4. \A q, r \in records : q.handle = r.handle => q = r
    BY <1>1, RecordsDiffer
  <1>5. /\ stack = <<>> /\ Future = {MetadataOf(k) : k \in DOMAIN entries}
        /\ work.orphans = {}
        /\ \A k \in DOMAIN entries :
             /\ MetadataOf(k).handle = k /\ WellFormed(MetadataOf(k))
             /\ MetadataOf(k).source = entries[k].source /\ MetadataOf(k).local = entries[k].local
             /\ DependsOn(MetadataOf(k)) = DependsOn(entries[k])
    BY IdleCatalog, MetadataHandle DEF BaseInv, DependsOn
  <1>6. \A m \in insert : \E r \in records :
          m = Metadata(s, r) /\ m.handle = r.handle /\ m.source = s /\ m.local = r.local
            /\ m.dependencies = r.dependencies
    BY DEF Metadata
  <1>7. {m.handle : m \in insert} = ids
    <2>1. \A r \in records : Metadata(s, r).handle = r.handle
      BY DEF Metadata
    <2> HIDE DEF records
    <2> QED
      BY <2>1
  <1>8. \A k \in DOMAIN catalog'.entries : MetadataOf(k)' = MetadataOf(k)
    BY <1>1 DEF MetadataOf
  <1>9. Future' = insert \cup {MetadataOf(k) : k \in DOMAIN entries \ (dropped \cup ids)}
    BY <1>1, <1>7, <1>8 DEF Future
  <1>10. \A m \in Expanded(Files)' :
           m \in insert \/ (m \in Expanded(Files) /\ m.source # s)
    <2>1. sidecars' = [t \in Files |-> IF t = s THEN records ELSE sidecars[t]]
      BY <1>1 DEF BaseInv, SidecarsInv
    <2>2. ASSUME NEW m \in Expanded(Files)'
          PROVE  m \in insert \/ (m \in Expanded(Files) /\ m.source # s)
      <3>1. PICK t \in Files : \E r \in sidecars'[t] : m = Metadata(t, r)
        BY DEF Expanded, ExpandedOf
      <3>2. CASE t = s
        BY <2>1, <3>1, <3>2
      <3>3. CASE t # s
        <4>1. m.source = t /\ \E r \in sidecars[t] : m = Metadata(t, r)
          BY <2>1, <3>1, <3>3 DEF Metadata
        <4> QED
          BY <3>1, <3>3, <4>1 DEF Expanded, ExpandedOf
      <3> QED
        BY <3>2, <3>3
    <2> QED
      BY <2>2
  <1> HIDE DEF insert, dropped, ids, records
  <1>11. EntriesInv'
    <2>1. ASSUME NEW m \in insert
          PROVE  /\ WellFormed(m) /\ m.handle \notin EngineAssets
                 /\ \A n \in insert : n.handle = m.handle => n = m
                 /\ m.handle \in DOMAIN entries \ dropped => SameIdentity(entries[m.handle], m)
      <3>1. PICK r \in records :
              m = Metadata(s, r) /\ m.handle = r.handle /\ m.source = s /\ m.local = r.local
                /\ m.dependencies = r.dependencies
        BY <1>6
      <3>2. WellFormed(m) /\ m.handle \notin EngineAssets
        <4>1. m = Metadata(m.source, m)
          BY <3>1 DEF Metadata
        <4> QED
          BY <1>2, <1>3, <3>1, <4>1 DEF WellFormed
      <3>3. \A n \in insert : n.handle = m.handle => n = m
        BY <1>4, <1>6, <3>1
      <3>4. m.handle \in DOMAIN entries \ dropped => SameIdentity(entries[m.handle], m)
        BY <1>3, <3>1 DEF SameIdentity
      <3> QED
        BY <3>2, <3>3, <3>4
    <2>2. \A h \in DOMAIN catalog'.entries :
            WellFormed(MetadataOf(h)') /\ (catalog'.entries[h].origin = "User" <=> h \notin EngineAssets)
      BY <1>1, <1>8 DEF BaseInv, EntriesInv
    <2> QED
      BY <1>1, <2>1, <2>2 DEF EntriesInv, WellFormed
  <1>12. SidecarsInv'
    <2>1. sources' \subseteq Files /\ sidecars' = [t \in Files |-> sidecars'[t]]
      BY <1>1 DEF BaseInv, SidecarsInv
    <2>2. \A m \in insert, n \in UserKnown : n.handle = m.handle => SameIdentity(n, m)
      <3> SUFFICES ASSUME NEW m \in insert, NEW n \in UserKnown, n.handle = m.handle
                   PROVE  SameIdentity(n, m)
        OBVIOUS
      <3>1. PICK r \in records : m.handle = r.handle /\ m.source = s /\ m.local = r.local
        BY <1>6
      <3>2. CASE r.handle \in DOMAIN entries
        <4> DEFINE e == MetadataOf(r.handle)
        <4>1. /\ e \in Future /\ e.handle = r.handle /\ e.handle \notin EngineAssets
              /\ e.source = s /\ e.local = r.local
          BY <1>3, <1>5, <3>2
        <4>2. e \in UserKnown
          BY <4>1 DEF UserKnown
        <4>3. SameIdentity(e, n)
          BY <3>1, <4>1, <4>2 DEF BaseInv, SidecarsInv
        <4> QED
          BY <3>1, <4>1, <4>3 DEF SameIdentity
      <3>3. CASE r.handle \notin DOMAIN entries
        <4>1. n \notin Expanded(Files) \cup Planned
          BY <1>3, <3>1, <3>3
        <4>2. n \in Future
          BY <1>5, <4>1 DEF UserKnown
        <4> QED
          BY <1>5, <3>1, <3>3, <4>2
      <3> QED
        BY <3>2, <3>3
    <2>3. UserMetadata(Expanded(Files)')
      <3>1. \A m \in insert : m.handle \in Handles \ EngineAssets /\ m.dependencies \in Seq(Handles)
        BY <1>3, <1>6
      <3>2. \A m, n \in insert : n.handle = m.handle => n = m
        BY <1>4, <1>6
      <3>3. \A m \in Expanded(Files) :
              /\ m.handle \in Handles \ EngineAssets /\ m.dependencies \in Seq(Handles)
              /\ \A n \in Expanded(Files) : n.handle = m.handle => n = m
        BY DEF BaseInv, SidecarsInv, UserMetadata
      <3>4. \A m \in insert, n \in Expanded(Files) : n.source # s => n.handle # m.handle
        BY <1>6, <2>2 DEF UserKnown, SameIdentity
      <3> QED
        BY <1>10, <3>1, <3>2, <3>3, <3>4 DEF UserMetadata
    <2>4. Planned' = Planned /\ plans' = plans /\ work'.orphans = {}
      BY <1>1 DEF Planned
    <2>5. UserKnown' \subseteq UserKnown \cup insert
      <3>1. \A m \in Future' : m \in insert \/ m \in Future
        BY <1>5, <1>9
      <3> QED
        BY <1>10, <2>4, <3>1 DEF UserKnown
    <2>6. \A m, n \in UserKnown' : m.handle = n.handle => SameIdentity(m, n)
      <3>1. \A m, n \in UserKnown : m.handle = n.handle => SameIdentity(m, n)
        BY DEF BaseInv, SidecarsInv
      <3>2. \A m, n \in insert : m.handle = n.handle => SameIdentity(m, n)
        BY <1>4, <1>6 DEF SameIdentity
      <3>3. \A m, n : SameIdentity(m, n) => SameIdentity(n, m)
        BY DEF SameIdentity
      <3> QED
        BY <2>2, <2>5, <3>1, <3>2, <3>3
    <2>7. /\ \A taken \in plans' :
              UserMetadata(taken.accepted \cup taken.orphans) /\ taken.accepted \cap taken.orphans = {}
          /\ \A m \in Planned' : WellFormed(m)
      BY <2>4 DEF BaseInv, SidecarsInv
    <2>8. \A orphan \in work'.orphans :
            orphan.source \in Files /\ \A m \in Future' : m.handle # orphan.handle
      BY <2>4
    <2> QED
      BY <2>1, <2>3, <2>6, <2>7, <2>8, Zenon DEF SidecarsInv
  <1>13. CacheInv'
    <2>1. R \in SUBSET DOMAIN entries
      BY <1>2 DEF Replaced
    <2>2. ASSUME NEW o \in DOMAIN objects, o[1] \in writes
          PROVE  o[1] \in R
      <3>1. PICK r \in records : r \notin kept /\ o[1] = r.handle
        BY <2>2
      <3>2. r.handle \in DOMAIN entries
        BY <1>3, <3>1
      <3> QED
        BY <3>1, <3>2 DEF Replaced
    <2>3. PICK T : Trusted(T, Future, objects, loaded, stack)
      BY DEF CacheInv
    <2> DEFINE U == {o \in T : o[1] \notin UNION {Dependents(h) : h \in R}}
    <2>4. U \subseteq DOMAIN objects
      BY <2>3 DEF Trusted
    <2>5. \A r \in records : r.handle \in DOMAIN entries /\ r.handle \notin R => r \in kept
      BY DEF Replaced
    <2>6. dropped \subseteq R
      OBVIOUS
    <2> HIDE DEF R, writes, severed
    <2>7. /\ Trusted(U, Future, Aged(writes), Unloaded(R), <<>>)
          /\ \A o \in U : o[1] \notin R
          /\ HeapInv(Aged(writes), Unloaded(R), held)
      BY <2>1, <2>2, <2>3, UnloadedTrust
    <2> HIDE DEF U
    <2> DEFINE before == Future
               after == Future'
               objs == Adrift(Aged(writes), severed)
               cached == Unloaded(R)
               later == catalog'.entries
    <2>8. ASSUME NEW o \in U
          PROVE  objs[o].adrift \/ \A m \in before : m.handle = o[1] => Covered(m, after)
      <3>1. o \in DOMAIN Aged(writes)
        BY <2>4 DEF Aged
      <3>2. objs[o].adrift \/ o[1] \notin severed
        BY <3>1, AdriftTrust
      <3>3. ASSUME o[1] \notin severed, NEW m \in Future, m.handle = o[1]
            PROVE  Covered(m, Future')
        <4>1. o[1] \in DOMAIN entries /\ m = MetadataOf(o[1]) /\ o[1] \notin dropped
          BY <1>5, <2>6, <2>7, <3>3
        <4>2. CASE o[1] \notin ids
          <5>1. m \in Future'
            BY <1>9, <4>1, <4>2
          <5> QED
            BY <5>1 DEF Covered
        <4>3. CASE o[1] \in ids
          <5>1. PICK r \in records : r.handle = o[1]
            BY <4>3 DEF ids
          <5>2. r \in kept
            BY <2>5, <2>7, <4>1, <5>1
          <5>3. PICK n \in insert : n.handle = o[1] /\ DependsOn(entries[o[1]]) \subseteq DependsOn(n)
            BY <3>3, <4>1, <5>1, <5>2 DEF Severed, severed
          <5>4. DependsOn(m) = DependsOn(entries[o[1]])
            BY <1>5, <4>1
          <5> QED
            BY <1>9, <3>3, <5>3, <5>4 DEF Covered
        <4> QED
          BY <4>2, <4>3
      <3> HIDE DEF objs
      <3> QED
        BY <3>2, <3>3
    <2>9. Keep(objs, cached, held, <<>>) /\ HeapInv(objs, cached, held)
      <3>1. HeapInv(objs, cached, held)
        BY <2>7, AdriftTrust, Zenon
      <3> QED
        BY <1>1, <3>1 DEF R, writes, ids, severed, insert, records, dropped
    <2>10. CallsInv(later, objs, <<>>)
      BY NoCalls
    <2>11. Trusted(U, after, objs, cached, <<>>)
      <3>1. Trusted(U, before, objs, cached, <<>>)
        BY <2>7, AdriftTrust, Zenon
      <3> HIDE DEF before, after, objs, cached
      <3> QED
        BY <2>8, <3>1, FutureShrinks, Zenon
    <2> HIDE DEF before, after, objs, cached, later
    <2>12. /\ HeapInv(objects', loaded', held')
           /\ \E V \in SUBSET DOMAIN objects' : Trusted(V, after, objects', loaded', <<>>)
      <3>1. /\ HeapInv(objects', loaded', held')
            /\ \A V, future : Trusted(V, future, objs, cached, <<>>) =>
                 \E W \in SUBSET DOMAIN objects' : Trusted(W, future, objects', loaded', <<>>)
        BY <2>9, <2>10, KeepStep
      <3> QED
        BY <2>11, <3>1, Zenon
    <2>13. stack' = <<>>
      BY <1>1, <1>5 DEF calls
    <2>14. CallsInv(catalog'.entries, objects', stack')
      BY <2>13, NoCalls
    <2>15. \E V \in SUBSET DOMAIN objects' : Trusted(V, Future', objects', loaded', stack')
      BY <2>12, <2>13 DEF after
    <2> QED
      BY <2>12, <2>13, <2>14, <2>15, Zenon DEF CacheInv
  <1> QED
    BY <1>11, <1>12, <1>13

LEMMA ImportStep ==
  ASSUME BaseInv, CacheInv, NEW s \in Files, Import(s)
  PROVE  EntriesInv' /\ SidecarsInv' /\ CacheInv'
  <1>1. Callable /\ mode = "workspace"
    BY DEF Import
  <1>2. PICK outputs \in Products[s] : \E id \in Identities(s, outputs) :
          \E kept \in SUBSET {r \in Records(s, id, outputs) : Unchanged(s, r)} :
          \/ ImportSucceeds(s, outputs, id, kept)
          \/ \E n \in 0 .. Len(outputs) : ImportFails(s, outputs, id, kept, n)
    BY Zenon DEF Import
  <1> QED
    BY <1>1, <1>2, ImportSucceedsStep, ImportFailsStep
-----------------------------------------------------------------------------
LEMMA DatabaseInit ==
  Init => EntriesInv /\ SidecarsInv /\ CacheInv
  <1> SUFFICES ASSUME Init
               PROVE  EntriesInv /\ SidecarsInv /\ CacheInv
    OBVIOUS
  <1>1. /\ mode = "closed" /\ work = NoWork /\ plans = {} /\ sources = Files /\ sidecars = Recorded
        /\ objects = NoneLoaded /\ loaded = NoneLoaded /\ held = {} /\ stack = <<>>
        /\ DOMAIN catalog.entries = {}
    BY DEF Init, EmptyCatalog
  <1>2. EntriesInv
    BY <1>1 DEF EntriesInv, NoWork
  <1>3. SidecarsInv
    <2>1. UserMetadata(Expanded(Files)) /\ sidecars = [s \in Files |-> sidecars[s]]
      BY <1>1, DatabaseAssumption DEF Expanded
    <2>2. Future = {} /\ Planned = {} /\ work.orphans = {}
      BY <1>1 DEF Future, NoWork, Planned
    <2>3. UserKnown = Expanded(Files)
      BY <2>2 DEF UserKnown
    <2>4. \A m, n \in UserKnown : m.handle = n.handle => SameIdentity(m, n)
      BY <2>1, <2>3 DEF UserMetadata, SameIdentity
    <2> QED
      BY <1>1, <2>1, <2>2, <2>4 DEF SidecarsInv
  <1>4. DOMAIN objects = {} /\ objects = [o \in DOMAIN objects |-> objects[o]]
    BY <1>1 DEF NoneLoaded
  <1>5. HeapInv(objects, loaded, held)
    BY <1>1, <1>4 DEF HeapInv
  <1>6. CallsInv(catalog.entries, objects, stack)
    BY <1>1, NoCalls
  <1>7. Trusted({}, Future, objects, loaded, stack)
    <2>1. Range(loaded) = {} /\ DOMAIN stack = {}
      BY <1>1, <1>4 DEF Range
    <2> QED
      BY <2>1 DEF Trusted
  <1>8. CacheInv
    BY <1>1, <1>5, <1>6, <1>7 DEF CacheInv
  <1> QED
    BY <1>2, <1>3, <1>8

LEMMA DatabaseNext ==
  ASSUME BaseInv, CacheInv, [Next]_vars
  PROVE  EntriesInv' /\ SidecarsInv' /\ CacheInv'
  <1>1. CASE Open \/ OpenPackaged \/ Close
    BY <1>1, OpenStep
  <1>2. CASE TakePlan
    BY <1>2, TakePlanStep
  <1>3. CASE \E h \in EngineAssets : RegisterEngineAsset(h)
    BY <1>3, RegisterStep
  <1>4. CASE EraseNext
    BY <1>4, EraseNextStep
  <1>5. CASE InsertNext
    BY <1>5, InsertNextStep
  <1>6. CASE ForgetOrphan
    BY <1>6, ForgetOrphanStep
  <1>7. CASE \E s \in Files : Import(s)
    BY <1>7, ImportStep
  <1>8. CASE \/ \E s \in Files : DeleteSource(s) \/ DeleteSidecar(s)
             \/ \E h \in Handles : Unload(h) \/ UnloadWithDependents(h)
    BY <1>8, SmallSteps
  <1>9. CASE \/ Drop \/ Loading
             \/ \E h \in Handles : stack = <<>> /\ (LoadCached(h) \/ BeginLoad(h))
    <2>1. UNCHANGED <<mode, catalog, work, plans, sources, sidecars>>
      BY <1>9 DEF Drop, Loading, LoadCached, BeginLoad, DependencyFails, Decode, DecodeFails, files
    <2>2. CacheInv'
      BY <1>9, OtherLoads, LoadCachedStep, BeginLoadStep, DecodeStep, Zenon DEF Loading
    <2> QED
      BY <2>1, <2>2, CatalogUntouched
  <1>10. CASE UNCHANGED vars
    <2>1. UNCHANGED <<mode, catalog, work, plans, sources, sidecars>> /\ UNCHANGED <<objects, loaded, held, stack>>
      BY <1>10 DEF vars, files, cache, calls
    <2>2. EntriesInv' /\ SidecarsInv' /\ Future' = Future
      BY <2>1, CatalogUntouched
    <2>3. CacheInv'
      BY <2>1, <2>2 DEF CacheInv
    <2> QED
      BY <2>2, <2>3
  <1>11. CASE \E taken \in plans : ApplyReconcile(taken)
    BY <1>11, ApplyReconcileStep
  <1> QED
    BY <1>1, <1>2, <1>3, <1>4, <1>5, <1>6, <1>7, <1>8, <1>9, <1>10, <1>11 DEF Next

(***************************************************************************)
(* The invariant of the manager.  Inside an operation and between two, the  *)
(* catalog as it will be, the sidecars and the plan the application keeps   *)
(* give a handle to one asset only, though with other dependencies; a load  *)
(* under way has the first of its dependencies in order; and some set of    *)
(* objects, with all that load returns from the cache in it, is fresh and   *)
(* closed under the parts of those that are not adrift, each of which has   *)
(* metadata that depends on them.  Any plan may be applied at any time.     *)
(***************************************************************************)
THEOREM DatabaseInvariance == Spec => []DatabaseInv
  <1>1. DatabaseInv <=> IndicesAgree /\ EntriesInv /\ SidecarsInv /\ CacheInv
    BY DEF DatabaseInv, CacheInv
  <1>2. Init => EntriesInv /\ SidecarsInv /\ CacheInv
    BY DatabaseInit
  <1>3. Sound(catalog) /\ (EntriesInv /\ SidecarsInv /\ CacheInv) /\ [Next]_vars
          => (EntriesInv /\ SidecarsInv /\ CacheInv)'
    BY DatabaseNext DEF BaseInv
  <1> QED
    BY <1>1, <1>2, <1>3, CatalogSound, CatalogIndices, PTL DEF Spec

(***************************************************************************)
(* Whatever is imported again, forgotten, loaded and held, and however old  *)
(* the plan that applyReconcile is given: what load would return from the   *)
(* cache was decoded from the artifact as it is, and so was what it was     *)
(* decoded with, through any number of assets, but for what went into an    *)
(* asset whose catalog entry was taken away, or put back with fewer         *)
(* dependencies, without unloading it (rebuildUserCatalog, commitOutputs).  *)
(***************************************************************************)
THEOREM CacheFresh == Spec => []CacheCurrent
  <1>1. DatabaseInv /\ Sound(catalog) => CacheCurrent
    <2> SUFFICES ASSUME DatabaseInv, Sound(catalog), work = NoWork,
                        NEW h \in DOMAIN loaded, NEW o \in Reach(Moored, {loaded[h]})
                 PROVE  objects[o].fresh
      BY DEF CacheCurrent
    <2>1. PICK T \in SUBSET DOMAIN objects : Trusted(T, Future, objects, loaded, stack)
      BY DEF DatabaseInv
    <2>2. HeapInv(objects, loaded, held)
      BY DEF DatabaseInv
    <2> DEFINE objs == Moored
    <2>3. /\ DOMAIN objs = DOMAIN objects
          /\ \A p \in DOMAIN objects : ~objects[p].adrift => objs[p] = objects[p]
      BY DEF Moored
    <2>4. \A p \in DOMAIN objects : objects[p].adrift => Range(objs[p].parts) = {}
      <3> SUFFICES ASSUME NEW p \in DOMAIN objects, objects[p].adrift
                   PROVE  Range(objs[p].parts) = {}
        OBVIOUS
      <3>1. objs[p].parts = <<>>
        BY DEF Moored
      <3> QED
        BY <3>1 DEF Range
    <2> HIDE DEF objs
    <2>5. \A p \in DOMAIN objs : Range(objs[p].parts) \subseteq DOMAIN objs
      <3>1. \A p \in DOMAIN objects : Range(objects[p].parts) \subseteq DOMAIN objects
        BY <2>2 DEF HeapInv, Range
      <3> QED
        BY <2>3, <2>4, <3>1
    <2>6. DOMAIN objs \subseteq Handles \X Copies
      BY <2>2, <2>3 DEF HeapInv
    <2>7. {loaded[h]} \subseteq T
      BY <2>1 DEF Trusted, Range
    <2>8. ASSUME NEW p \in T
          PROVE  Range(objs[p].parts) \subseteq T
      <3>1. p \in DOMAIN objects
        BY <2>1
      <3>2. objects[p].adrift \/ MadeOf(p, T, Future, objects)
        BY <2>1, Zenon DEF Trusted
      <3>3. CASE objects[p].adrift
        BY <2>4, <3>1, <3>3
      <3>4. CASE ~objects[p].adrift
        <4>1. Range(objects[p].parts) \subseteq T
          BY <3>2, <3>4 DEF MadeOf
        <4> QED
          BY <2>3, <3>1, <3>4, <4>1
      <3> QED
        BY <3>3, <3>4
    <2>9. {loaded[h]} \in SUBSET DOMAIN objs /\ T \in SUBSET DOMAIN objs
      BY <2>1, <2>3, <2>7
    <2>10. Reach(objs, {loaded[h]}) \subseteq T
      BY <2>5, <2>6, <2>7, <2>8, <2>9, ReachIs
    <2>11. o \in T
      BY <2>10 DEF objs
    <2> QED
      BY <2>1, <2>11, Zenon DEF Trusted
  <1> QED
    BY <1>1, DatabaseInvariance, CatalogSound, PTL

-----------------------------------------------------------------------------
(* Reconciliation: partial functions. *)

LEMMA PutOf ==
  ASSUME NEW f, NEW x, NEW y
  PROVE  /\ DOMAIN Put(f, x, y) = DOMAIN f \cup {x}
         /\ Put(f, x, y)[x] = y
         /\ \A z \in DOMAIN f \ {x} : Put(f, x, y)[z] = f[z]
  BY DEF Put

LEMMA WithoutOf ==
  ASSUME NEW f, NEW S
  PROVE  /\ DOMAIN Without(f, S) = DOMAIN f \ S
         /\ \A z \in DOMAIN f \ S : Without(f, S)[z] = f[z]
  BY DEF Without, Restrict

\* The catalog made of sidecars has an entry for each UUID, for a path with it.
LEMMA ExpandOf ==
  ASSUME NEW f
  PROVE  /\ DOMAIN Expand(f) = {f[p] : p \in DOMAIN f}
         /\ \A h \in DOMAIN Expand(f) : Expand(f)[h] \in DOMAIN f /\ f[Expand(f)[h]] = h
  <1>1. DOMAIN Expand(f) = {f[p] : p \in DOMAIN f}
    BY DEF Expand, Range
  <1>2. ASSUME NEW h \in DOMAIN Expand(f)
        PROVE  Expand(f)[h] \in DOMAIN f /\ f[Expand(f)[h]] = h
    <2>1. Expand(f)[h] = CHOOSE p \in DOMAIN f : f[p] = h
      BY <1>2 DEF Expand
    <2>2. \E p \in DOMAIN f : f[p] = h
      BY <1>1, <1>2
    <2> QED
      BY <2>1, <2>2
  <1> QED
    BY <1>1, <1>2

LEMMA PartialPut ==
  ASSUME NEW f, NEW D, NEW R, IsPartial(f, D, R), NEW x \in D, NEW y \in R
  PROVE  IsPartial(Put(f, x, y), D, R)
  <1>1. DOMAIN f \subseteq D /\ \A z \in DOMAIN f : f[z] \in R
    BY DEF IsPartial, Range
  <1> DEFINE g == Put(f, x, y)
  <1>2. DOMAIN g = DOMAIN f \cup {x} /\ g[x] = y /\ \A z \in DOMAIN f \ {x} : g[z] = f[z]
    BY DEF Put
  <1> HIDE DEF g
  <1>3. DOMAIN g \subseteq D /\ \A z \in DOMAIN g : g[z] \in R
    BY <1>1, <1>2
  <1>4. IsPartial(g, D, R)
    BY <1>3 DEF IsPartial, Range
  <1> QED
    BY <1>4 DEF g

LEMMA PartialWithout ==
  ASSUME NEW f, NEW D, NEW R, IsPartial(f, D, R), NEW S
  PROVE  IsPartial(Without(f, S), D, R)
  <1>1. DOMAIN f \subseteq D /\ \A z \in DOMAIN f : f[z] \in R
    BY DEF IsPartial, Range
  <1> DEFINE g == Without(f, S)
  <1>2. DOMAIN g = DOMAIN f \ S /\ \A z \in DOMAIN f \ S : g[z] = f[z]
    BY WithoutOf
  <1> HIDE DEF g
  <1>3. DOMAIN g \subseteq D /\ \A z \in DOMAIN g : g[z] \in R
    BY <1>1, <1>2
  <1>4. IsPartial(g, D, R)
    BY <1>3 DEF IsPartial, Range
  <1> QED
    BY <1>4 DEF g

LEMMA PartialWider ==
  ASSUME NEW f, NEW D, NEW E, NEW R, IsPartial(f, D, R), D \subseteq E
  PROVE  IsPartial(f, E, R)
  BY DEF IsPartial

LEMMA PartialEmpty ==
  ASSUME NEW D, NEW R, NEW y
  PROVE  IsPartial([x \in {} |-> y], D, R)
  BY DEF IsPartial, Range

LEMMA PartialPointwise ==
  ASSUME NEW f, NEW D, NEW R, DOMAIN f \subseteq D, \A x \in DOMAIN f : f[x] \in R
  PROVE  IsPartial(f, D, R)
  BY DEF IsPartial, Range

LEMMA PartialAt ==
  ASSUME NEW f, NEW D, NEW R, IsPartial(f, D, R)
  PROVE  DOMAIN f \subseteq D /\ \A x \in DOMAIN f : f[x] \in R
  BY DEF IsPartial, Range

-----------------------------------------------------------------------------
(* Sidecars. *)

LEMMA SidecarFields ==
  ASSUME NEW s \in Sidecar
  PROVE  /\ s.path \in Paths \cup {NoPath} /\ s.handle \in UUIDs \cup {NoHandle}
         /\ s.content \in Contents \cup {NoContent} /\ s.authored \in Authored \cup {None}
         /\ s.inferred \in Values \cup {None} /\ s.resolved \in Values \cup {None}
  BY DEF Sidecar

LEMMA SidecarInferring ==
  ASSUME NEW s \in Sidecar, NEW v \in Values \cup {None}
  PROVE  LET t == [s EXCEPT !.inferred = v]
         IN  /\ t \in Sidecar
             /\ t.path = s.path /\ t.handle = s.handle /\ t.content = s.content
             /\ t.authored = s.authored /\ t.resolved = s.resolved /\ t.inferred = v
  BY DEF Sidecar

LEMMA SidecarAuthored ==
  ASSUME NEW s \in Sidecar, NEW v \in Authored \cup {None}
  PROVE  LET t == [s EXCEPT !.authored = v]
         IN  /\ t \in Sidecar
             /\ t.path = s.path /\ t.handle = s.handle /\ t.content = s.content
             /\ t.authored = v /\ t.resolved = s.resolved /\ t.inferred = s.inferred
  BY DEF Sidecar

LEMMA TornSidecar ==
  /\ Torn \in Sidecar /\ Torn.handle = NoHandle /\ Torn.path = NoPath
  /\ Torn.authored = None /\ Torn.inferred = None
  BY DEF Torn, Sidecar

LEMMA CutSidecar ==
  ASSUME NEW s \in Sidecar
  PROVE  /\ Cut(s) \in Sidecar /\ Cut(s).handle = NoHandle /\ Cut(s).path = s.path
         /\ Cut(s).authored = s.authored /\ Cut(s).inferred = s.inferred
  BY DEF Cut, Sidecar

LEMMA ShellSidecar ==
  ASSUME NEW p \in Paths
  PROVE  /\ Shell(p) \in Sidecar /\ Shell(p).path = p /\ Shell(p).handle = NoHandle
         /\ Shell(p).authored = None /\ Shell(p).inferred = None
  BY DEF Shell, Torn, Sidecar

\* What writeMetadata may leave next to p.
LEMMA WrittenOf ==
  ASSUME NEW p, NEW s, NEW outcome \in Outcomes
  PROVE  \/ outcome = "kept" /\ Written(p, s, outcome) = meta
         \/ outcome = "written" /\ Written(p, s, outcome) = Put(meta, p, s)
         \/ outcome = "torn" /\ Written(p, s, outcome) = Put(meta, p, Torn)
         \/ outcome = "cut" /\ Written(p, s, outcome) = Put(meta, p, Cut(s))
  BY DEF Outcomes, Written

LEMMA OwnersAre ==
  \A p : p \in Owners <=> /\ p \in DOMAIN meta /\ meta[p].path = p /\ p # NoPath
                          /\ meta[p].handle # NoHandle
  BY DEF Owners, Readable, Parses

LEMMA MetaTyped ==
  ASSUME TypeOK
  PROVE  \A p \in DOMAIN meta : p \in Paths /\ meta[p] \in Sidecar
  BY PartialAt DEF TypeOK

\* readMetadata gives the sidecar of an owner, and makes a shell of nothing.
LEMMA ReadIs ==
  ASSUME TypeOK, NEW p \in Paths
  PROVE  /\ ReadMetadata(p, meta) \in Sidecar
         /\ ReadMetadata(p, meta).path = p
         /\ \/ ReadMetadata(p, meta).handle = NoHandle /\ p \notin Owners
            \/ p \in Owners /\ ReadMetadata(p, meta) = meta[p]
  BY MetaTyped, OwnersAre, ShellSidecar DEF ReadMetadata, Parses

LEMMA InferredTyped ==
  ASSUME NEW p
  PROVE  Inferred(p) \in Values \cup {None}
  <1> USE AssetAssumption
  <1>1. CASE Candidates(p) = {}
    BY <1>1 DEF Inferred
  <1>2. CASE Candidates(p) # {}
    <2> DEFINE publishers == {s.publisher : s \in Candidates(p)}
    <2>1. \A s \in Candidates(p) : s.publisher \in Nat /\ s.value \in Values
      BY DEF Candidates, Suggestion
    <2>2. publishers \in SUBSET Nat /\ publishers # {}
      BY <1>2, <2>1
    <2>3. PICK n \in publishers : \A m \in publishers : n <= m
      BY <2>2, LeastOf
    <2>4. \E s \in Candidates(p) : \A t \in Candidates(p) : s.publisher <= t.publisher
      BY <2>3
    <2>5. (CHOOSE s \in Candidates(p) : \A t \in Candidates(p) : s.publisher <= t.publisher)
            \in Candidates(p)
      BY <2>4
    <2> QED
      BY <1>2, <2>1, <2>5 DEF Inferred
  <1> QED
    BY <1>1, <1>2

LEMMA ResolveTyped ==
  ASSUME NEW authored, NEW inferred
  PROVE  Resolve(authored, inferred) \in Values
  BY AssetAssumption DEF Resolve, Matches

-----------------------------------------------------------------------------
(* What the steps that write a sidecar do. *)

RewrittenAt(p, t) ==
  /\ DOMAIN meta' = DOMAIN meta \cup {p}
  /\ meta'[p] = t
  /\ \A q \in DOMAIN meta \ {p} : meta'[q] = meta[q]

LEMMA WriteEffect ==
  ASSUME NEW p, NEW s, NEW outcome \in Outcomes, meta' = Written(p, s, outcome)
  PROVE  /\ outcome = "kept" => meta' = meta
         /\ outcome = "written" => RewrittenAt(p, s)
         /\ outcome = "torn" => RewrittenAt(p, Torn)
         /\ outcome = "cut" => RewrittenAt(p, Cut(s))
  <1>1. \A t : meta' = Put(meta, p, t) => RewrittenAt(p, t)
    BY DEF RewrittenAt, Put
  <1> QED
    BY <1>1, WrittenOf

LEMMA RewrittenTyped ==
  ASSUME TypeOK, NEW p \in Paths, NEW t \in Sidecar, RewrittenAt(p, t)
  PROVE  IsPartial(meta', Paths, Sidecar)
  <1>1. DOMAIN meta' \subseteq Paths /\ \A q \in DOMAIN meta' : meta'[q] \in Sidecar
    BY MetaTyped DEF RewrittenAt
  <1> QED
    BY <1>1, PartialPointwise

LEMMA RemoveOrphanEffect ==
  ASSUME TypeOK, NEW p, NEW metadataRemoved, NEW artifactRemoved,
         RemoveOrphan(p, metadataRemoved, artifactRemoved)
  PROVE  /\ plan'.items = plan.items /\ plan'.accepted = plan.accepted
         /\ plan'.orphans = Without(plan.orphans, {p})
         /\ plan' = [items |-> plan'.items, accepted |-> plan'.accepted, orphans |-> plan'.orphans]
         /\ DOMAIN plan'.orphans = DOMAIN plan.orphans \ {p}
         /\ \A q \in DOMAIN plan'.orphans : plan'.orphans[q] = plan.orphans[q]
  <1>1. /\ plan' = [plan EXCEPT !.orphans = Without(plan.orphans, {p})]
        /\ plan = [items |-> plan.items, accepted |-> plan.accepted, orphans |-> plan.orphans]
    BY DEF RemoveOrphan, TypeOK
  <1>2. /\ plan'.items = plan.items /\ plan'.accepted = plan.accepted
        /\ plan'.orphans = Without(plan.orphans, {p})
        /\ plan' = [items |-> plan'.items, accepted |-> plan'.accepted, orphans |-> plan'.orphans]
    BY <1>1
  <1> QED
    BY <1>2 DEF Without, Restrict

\* An item's sidecar has the same asset as before, or none.
LEMMA ApplyItemEffect ==
  ASSUME TypeOK, NEW p \in Paths, NEW outcome \in Outcomes, ApplyItem(p, outcome)
  PROVE  /\ p \in DOMAIN plan.items
         /\ \/ /\ meta' = meta
               /\ plan.items[p].inferred # None /\ outcome = "written"
                    => ReadMetadata(p, meta).inferred = plan.items[p].inferred
            \/ \E t \in Sidecar :
                 /\ RewrittenAt(p, t)
                 /\ outcome = "written" =>
                      /\ t.path = p /\ t.inferred = plan.items[p].inferred
                      /\ t.handle = ReadMetadata(p, meta).handle
                      /\ t.content = ReadMetadata(p, meta).content
                      /\ t.authored = ReadMetadata(p, meta).authored
                      /\ t.resolved = ReadMetadata(p, meta).resolved
                 /\ outcome # "written" => t.handle = NoHandle
         /\ DOMAIN plan'.items = DOMAIN plan.items \ {p}
         /\ \A q \in DOMAIN plan'.items : plan'.items[q] = plan.items[q]
         /\ plan'.orphans = plan.orphans /\ plan'.accepted = plan.accepted
         /\ plan' = [items |-> plan'.items, accepted |-> plan'.accepted, orphans |-> plan'.orphans]
  <1> DEFINE s == [ReadMetadata(p, meta) EXCEPT !.inferred = plan.items[p].inferred]
  <1>1. p \in DOMAIN plan.items /\ plan.items[p] \in Item
    BY PartialAt DEF TypeOK, ApplyItem
  <1>2. plan.items[p].inferred \in Values \cup {None}
    BY <1>1 DEF Item
  <1>3. ReadMetadata(p, meta) \in Sidecar /\ ReadMetadata(p, meta).path = p
    BY ReadIs
  <1>4. /\ s \in Sidecar
        /\ s.path = p /\ s.handle = ReadMetadata(p, meta).handle
        /\ s.content = ReadMetadata(p, meta).content
        /\ s.authored = ReadMetadata(p, meta).authored
        /\ s.resolved = ReadMetadata(p, meta).resolved /\ s.inferred = plan.items[p].inferred
    BY <1>2, <1>3, SidecarInferring
  <1>5. \/ /\ SettingsChange(p, plan.items[p].inferred)
           /\ meta' = Written(p, s, outcome)
        \/ /\ ~SettingsChange(p, plan.items[p].inferred)
           /\ meta' = meta
    BY DEF ApplyItem
  <1>6. /\ plan' = [plan EXCEPT !.items = Without(plan.items, {p})]
        /\ plan = [items |-> plan.items, accepted |-> plan.accepted, orphans |-> plan.orphans]
    BY DEF ApplyItem, TypeOK
  <1>7. /\ plan'.items = Without(plan.items, {p})
        /\ plan'.orphans = plan.orphans /\ plan'.accepted = plan.accepted
        /\ plan' = [items |-> plan'.items, accepted |-> plan'.accepted, orphans |-> plan'.orphans]
    BY <1>6
  <1>8. /\ DOMAIN plan'.items = DOMAIN plan.items \ {p}
        /\ \A q \in DOMAIN plan'.items : plan'.items[q] = plan.items[q]
    BY <1>7 DEF Without, Restrict
  <1> HIDE DEF s
  <1>9. CASE ~SettingsChange(p, plan.items[p].inferred)
    BY <1>1, <1>5, <1>7, <1>8, <1>9 DEF SettingsChange
  <1>10. CASE SettingsChange(p, plan.items[p].inferred)
    <2>1. CASE outcome = "kept"
      BY <1>1, <1>5, <1>7, <1>8, <1>10, <2>1, WriteEffect
    <2>2. CASE outcome = "written"
      BY <1>1, <1>4, <1>5, <1>7, <1>8, <1>10, <2>2, WriteEffect
    <2>3. CASE outcome = "torn"
      BY <1>1, <1>5, <1>7, <1>8, <1>10, <2>3, WriteEffect, TornSidecar
    <2>4. CASE outcome = "cut"
      BY <1>1, <1>4, <1>5, <1>7, <1>8, <1>10, <2>4, WriteEffect, CutSidecar
    <2> QED
      BY <2>1, <2>2, <2>3, <2>4 DEF Outcomes
  <1> QED
    BY <1>9, <1>10

\* commitOutputs writes a sidecar with the new asset, or leaves the old one, or
\* one without an asset.
LEMMA WriteMetadataEffect ==
  ASSUME TypeOK, JobInv, NEW outcome \in Outcomes, WriteMetadata(outcome)
  PROVE  /\ job.path \in Paths
         /\ outcome = "kept" => meta' = meta
         /\ outcome # "kept" =>
              \E t \in Sidecar :
                 /\ RewrittenAt(job.path, t)
                 /\ outcome = "written" =>
                      /\ t.path = job.path /\ t.handle = job.handle /\ t.content = job.content
                      /\ t.authored = job.authored /\ t.inferred = job.inferred
                      /\ t.resolved = Resolve(job.authored, job.inferred)
                 /\ outcome # "written" => t.handle = NoHandle /\ ~clean'
  <1> DEFINE s == [path |-> job.path, handle |-> job.handle, content |-> job.content,
                   authored |-> job.authored, inferred |-> job.inferred,
                   resolved |-> Resolve(job.authored, job.inferred)]
  <1>1. job \in Job
    BY DEF TypeOK
  <1>2. job.stage = "artifact" /\ meta' = Written(job.path, s, outcome)
        /\ clean' = (clean /\ outcome = "written")
    BY DEF WriteMetadata
  <1>3. job.path \in Paths
    BY <1>2 DEF JobInv, NoJob
  <1>4. s \in Sidecar
    BY <1>1, <1>3, ResolveTyped DEF Job, Sidecar
  <1>5. /\ s.path = job.path /\ s.handle = job.handle /\ s.content = job.content
        /\ s.authored = job.authored /\ s.inferred = job.inferred
        /\ s.resolved = Resolve(job.authored, job.inferred)
    OBVIOUS
  <1> HIDE DEF s
  <1>6. CASE outcome = "kept"
    BY <1>2, <1>3, <1>6, WriteEffect
  <1>7. CASE outcome = "written"
    BY <1>2, <1>3, <1>4, <1>5, <1>7, WriteEffect
  <1>8. CASE outcome = "torn"
    BY <1>2, <1>3, <1>8, WriteEffect, TornSidecar
  <1>9. CASE outcome = "cut"
    BY <1>2, <1>3, <1>4, <1>9, WriteEffect, CutSidecar
  <1> QED
    BY <1>6, <1>7, <1>8, <1>9 DEF Outcomes

-----------------------------------------------------------------------------
(* The invariant, part by part. *)

LEMMA IssuedKept ==
  ASSUME TypeOK, IssuedInv, fresh' = fresh,
         \A h \in UUIDs : \A p \in Paths \cup {NoPath} : IssuedTo(h, p)' => IssuedTo(h, p)
  PROVE  IssuedInv'
  BY DEF IssuedInv

\* A plan that is given up, or applied a step further, has no new asset.
LEMMA PlanShrinks ==
  ASSUME \/ plan' = plan
         \/ plan' = NoPlan
         \/ /\ plan'.accepted = plan.accepted
            /\ DOMAIN plan'.orphans \subseteq DOMAIN plan.orphans
            /\ \A p \in DOMAIN plan'.orphans : plan'.orphans[p] = plan.orphans[p]
  PROVE  \A p : PlannedFor(p)' \subseteq PlannedFor(p)
  <1>1. CASE plan' = plan
    BY <1>1 DEF PlannedFor
  <1>2. CASE plan' = NoPlan
    BY <1>2 DEF PlannedFor, NoPlan
  <1>3. CASE /\ plan'.accepted = plan.accepted
             /\ DOMAIN plan'.orphans \subseteq DOMAIN plan.orphans
             /\ \A p \in DOMAIN plan'.orphans : plan'.orphans[p] = plan.orphans[p]
    BY <1>3 DEF PlannedFor
  <1> QED
    BY <1>1, <1>2, <1>3

\* The entries that Expand makes of sidecars, or of a plan.
LEMMA IssuedExpand ==
  ASSUME NEW f, \A p \in DOMAIN f : IssuedTo(f[p], p)
  PROVE  \A h \in DOMAIN Expand(f) : IssuedTo(h, Expand(f)[h])
  <1>1. \A h \in DOMAIN Expand(f) : Expand(f)[h] \in DOMAIN f /\ f[Expand(f)[h]] = h
    BY ExpandOf
  <1> QED
    BY <1>1

LEMMA OwnersIssued ==
  /\ DOMAIN OnDisk = Owners
  /\ \A p \in Owners : OnDisk[p] = meta[p].handle /\ IssuedTo(meta[p].handle, p)
  BY OwnersAre DEF OnDisk, IssuedTo

LEMMA PlanIssued ==
  ASSUME TypeOK
  PROVE  /\ \A p \in DOMAIN plan.accepted :
              p \in Paths /\ plan.accepted[p] \in UUIDs /\ IssuedTo(plan.accepted[p], p)
         /\ \A p \in DOMAIN plan.orphans \ DOMAIN plan.accepted :
              p \in Paths /\ plan.orphans[p] \in UUIDs /\ IssuedTo(plan.orphans[p], p)
  <1>1. \A p \in DOMAIN plan.accepted : p \in Paths /\ plan.accepted[p] \in UUIDs
    BY PartialAt DEF TypeOK
  <1>2. \A p \in DOMAIN plan.orphans : p \in Paths /\ plan.orphans[p] \in UUIDs
    BY PartialAt DEF TypeOK
  <1> QED
    BY <1>1, <1>2 DEF IssuedTo, PlannedFor

LEMMA IssuedRewritten ==
  ASSUME TypeOK, NEW p \in Paths, NEW t \in Sidecar, RewrittenAt(p, t),
         t.handle # NoHandle => IssuedTo(t.handle, t.path)
  PROVE  \A h \in UUIDs : \A r : (\E q \in DOMAIN meta' : meta'[q].handle = h /\ meta'[q].path = r)
            => IssuedTo(h, r)
  <1> SUFFICES ASSUME NEW h \in UUIDs, NEW r,
                      NEW q \in DOMAIN meta', meta'[q].handle = h, meta'[q].path = r
               PROVE  IssuedTo(h, r)
    OBVIOUS
  <1>1. h # NoHandle
    BY DEF UUIDs, NoHandle
  <1>2. CASE q = p
    BY <1>1, <1>2 DEF RewrittenAt
  <1>3. CASE q # p
    BY <1>3 DEF RewrittenAt, IssuedTo
  <1> QED
    BY <1>2, <1>3

LEMMA IssuedStep ==
  ASSUME TypeOK, IssuedInv, PlanInv, JobInv, [ReconcileNext]_reconcileVars
  PROVE  IssuedInv'
  <1>1. CASE OrphansRemoved \/ ReconcileEnds \/ UNCHANGED <<meta, userCatalog, job, fresh, plan>>
    <2>1. UNCHANGED <<meta, userCatalog, job, fresh>> /\ (plan' = plan \/ plan' = NoPlan)
      BY <1>1 DEF OrphansRemoved, ReconcileEnds
    <2>2. \A p : PlannedFor(p)' \subseteq PlannedFor(p)
      BY <2>1, PlanShrinks
    <2> QED
      BY <2>1, <2>2, IssuedKept DEF IssuedTo
  <1>2. CASE RebuildCatalog
    <2>1. userCatalog' = Expand(plan.accepted) /\ UNCHANGED <<meta, job, fresh, plan>>
      BY <1>2 DEF RebuildCatalog
    <2>2. \A h \in DOMAIN userCatalog' : IssuedTo(h, userCatalog'[h])
      BY <2>1, IssuedExpand, PlanIssued
    <2>3. \A p : PlannedFor(p)' \subseteq PlannedFor(p)
      BY <2>1, PlanShrinks
    <2> QED
      BY <2>1, <2>2, <2>3, IssuedKept DEF IssuedTo
  <1>13. CASE PlanReconcile
    <2>1. /\ UNCHANGED <<meta, userCatalog, job, fresh>>
          /\ plan'.accepted = Restrict(OnDisk, Owners \cap Present)
          /\ plan'.orphans = Restrict(OnDisk, Owners \ Present)
      BY <1>13 DEF PlanReconcile
    <2>2. /\ DOMAIN plan'.accepted = Owners \cap Present /\ DOMAIN plan'.orphans = Owners \ Present
          /\ \A p \in DOMAIN plan'.accepted : plan'.accepted[p] = meta[p].handle
          /\ \A p \in DOMAIN plan'.orphans : plan'.orphans[p] = meta[p].handle
      BY <2>1, RestrictOf, OwnersIssued
    <2>3. \A p : \A h \in PlannedFor(p)' : p \in Owners /\ h = meta[p].handle
      BY <2>2 DEF PlannedFor
    <2>4. \A p : \A h \in PlannedFor(p)' : IssuedTo(h, p)
      BY <2>3, OwnersIssued
    <2> QED
      BY <2>1, <2>4, IssuedKept DEF IssuedTo
  <1>3. ASSUME NEW p \in Paths, NEW metadataRemoved \in BOOLEAN, NEW artifactRemoved \in BOOLEAN,
               RemoveOrphan(p, metadataRemoved, artifactRemoved)
        PROVE  IssuedInv'
    <2>1. /\ meta' = meta \/ meta' = Without(meta, {p})
          /\ UNCHANGED <<userCatalog, job, fresh>>
      BY <1>3 DEF RemoveOrphan, MetadataWithout
    <2>2. DOMAIN meta' \subseteq DOMAIN meta /\ \A q \in DOMAIN meta' : meta'[q] = meta[q]
      BY <2>1 DEF Without, Restrict
    <2>3. \A q : PlannedFor(q)' \subseteq PlannedFor(q)
      BY <1>3, RemoveOrphanEffect, PlanShrinks
    <2> QED
      BY <2>1, <2>2, <2>3, IssuedKept DEF IssuedTo
  <1>4. ASSUME NEW p \in Paths, NEW outcome \in Outcomes, ApplyItem(p, outcome)
        PROVE  IssuedInv'
    <2>1. /\ UNCHANGED <<userCatalog, fresh>> /\ job'.stage # "artifact"
          /\ \A r : PlannedFor(r)' \subseteq PlannedFor(r)
      <3>1. \A r : PlannedFor(r)' \subseteq PlannedFor(r)
        BY <1>4, ApplyItemEffect, PlanShrinks
      <3> QED
        BY <1>4, <3>1 DEF ApplyItem, ImportJob, NoJob
    <2>2. CASE meta' = meta
      BY <2>1, <2>2, IssuedKept DEF IssuedTo
    <2>3. CASE meta' # meta
      <3>1. PICK t \in Sidecar :
                 /\ RewrittenAt(p, t)
                 /\ outcome = "written" =>
                      t.path = p /\ t.handle = ReadMetadata(p, meta).handle
                 /\ outcome # "written" => t.handle = NoHandle
        BY <1>4, <2>3, ApplyItemEffect
      <3>2. t.handle # NoHandle => p \in Owners /\ t.handle = meta[p].handle /\ t.path = meta[p].path
        BY <3>1, ReadIs, OwnersAre
      <3>3. t.handle # NoHandle => IssuedTo(t.handle, t.path)
        BY <3>2, OwnersAre DEF IssuedTo
      <3>4. \A h \in UUIDs : \A r : (\E q \in DOMAIN meta' : meta'[q].handle = h /\ meta'[q].path = r)
               => IssuedTo(h, r)
        BY <3>1, <3>3, IssuedRewritten
      <3>5. \A h \in UUIDs : \A r \in Paths \cup {NoPath} : IssuedTo(h, r)' => IssuedTo(h, r)
        BY <2>1, <3>4 DEF IssuedTo
      <3> QED
        BY <2>1, <3>5, IssuedKept
    <2> QED
      BY <2>2, <2>3
  <1>5. CASE (\E p \in Paths : ImportDirectly(p)) \/ ImporterFails
    <2>1. UNCHANGED <<meta, userCatalog, fresh, plan>> /\ job'.stage # "artifact"
      BY <1>5 DEF ImportDirectly, ImporterFails, ImportJob, NoJob
    <2>2. \A p : PlannedFor(p)' \subseteq PlannedFor(p)
      BY <2>1, PlanShrinks
    <2> QED
      BY <2>1, <2>2, IssuedKept DEF IssuedTo
  <1>6. ASSUME NEW complete \in BOOLEAN, WriteArtifact(complete)
        PROVE  IssuedInv'
    <2> DEFINE handle == HandleFor(job.path)
    <2>1. /\ job.stage = "importing" /\ UNCHANGED <<meta, userCatalog, plan>>
          /\ fresh' = IF handle = fresh THEN fresh + 1 ELSE fresh
          /\ job' = IF complete THEN [job EXCEPT !.stage = "artifact", !.handle = handle] ELSE NoJob
      BY <1>6 DEF WriteArtifact
    <2>2. job \in Job /\ fresh \in Nat /\ job.path \in Paths
      BY <2>1 DEF TypeOK, JobInv, NoJob
    <2>3. job'.stage = "artifact" => job'.handle = handle /\ job'.path = job.path
      BY <2>1, <2>2 DEF Job, NoJob
    <2>4. \/ handle \in DOMAIN userCatalog /\ userCatalog[handle] = job.path
          \/ handle = fresh
      BY DEF HandleFor, Range
    <2> HIDE DEF handle
    <2>5. ASSUME NEW h \in UUIDs, NEW r \in Paths \cup {NoPath}, IssuedTo(h, r)'
          PROVE  IssuedTo(h, r) \/ (h = fresh /\ r = job.path /\ handle = fresh)
      BY <2>1, <2>3, <2>4, <2>5 DEF IssuedTo, PlannedFor
    <2>6. \A h \in UUIDs : \A r \in Paths \cup {NoPath} : IssuedTo(h, r) => h < fresh
      BY DEF IssuedInv
    <2>7. job.path # NoPath
      BY <2>2, AssetAssumption
    <2>8. SUFFICES ASSUME NEW h \in UUIDs, NEW r \in Paths \cup {NoPath},
                          NEW q \in Paths \cup {NoPath}, IssuedTo(h, r)'
                   PROVE  h < fresh' /\ r # NoPath /\ (IssuedTo(h, q)' => r = q)
      BY DEF IssuedInv
    <2>9. h \in Nat /\ (handle = fresh => fresh' = fresh + 1) /\ fresh' \in {fresh, fresh + 1}
      BY <2>1 DEF UUIDs
    <2>10. CASE IssuedTo(h, r)
      BY <2>2, <2>5, <2>6, <2>9, <2>10 DEF IssuedInv
    <2>11. CASE ~IssuedTo(h, r)
      <3>1. h = fresh /\ r = job.path /\ handle = fresh
        BY <2>5, <2>8, <2>11
      <3>2. IssuedTo(h, q)' => q = job.path
        BY <2>2, <2>5, <2>6, <3>1
      <3> QED
        BY <2>2, <2>7, <2>9, <3>1, <3>2
    <2> QED
      BY <2>10, <2>11
  <1>7. ASSUME NEW outcome \in Outcomes, WriteMetadata(outcome)
        PROVE  IssuedInv'
    <2>1. /\ job.stage = "artifact" /\ job' = NoJob /\ UNCHANGED <<fresh, plan>>
          /\ userCatalog' = userCatalog \/ userCatalog' = Committed(userCatalog)
      BY <1>7 DEF WriteMetadata
    <2>2. IssuedTo(job.handle, job.path)
      BY <2>1 DEF IssuedTo
    <2>3. \A h \in DOMAIN userCatalog' : IssuedTo(h, userCatalog'[h])
      <3>1. CASE userCatalog' = userCatalog
        BY <3>1 DEF IssuedTo
      <3>2. CASE userCatalog' = Committed(userCatalog)
        <4> DEFINE S == {h \in DOMAIN userCatalog : userCatalog[h] = job.path}
        <4>1. userCatalog' = Put(Without(userCatalog, S), job.handle, job.path)
          BY <3>2 DEF Committed
        <4> HIDE DEF S
        <4>2. ASSUME NEW h \in DOMAIN userCatalog'
              PROVE  \/ h = job.handle /\ userCatalog'[h] = job.path
                     \/ h \in DOMAIN userCatalog /\ userCatalog'[h] = userCatalog[h]
          BY <4>1, <4>2 DEF Put, Without, Restrict
        <4>3. \A h \in DOMAIN userCatalog' : IssuedTo(h, userCatalog'[h])
          BY <2>2, <4>2 DEF IssuedTo
        <4> QED
          BY <4>3
      <3> QED
        BY <2>1, <3>1, <3>2
    <2>4. \A h \in UUIDs : \A r : (\E q \in DOMAIN meta' : meta'[q].handle = h /\ meta'[q].path = r)
             => IssuedTo(h, r)
      <3>1. CASE outcome = "kept"
        BY <1>7, <3>1, WriteMetadataEffect DEF IssuedTo
      <3>2. CASE outcome # "kept"
        <4>1. PICK t \in Sidecar :
                 /\ RewrittenAt(job.path, t)
                 /\ outcome = "written" => t.path = job.path /\ t.handle = job.handle
                 /\ outcome # "written" => t.handle = NoHandle
          BY <1>7, <3>2, WriteMetadataEffect
        <4>2. job.path \in Paths /\ (t.handle # NoHandle => IssuedTo(t.handle, t.path))
          BY <1>7, <2>2, <4>1, WriteMetadataEffect
        <4> QED
          BY <4>1, <4>2, IssuedRewritten
      <3> QED
        BY <3>1, <3>2
    <2>5. \A h \in UUIDs : \A r \in Paths \cup {NoPath} : IssuedTo(h, r)' => IssuedTo(h, r)
      BY <2>1, <2>3, <2>4 DEF IssuedTo, NoJob, PlannedFor
    <2> QED
      BY <2>1, <2>5, IssuedKept
  <1>8. CASE \/ (\E p \in Paths, content \in Contents : EditSource(p, content))
             \/ (\E p \in Paths : DeleteSourceFile(p))
             \/ DeleteLibrary
    BY <1>1, <1>8 DEF EditSource, DeleteSourceFile, DeleteLibrary, manager
  <1>9. ASSUME NEW p \in Paths, DeleteMetadata(p)
        PROVE  IssuedInv'
    <2>1. meta' = Without(meta, {p}) /\ UNCHANGED <<userCatalog, job, fresh, plan>>
      BY <1>9 DEF DeleteMetadata, manager
    <2>2. DOMAIN meta' \subseteq DOMAIN meta /\ \A q \in DOMAIN meta' : meta'[q] = meta[q]
      BY <2>1 DEF Without, Restrict
    <2> QED
      BY <2>1, <2>2, IssuedKept DEF IssuedTo, PlannedFor
  <1>10. ASSUME NEW p \in Paths, NEW value \in Authored \cup {None}, Author(p, value)
         PROVE  IssuedInv'
    <2>1. /\ p \in DOMAIN meta /\ UNCHANGED <<userCatalog, job, fresh, plan>>
          /\ meta' = [meta EXCEPT ![p].authored = value]
      BY <1>10, OwnersAre DEF Author, manager
    <2>2. meta[p] \in Sidecar
      BY <2>1, MetaTyped
    <2>3. /\ DOMAIN meta' = DOMAIN meta
          /\ \A q \in DOMAIN meta : meta'[q].handle = meta[q].handle /\ meta'[q].path = meta[q].path
      BY <2>1, <2>2, SidecarAuthored
    <2> QED
      BY <2>1, <2>3, IssuedKept DEF IssuedTo, PlannedFor
  <1>11. ASSUME NEW p \in Paths, NEW q \in Paths, Rename(p, q)
         PROVE  IssuedInv'
    <2>1. /\ p \in DOMAIN meta /\ UNCHANGED <<userCatalog, job, fresh, plan>>
          /\ meta' = Put(Without(meta, {p}), q, meta[p])
      BY <1>11 DEF Rename, manager
    <2>2. \A r \in DOMAIN meta' : \E s \in DOMAIN meta : meta'[r] = meta[s]
      BY <2>1 DEF Put, Without, Restrict
    <2> QED
      BY <2>1, <2>2, IssuedKept DEF IssuedTo, PlannedFor
  <1>12. CASE Reopen \/ Crash
    <2>1. /\ UNCHANGED <<meta, fresh>> /\ job' = NoJob /\ userCatalog' = Expand(OnDisk)
          /\ plan' = plan \/ plan' = NoPlan
      BY <1>12 DEF Reopen, Ready, Crash
    <2>2. \A h \in DOMAIN userCatalog' : IssuedTo(h, userCatalog'[h])
      BY <2>1, IssuedExpand, OwnersIssued
    <2>3. \A p : PlannedFor(p)' \subseteq PlannedFor(p)
      BY <2>1, PlanShrinks
    <2> QED
      BY <2>1, <2>2, <2>3, IssuedKept DEF IssuedTo, NoJob
  <1> QED
    BY <1>1, <1>2, <1>3, <1>4, <1>5, <1>6, <1>7, <1>8, <1>9, <1>10, <1>11, <1>12,
       <1>13 DEF ReconcileNext, Reconciling, Importing, User, reconcileVars

\* A catalog has the paths and handles it was made of.
LEMMA ExpandTyped ==
  ASSUME TypeOK, IssuedInv, NEW f,
         \A p \in DOMAIN f : p \in Paths /\ f[p] \in UUIDs /\ IssuedTo(f[p], p)
  PROVE  IsPartial(Expand(f), 1 .. fresh - 1, Paths)
  <1>1. ASSUME NEW h \in DOMAIN Expand(f)
        PROVE  h \in 1 .. fresh - 1 /\ Expand(f)[h] \in Paths
    <2> DEFINE q == Expand(f)[h]
    <2>1. q \in DOMAIN f /\ f[q] = h
      BY <1>1, ExpandOf
    <2> HIDE DEF q
    <2>2. q \in Paths /\ h \in UUIDs /\ IssuedTo(h, q)
      BY <2>1
    <2>3. h < fresh /\ fresh \in Nat /\ h \in Nat /\ h >= 1
      BY <2>2 DEF IssuedInv, TypeOK, UUIDs
    <2> QED
      BY <2>2, <2>3 DEF q
  <1>2. DOMAIN Expand(f) \subseteq 1 .. fresh - 1
    BY <1>1
  <1> QED
    BY <1>1, <1>2, PartialPointwise

LEMMA OnDiskTyped ==
  ASSUME TypeOK
  PROVE  \A p \in DOMAIN OnDisk : p \in Paths /\ OnDisk[p] \in UUIDs /\ IssuedTo(OnDisk[p], p)
  BY OwnersIssued, OwnersAre, MetaTyped, SidecarFields

LEMMA FailingTyped ==
  ASSUME TypeOK, NEW failed, Failing(failed)
  PROVE  failures' \in 0 .. MaxFailures
  BY AssetAssumption DEF TypeOK, Failing

LEMMA JobTyped ==
  ASSUME TypeOK, NEW p \in Present, NEW m, IsPartial(m, Paths, Sidecar)
  PROVE  ImportJob(p, m) \in Job
  <1>1. p \in Paths /\ source[p] \in Contents
    BY PartialAt DEF TypeOK, Present
  <1>2. ReadMetadata(p, m) \in Sidecar
    BY <1>1, ShellSidecar, PartialAt DEF ReadMetadata
  <1> QED
    BY <1>1, <1>2, SidecarFields DEF ImportJob, Job, Fingerprint

LEMMA NoPlanTyped ==
  /\ NoPlan = [items |-> NoPlan.items, accepted |-> NoPlan.accepted, orphans |-> NoPlan.orphans]
  /\ IsPartial(NoPlan.items, Paths, Item)
  /\ IsPartial(NoPlan.accepted, Paths, UUIDs)
  /\ IsPartial(NoPlan.orphans, Paths, UUIDs)
  BY PartialEmpty DEF NoPlan

LEMMA NoJobTyped == NoJob \in Job
  BY DEF NoJob, Job

LEMMA UserEditsTyped ==
  ASSUME TypeOK, UserEdits
  PROVE  edits' \in 0 .. MaxEdits /\ failures' = failures /\ ~clean' /\ clean' \in BOOLEAN
  <1>1. edits' \in 0 .. MaxEdits
    BY AssetAssumption DEF TypeOK, UserEdits
  <1>2. failures' = failures /\ ~clean' /\ clean' \in BOOLEAN
    BY DEF UserEdits
  <1> QED
    BY <1>1, <1>2

\* The variables a step leaves alone stay typed.
LEMMA TypeStep ==
  ASSUME TypeOK, IssuedInv, PlanInv, JobInv, [ReconcileNext]_reconcileVars
  PROVE  TypeOK'
  <1> USE DEF TypeOK
  <1>1. CASE PlanReconcile
    <2>1. /\ plan' = [items |-> [p \in Present |->
                           [action |-> PlanAction(p), inferred |-> Inferred(p)]],
                      accepted |-> Restrict(OnDisk, Owners \cap Present),
                      orphans |-> Restrict(OnDisk, Owners \ Present)]
          /\ phase' = "planned" /\ clean' = TRUE
          /\ UNCHANGED <<source, meta, artifact, userCatalog, fresh, job, edits, failures, outside, half>>
      BY <1>1 DEF PlanReconcile
    <2>2. Present \subseteq Paths
      BY PartialAt DEF Present
    <2>3. ASSUME NEW S, S \subseteq Owners
          PROVE  IsPartial(Restrict(OnDisk, S), Paths, UUIDs)
      <3>1. \A p \in S : p \in Paths /\ OnDisk[p] \in UUIDs
        BY <2>3, OwnersAre, MetaTyped, SidecarFields DEF OnDisk
      <3>2. \A p \in S : Restrict(OnDisk, S)[p] \in UUIDs
        BY <3>1, RestrictOf
      <3> QED
        BY <3>1, <3>2, RestrictOf, PartialPointwise
    <2>4. /\ IsPartial(plan'.accepted, Paths, UUIDs)
          /\ IsPartial(plan'.orphans, Paths, UUIDs)
      BY <2>1, <2>3
    <2>5. IsPartial(plan'.items, Paths, Item)
      <3>1. \A p \in Present : [action |-> PlanAction(p), inferred |-> Inferred(p)] \in Item
        BY InferredTyped DEF PlanAction, Item
      <3> QED
        BY <2>1, <2>2, <3>1, PartialPointwise
    <2>6. plan' = [items |-> plan'.items, accepted |-> plan'.accepted, orphans |-> plan'.orphans]
      BY <2>1
    <2> QED
      BY <2>1, <2>4, <2>5, <2>6
  <1>2. CASE RebuildCatalog
    <2>1. IsPartial(userCatalog', 1 .. fresh - 1, Paths)
      BY <1>2, ExpandTyped, PlanIssued DEF RebuildCatalog
    <2> QED
      BY <1>2, <2>1 DEF RebuildCatalog
  <1>3. ASSUME NEW p \in Paths, NEW metadataRemoved \in BOOLEAN, NEW artifactRemoved \in BOOLEAN,
               RemoveOrphan(p, metadataRemoved, artifactRemoved)
        PROVE  TypeOK'
    <2>1. IsPartial(meta', Paths, Sidecar)
      BY <1>3, PartialWithout DEF RemoveOrphan, MetadataWithout
    <2>2. IsPartial(artifact', 1 .. fresh - 1,
                    [content : Contents \cup {NoContent}, setting : Values \cup {None}])
      BY <1>3, PartialWithout DEF RemoveOrphan, ArtifactsWithout
    <2>3. /\ half' \subseteq half /\ outside' \subseteq outside \cup {p}
          /\ clean' \in BOOLEAN /\ failures' \in 0 .. MaxFailures
          /\ UNCHANGED <<source, userCatalog, fresh, phase, job, edits>>
      <3>1. failures' \in 0 .. MaxFailures
        BY <1>3, FailingTyped, Zenon DEF RemoveOrphan
      <3> QED
        BY <1>3, <3>1 DEF RemoveOrphan
    <2>4. /\ plan'.items = plan.items /\ plan'.accepted = plan.accepted
          /\ plan'.orphans = Without(plan.orphans, {p})
          /\ plan' = [items |-> plan'.items, accepted |-> plan'.accepted, orphans |-> plan'.orphans]
      BY <1>3, RemoveOrphanEffect
    <2>5. IsPartial(plan'.orphans, Paths, UUIDs)
      BY <2>4, PartialWithout
    <2> QED
      BY <2>1, <2>2, <2>3, <2>4, <2>5
  <1>4. CASE OrphansRemoved
    BY <1>4 DEF OrphansRemoved
  <1>5. ASSUME NEW p \in Paths, NEW outcome \in Outcomes, ApplyItem(p, outcome)
        PROVE  TypeOK'
    <2>1. IsPartial(meta', Paths, Sidecar)
      BY <1>5, ApplyItemEffect, RewrittenTyped
    <2>2. plan' = [plan EXCEPT !.items = Without(plan.items, {p})]
      BY <1>5 DEF ApplyItem
    <2>6. /\ clean' \in BOOLEAN /\ failures' \in 0 .. MaxFailures
          /\ UNCHANGED <<source, artifact, userCatalog, fresh, phase, edits, outside, half>>
      <3>1. failures' \in 0 .. MaxFailures
        BY <1>5, FailingTyped, Zenon DEF ApplyItem
      <3> QED
        BY <1>5, <3>1 DEF ApplyItem
    <2>7. job' = NoJob \/ (p \in Present /\ job' = ImportJob(p, meta'))
      BY <1>5 DEF ApplyItem
    <2>3. /\ plan'.items = Without(plan.items, {p})
          /\ plan'.accepted = plan.accepted /\ plan'.orphans = plan.orphans
          /\ plan' = [items |-> plan'.items, accepted |-> plan'.accepted, orphans |-> plan'.orphans]
      BY <2>2
    <2>4. IsPartial(plan'.items, Paths, Item)
      BY <2>3, PartialWithout
    <2>5. job' \in Job
      BY <2>1, <2>7, JobTyped, NoJobTyped
    <2> QED
      BY <2>1, <2>2, <2>3, <2>4, <2>5, <2>6
  <1>6. CASE ReconcileEnds
    BY <1>6, NoPlanTyped DEF ReconcileEnds
  <1>7. ASSUME NEW p \in Paths, ImportDirectly(p)
        PROVE  TypeOK'
    <2>1. job' \in Job
      BY <1>7, JobTyped DEF ImportDirectly, Present
    <2> QED
      BY <1>7, <2>1 DEF ImportDirectly
  <1>8. CASE ImporterFails
    BY <1>8, NoJobTyped, FailingTyped DEF ImporterFails
  <1>9. ASSUME NEW complete \in BOOLEAN, WriteArtifact(complete)
        PROVE  TypeOK'
    <2> DEFINE handle == HandleFor(job.path)
    <2> DEFINE A == [content : Contents \cup {NoContent}, setting : Values \cup {None}]
    <2>1. /\ handle <= MaxHandles
          /\ artifact' = Put(artifact, handle, Built(complete))
          /\ half' = half \cup Recorders(handle)
          /\ fresh' = IF handle = fresh THEN fresh + 1 ELSE fresh
          /\ job' = IF complete THEN [job EXCEPT !.stage = "artifact", !.handle = handle] ELSE NoJob
          /\ clean' \in BOOLEAN /\ failures' \in 0 .. MaxFailures
          /\ UNCHANGED <<source, meta, userCatalog, phase, plan, edits, outside>>
      <3>1. failures' \in 0 .. MaxFailures
        BY <1>9, FailingTyped, Zenon DEF WriteArtifact
      <3> QED
        BY <1>9, <3>1 DEF WriteArtifact
    <2>2. fresh \in Nat /\ fresh >= 1 /\ MaxHandles \in Nat
      BY AssetAssumption
    <2>3. handle \in 1 .. fresh - 1 \/ handle = fresh
      <3>1. CASE job.path \in Range(userCatalog)
        <4>1. handle \in DOMAIN userCatalog
          BY <3>1 DEF HandleFor, Range
        <4> QED
          BY <4>1, PartialAt
      <3>2. CASE job.path \notin Range(userCatalog)
        BY <3>2 DEF HandleFor
      <3> QED
        BY <3>1, <3>2
    <2> HIDE DEF handle
    <2>4. /\ handle \in UUIDs /\ handle \in 1 .. fresh' - 1
          /\ fresh' \in 1 .. MaxHandles + 1 /\ 1 .. fresh - 1 \subseteq 1 .. fresh' - 1
      BY <2>1, <2>2, <2>3 DEF UUIDs
    <2>5. Built(complete) \in A
      BY ResolveTyped DEF Built, Job
    <2> HIDE DEF A
    <2>6. IsPartial(artifact, 1 .. fresh' - 1, A)
      BY <2>4, PartialWider DEF A
    <2>7. IsPartial(artifact', 1 .. fresh' - 1, A)
      BY <2>1, <2>4, <2>5, <2>6, PartialPut
    <2>8. IsPartial(userCatalog', 1 .. fresh' - 1, Paths)
      BY <2>1, <2>4, PartialWider
    <2>9. job' \in Job
      BY <2>1, <2>4, NoJobTyped DEF Job
    <2>10. half' \subseteq Paths
      BY <2>1, MetaTyped DEF Recorders
    <2> QED
      BY <2>1, <2>4, <2>7, <2>8, <2>9, <2>10 DEF A
  <1>10. ASSUME NEW outcome \in Outcomes, WriteMetadata(outcome)
         PROVE  TypeOK'
    <2>1. IsPartial(meta', Paths, Sidecar)
      BY <1>10, WriteMetadataEffect, RewrittenTyped
    <2>2. /\ job.stage = "artifact" /\ job' = NoJob
          /\ userCatalog' = userCatalog \/ userCatalog' = Committed(userCatalog)
          /\ half' \subseteq half /\ outside' \subseteq outside
          /\ clean' \in BOOLEAN /\ failures' \in 0 .. MaxFailures
          /\ UNCHANGED <<source, artifact, fresh, phase, plan, edits>>
      <3>1. failures' \in 0 .. MaxFailures
        BY <1>10, FailingTyped, Zenon DEF WriteMetadata
      <3> QED
        BY <1>10, <3>1 DEF WriteMetadata
    <2>3. job.path \in Paths /\ job.handle \in UUIDs
      BY <2>2 DEF JobInv, NoJob, Job
    <2>4. job.handle \in 1 .. fresh - 1
      BY <2>2, <2>3 DEF IssuedInv, IssuedTo, UUIDs
    <2>5. IsPartial(userCatalog', 1 .. fresh - 1, Paths)
      <3> DEFINE rest == Without(userCatalog, {h \in DOMAIN userCatalog : userCatalog[h] = job.path})
      <3>1. userCatalog' \in {userCatalog, Put(rest, job.handle, job.path)}
        BY <2>2 DEF Committed
      <3>2. IsPartial(rest, 1 .. fresh - 1, Paths)
        BY PartialWithout
      <3> HIDE DEF rest
      <3>3. IsPartial(Put(rest, job.handle, job.path), 1 .. fresh - 1, Paths)
        BY <2>3, <2>4, <3>2, PartialPut
      <3> QED
        BY <3>1, <3>3
    <2> QED
      BY <2>1, <2>2, <2>5, NoJobTyped
  <1>11. ASSUME NEW p \in Paths, NEW content \in Contents, EditSource(p, content)
         PROVE  TypeOK'
    <2>1. IsPartial(source', Paths, Contents)
      BY <1>11, PartialPut DEF EditSource
    <2> QED
      BY <1>11, <2>1, UserEditsTyped DEF EditSource, manager
  <1>12. ASSUME NEW p \in Paths, DeleteSourceFile(p)
         PROVE  TypeOK'
    <2>1. IsPartial(source', Paths, Contents)
      BY <1>12, PartialWithout DEF DeleteSourceFile
    <2> QED
      BY <1>12, <2>1, UserEditsTyped DEF DeleteSourceFile, manager
  <1>13. CASE DeleteLibrary
    BY <1>13, PartialEmpty, UserEditsTyped DEF DeleteLibrary, manager
  <1>14. ASSUME NEW p \in Paths, DeleteMetadata(p)
         PROVE  TypeOK'
    <2>1. IsPartial(meta', Paths, Sidecar)
      BY <1>14, PartialWithout DEF DeleteMetadata
    <2> QED
      BY <1>14, <2>1, UserEditsTyped DEF DeleteMetadata, manager
  <1>15. ASSUME NEW p \in Paths, NEW value \in Authored \cup {None}, Author(p, value)
         PROVE  TypeOK'
    <2>1. meta' = [meta EXCEPT ![p].authored = value] /\ p \in DOMAIN meta
      BY <1>15, OwnersAre DEF Author
    <2>2. [meta[p] EXCEPT !.authored = value] \in Sidecar
      BY <2>1, MetaTyped, SidecarAuthored
    <2>3. DOMAIN meta' \subseteq Paths /\ \A q \in DOMAIN meta' : meta'[q] \in Sidecar
      BY <2>1, <2>2, MetaTyped
    <2>4. IsPartial(meta', Paths, Sidecar)
      BY <2>3, PartialPointwise
    <2> QED
      BY <1>15, <2>4, UserEditsTyped DEF Author, manager
  <1>16. ASSUME NEW p \in Paths, NEW q \in Paths, Rename(p, q)
         PROVE  TypeOK'
    <2>1. /\ p \in DOMAIN source /\ p \in DOMAIN meta
          /\ source' = Put(Without(source, {p}), q, source[p])
          /\ meta' = Put(Without(meta, {p}), q, meta[p])
          /\ half' = {IF r = p THEN q ELSE r : r \in half \ {q}}
      BY <1>16 DEF Rename
    <2>2. source[p] \in Contents /\ meta[p] \in Sidecar
      BY <2>1, PartialAt
    <2>3. IsPartial(source', Paths, Contents) /\ IsPartial(meta', Paths, Sidecar)
      BY <2>1, <2>2, PartialPut, PartialWithout
    <2>4. half' \subseteq Paths
      BY <2>1
    <2> QED
      BY <1>16, <2>3, <2>4, UserEditsTyped DEF Rename, manager
  <1>17. CASE Reopen \/ Crash
    <2>1. IsPartial(userCatalog', 1 .. fresh - 1, Paths)
      BY <1>17, ExpandTyped, OnDiskTyped DEF Reopen, Crash
    <2> QED
      BY <1>17, <2>1, NoPlanTyped, NoJobTyped DEF Reopen, Crash
  <1>18. CASE UNCHANGED reconcileVars
    BY <1>18 DEF reconcileVars
  <1> QED
    BY <1>1, <1>2, <1>3, <1>4, <1>5, <1>6, <1>7, <1>8, <1>9, <1>10, <1>11, <1>12, <1>13, <1>14,
       <1>15, <1>16, <1>17, <1>18 DEF ReconcileNext, Reconciling, Importing, User

LEMMA OwnersSame ==
  ASSUME meta' = meta
  PROVE  Owners' = Owners
  BY DEF Owners, Readable, Parses

\* Until orphans are removed, and after that, every owner is kept.
LEMMA NoOrphans ==
  ASSUME phase # "orphans"
  PROVE  Leaving = {} /\ Kept = Owners
  BY DEF Leaving, Kept

LEMMA PlanStep ==
  ASSUME TypeOK, PlanInv, JobInv, [ReconcileNext]_reconcileVars
  PROVE  PlanInv'
  <1>1. CASE UNCHANGED <<userCatalog, phase, plan>>
    BY <1>1 DEF PlanInv
  <1>2. CASE PlanReconcile
    <2>1. /\ phase' = "planned"
          /\ plan'.accepted = Restrict(OnDisk, Owners \cap Present)
          /\ plan'.orphans = Restrict(OnDisk, Owners \ Present)
      BY <1>2 DEF PlanReconcile
    <2>2. DOMAIN plan'.accepted = Owners \cap Present /\ DOMAIN plan'.orphans = Owners \ Present
      BY <2>1, RestrictOf
    <2> QED
      BY <2>1, <2>2 DEF PlanInv
  <1>3. CASE RebuildCatalog
    <2>1. phase' = "orphans" /\ userCatalog' = Expand(plan.accepted) /\ plan' = plan
      BY <1>3 DEF RebuildCatalog
    <2>2. Range(userCatalog') \subseteq DOMAIN plan.accepted
      BY <2>1, ExpandOf DEF Range
    <2> QED
      BY <2>1, <2>2 DEF PlanInv
  <1>4. ASSUME NEW p \in Paths, NEW metadataRemoved \in BOOLEAN, NEW artifactRemoved \in BOOLEAN,
               RemoveOrphan(p, metadataRemoved, artifactRemoved)
        PROVE  PlanInv'
    <2>1. phase = "orphans" /\ UNCHANGED <<phase, userCatalog>>
      BY <1>4 DEF RemoveOrphan
    <2>2. plan'.accepted = plan.accepted /\ DOMAIN plan'.orphans = DOMAIN plan.orphans \ {p}
      BY <1>4, RemoveOrphanEffect
    <2> QED
      BY <2>1, <2>2 DEF PlanInv
  <1>5. CASE OrphansRemoved
    BY <1>5 DEF OrphansRemoved, PlanInv
  <1>6. ASSUME NEW p \in Paths, NEW outcome \in Outcomes, ApplyItem(p, outcome)
        PROVE  PlanInv'
    <2>1. phase = "items" /\ phase' = phase
      BY <1>6 DEF ApplyItem
    <2>2. plan'.orphans = plan.orphans /\ plan'.accepted = plan.accepted
      BY <1>6, ApplyItemEffect
    <2> QED
      BY <2>1, <2>2 DEF PlanInv
  <1>7. CASE ReconcileEnds
    BY <1>7 DEF ReconcileEnds, PlanInv, NoPlan
  <1>8. CASE (\E p \in Paths : ImportDirectly(p)) \/ ImporterFails
             \/ (\E complete \in BOOLEAN : WriteArtifact(complete))
    BY <1>1, <1>8 DEF ImportDirectly, ImporterFails, WriteArtifact
  <1>9. ASSUME NEW outcome \in Outcomes, WriteMetadata(outcome)
        PROVE  PlanInv'
    <2>1. phase # "orphans" /\ UNCHANGED <<phase, plan>>
      BY <1>9 DEF WriteMetadata, JobInv, NoJob
    <2> QED
      BY <2>1 DEF PlanInv
  <1>10. CASE \/ (\E p \in Paths, content \in Contents : EditSource(p, content))
              \/ (\E p \in Paths : DeleteSourceFile(p))
              \/ DeleteLibrary
    BY <1>1, <1>10 DEF EditSource, DeleteSourceFile, DeleteLibrary, manager
  <1>11. CASE \/ (\E p \in Paths : DeleteMetadata(p))
              \/ (\E p \in Paths, value \in Authored \cup {None} : Author(p, value))
              \/ (\E p, q \in Paths : Rename(p, q))
    BY <1>1, <1>11 DEF DeleteMetadata, Author, Rename, manager
  <1>12. CASE Reopen \/ Crash
    BY <1>12 DEF Reopen, Ready, Crash, PlanInv, NoPlan
  <1> QED
    BY <1>1, <1>2, <1>3, <1>4, <1>5, <1>6, <1>7, <1>8, <1>9, <1>10, <1>11, <1>12
       DEF ReconcileNext, Reconciling, Importing, User, reconcileVars

LEMMA JobStep ==
  ASSUME TypeOK, PlanInv, CatalogInv, JobInv, [ReconcileNext]_reconcileVars
  PROVE  JobInv'
  <1>1. job' = NoJob => JobInv'
    BY DEF JobInv, NoJob
  <1>2. CASE UNCHANGED <<meta, artifact, phase, job, outside>>
    <2>1. Owners' = Owners /\ Built(TRUE)' = Built(TRUE)
      BY <1>2, OwnersSame DEF Built
    <2> QED
      BY <1>2, <2>1 DEF JobInv
  <1>3. CASE \/ PlanReconcile \/ RebuildCatalog \/ OrphansRemoved \/ ReconcileEnds
             \/ (\E p \in Paths, metadataRemoved, artifactRemoved \in BOOLEAN :
                   RemoveOrphan(p, metadataRemoved, artifactRemoved))
    <2>1. job' = NoJob
      BY <1>3 DEF PlanReconcile, Ready, RebuildCatalog, OrphansRemoved, ReconcileEnds, RemoveOrphan, JobInv
    <2> QED
      BY <1>1, <2>1
  <1>4. ASSUME NEW p \in Paths, phase' # "orphans", job' = ImportJob(p, meta')
        PROVE  JobInv'
    <2>1. /\ job'.stage = "importing" /\ job'.path = p
          /\ job'.authored = ReadMetadata(p, meta').authored
          /\ job'.inferred = ReadMetadata(p, meta').inferred
      BY <1>4 DEF ImportJob
    <2> QED
      BY <1>4, <2>1 DEF JobInv, ReadMetadata, Parses, Shell, Torn
  <1>5. ASSUME NEW p \in Paths, NEW outcome \in Outcomes, ApplyItem(p, outcome)
        PROVE  JobInv'
    <2>1. job' = NoJob \/ job' = ImportJob(p, meta')
      BY <1>5 DEF ApplyItem
    <2>2. phase' = "items"
      BY <1>5 DEF ApplyItem
    <2> QED
      BY <1>1, <1>4, <2>1, <2>2
  <1>6. ASSUME NEW p \in Paths, ImportDirectly(p)
        PROVE  JobInv'
    <2>1. job' = ImportJob(p, meta') /\ phase' # "orphans"
      BY <1>6 DEF ImportDirectly, Ready
    <2> QED
      BY <1>4, <2>1
  <1>7. CASE ImporterFails \/ (\E outcome \in Outcomes : WriteMetadata(outcome)) \/ Reopen \/ Crash
    BY <1>1, <1>7 DEF ImporterFails, WriteMetadata, Reopen, Ready, Crash
  <1>8. ASSUME NEW complete \in BOOLEAN, WriteArtifact(complete)
        PROVE  JobInv'
    <2> DEFINE handle == HandleFor(job.path)
    <2>1. /\ job.stage = "importing"
          /\ artifact' = Put(artifact, handle, Built(complete))
          /\ job' = IF complete THEN [job EXCEPT !.stage = "artifact", !.handle = handle] ELSE NoJob
          /\ UNCHANGED <<meta, phase, outside>>
      BY <1>8 DEF WriteArtifact
    <2>2. CASE ~complete
      BY <1>1, <2>1, <2>2
    <2>3. CASE complete
      <3>1. job \in Job
        BY DEF TypeOK
      <3>2. /\ job'.stage = "artifact" /\ job'.handle = handle
            /\ job'.path = job.path /\ job'.content = job.content
            /\ job'.authored = job.authored /\ job'.inferred = job.inferred
        BY <2>1, <2>3, <3>1 DEF Job
      <3>3. job # NoJob
        BY <2>1 DEF NoJob
      <3>4. artifact'[handle] = Built(TRUE)
        <4>1. complete = TRUE
          BY <2>3, Zenon
        <4> QED
          BY <2>1, <4>1 DEF Put
      <3>5. Built(TRUE)' = Built(TRUE)
        BY <3>2 DEF Built
      <3>6. /\ phase # "orphans" /\ job.path \in Paths
            /\ job.authored = ReadMetadata(job.path, meta).authored
            /\ job.inferred = ReadMetadata(job.path, meta).inferred
        BY <3>3 DEF JobInv
      <3>7. ASSUME job.path \in Owners \ outside
            PROVE  meta[job.path].handle = handle
        <4>1. /\ meta[job.path].handle \in DOMAIN userCatalog
              /\ userCatalog[meta[job.path].handle] = job.path
              /\ \A h \in DOMAIN userCatalog : userCatalog[h] \in outside \/ Accounted(h)
          BY <3>6, <3>7, NoOrphans DEF CatalogInv
        <4>2. handle \in DOMAIN userCatalog /\ userCatalog[handle] = job.path
          BY <4>1 DEF HandleFor, Range
        <4>3. Accounted(handle) /\ meta[job.path].handle # NoHandle
          BY <3>7, <4>1, <4>2, OwnersAre
        <4> QED
          BY <4>2, <4>3 DEF Accounted
      <3>8. handle # NoHandle
        BY <1>8, <3>6 DEF WriteArtifact, HandleFor, Range, TypeOK, IsPartial, NoHandle
      <3>9. Owners' = Owners
        BY <2>1, OwnersSame
      <3> HIDE DEF handle
      <3>10. ReadMetadata(job.path, meta)' = ReadMetadata(job.path, meta)
        BY <2>1, <3>2 DEF ReadMetadata, Parses, Shell, Torn
      <3>11. /\ phase' # "orphans" /\ job'.path \in Paths
             /\ job'.authored = ReadMetadata(job.path, meta)'.authored
             /\ job'.inferred = ReadMetadata(job.path, meta)'.inferred
        BY <2>1, <3>2, <3>6, <3>10
      <3>12. /\ job'.handle # NoHandle
             /\ job'.handle \in DOMAIN artifact' => artifact'[job'.handle] = Built(TRUE)'
        BY <3>2, <3>4, <3>5, <3>8
      <3>13. ASSUME job'.path \in Owners' \ outside'
             PROVE  meta'[job'.path].handle = job'.handle
        <4>1. job.path \in Owners \ outside
          BY <2>1, <3>2, <3>9, <3>13
        <4> QED
          BY <2>1, <3>2, <3>7, <4>1
      <3> QED
        BY <3>2, <3>11, <3>12, <3>13 DEF JobInv
    <2> QED
      BY <2>2, <2>3
  <1>9. CASE \/ (\E p \in Paths, content \in Contents : EditSource(p, content))
             \/ (\E p \in Paths : DeleteSourceFile(p))
    BY <1>2, <1>9 DEF EditSource, DeleteSourceFile, manager
  <1>10. CASE DeleteLibrary
    <2>1. UNCHANGED <<meta, phase, job, outside>> /\ DOMAIN artifact' = {}
      BY <1>10 DEF DeleteLibrary, manager
    <2>2. Owners' = Owners
      BY <2>1, OwnersSame
    <2> QED
      BY <2>1, <2>2 DEF JobInv
  <1>11. CASE \/ (\E p \in Paths : DeleteMetadata(p))
              \/ (\E p \in Paths, value \in Authored \cup {None} : Author(p, value))
              \/ (\E p, q \in Paths : Rename(p, q))
    BY <1>1, <1>11 DEF DeleteMetadata, Author, Rename, Ready, manager
  <1>12. CASE UNCHANGED reconcileVars
    BY <1>2, <1>12 DEF reconcileVars
  <1> QED
    BY <1>3, <1>5, <1>6, <1>7, <1>8, <1>9, <1>10, <1>11, <1>12
       DEF ReconcileNext, Reconciling, Importing, User

LEMMA ArtifactStep ==
  ASSUME TypeOK, PlanInv, JobInv, ArtifactInv, [ReconcileNext]_reconcileVars
  PROVE  ArtifactInv'
  <1>0. NoHandle \notin DOMAIN artifact
    BY PartialAt DEF TypeOK, NoHandle
  <1> USE DEF ArtifactInv, HasArtifact
  <1>1. CASE UNCHANGED <<meta, artifact, half>>
    BY <1>1
  <1>2. CASE \/ PlanReconcile \/ RebuildCatalog \/ OrphansRemoved \/ ReconcileEnds
             \/ (\E p \in Paths : ImportDirectly(p)) \/ ImporterFails \/ Reopen \/ Crash
             \/ UNCHANGED reconcileVars
    BY <1>1, <1>2 DEF PlanReconcile, RebuildCatalog, OrphansRemoved, ReconcileEnds, ImportDirectly,
         ImporterFails, Reopen, Crash, reconcileVars
  <1>3. ASSUME NEW p \in Paths, NEW metadataRemoved \in BOOLEAN, NEW artifactRemoved \in BOOLEAN,
               RemoveOrphan(p, metadataRemoved, artifactRemoved)
        PROVE  ArtifactInv'
    <2> DEFINE h == plan.orphans[p]
    <2>1. /\ meta' = meta \/ meta' = Without(meta, {p})
          /\ \/ artifact' = artifact /\ half' = half
             \/ artifact' = Without(artifact, {h}) /\ half' = half \ Recorders(h)
      BY <1>3 DEF RemoveOrphan, MetadataWithout, ArtifactsWithout
    <2>2. DOMAIN meta' \subseteq DOMAIN meta /\ \A q \in DOMAIN meta' : meta'[q] = meta[q]
      BY <2>1 DEF Without, Restrict
    <2> HIDE DEF h
    <2>3. CASE artifact' = artifact /\ half' = half
      BY <2>2, <2>3
    <2>4. CASE artifact' = Without(artifact, {h}) /\ half' = half \ Recorders(h)
      <3>1. DOMAIN artifact' = DOMAIN artifact \ {h} /\ \A g \in DOMAIN artifact' : artifact'[g] = artifact[g]
        BY <2>4 DEF Without, Restrict
      <3>2. SUFFICES ASSUME NEW q \in DOMAIN meta' \ half', meta'[q].handle \in DOMAIN artifact'
                     PROVE  artifact'[meta'[q].handle]
                              = [content |-> meta'[q].content, setting |-> meta'[q].resolved]
        OBVIOUS
      <3>3. q \in DOMAIN meta /\ meta'[q] = meta[q] /\ q \notin Recorders(h)
        BY <2>2, <3>1, <3>2 DEF Recorders
      <3>4. q \notin half
        BY <2>4, <3>2, <3>3
      <3> QED
        BY <3>1, <3>2, <3>3, <3>4
    <2> QED
      BY <2>1, <2>3, <2>4
  <1>4. ASSUME NEW p \in Paths, NEW outcome \in Outcomes, ApplyItem(p, outcome)
        PROVE  ArtifactInv'
    <2>1. UNCHANGED <<artifact, half>>
      BY <1>4 DEF ApplyItem
    <2>2. CASE meta' = meta
      BY <2>1, <2>2
    <2>3. CASE meta' # meta
      <3>1. PICK t \in Sidecar :
                 /\ RewrittenAt(p, t)
                 /\ outcome = "written" =>
                      /\ t.handle = ReadMetadata(p, meta).handle
                      /\ t.content = ReadMetadata(p, meta).content
                      /\ t.resolved = ReadMetadata(p, meta).resolved
                 /\ outcome # "written" => t.handle = NoHandle
        BY <1>4, <2>3, ApplyItemEffect
      <3>2. \/ t.handle = NoHandle
            \/ /\ p \in DOMAIN meta /\ t.handle = meta[p].handle
               /\ t.content = meta[p].content /\ t.resolved = meta[p].resolved
        BY <3>1, ReadIs, OwnersAre
      <3> QED
        BY <1>0, <2>1, <3>1, <3>2 DEF RewrittenAt
    <2> QED
      BY <2>2, <2>3
  <1>5. ASSUME NEW complete \in BOOLEAN, WriteArtifact(complete)
        PROVE  ArtifactInv'
    <2> DEFINE handle == HandleFor(job.path)
    <2>1. /\ artifact' = Put(artifact, handle, Built(complete)) /\ meta' = meta
          /\ half' = half \cup Recorders(handle)
      BY <1>5 DEF WriteArtifact
    <2> HIDE DEF handle
    <2>2. /\ DOMAIN artifact' = DOMAIN artifact \cup {handle}
          /\ \A g \in DOMAIN artifact \ {handle} : artifact'[g] = artifact[g]
      BY <2>1 DEF Put
    <2>3. \A q \in DOMAIN meta' \ half' : q \in DOMAIN meta \ half /\ meta[q].handle # handle
      BY <2>1 DEF Recorders
    <2> QED
      BY <2>1, <2>2, <2>3
  <1>6. ASSUME NEW outcome \in Outcomes, WriteMetadata(outcome)
        PROVE  ArtifactInv'
    <2>1. /\ job.stage = "artifact" /\ artifact' = artifact
          /\ half' = IF outcome = "written" THEN half \ {job.path} ELSE half
      BY <1>6 DEF WriteMetadata
    <2>2. CASE outcome = "kept"
      BY <1>6, <2>1, <2>2, WriteMetadataEffect
    <2>3. CASE outcome # "kept"
      <3>1. PICK t \in Sidecar :
                 /\ RewrittenAt(job.path, t)
                 /\ outcome = "written" =>
                      /\ t.handle = job.handle /\ t.content = job.content
                      /\ t.resolved = Resolve(job.authored, job.inferred)
                 /\ outcome # "written" => t.handle = NoHandle
        BY <1>6, <2>3, WriteMetadataEffect
      <3>2. ASSUME t.handle \in DOMAIN artifact
            PROVE  artifact[t.handle] = [content |-> t.content, setting |-> t.resolved]
        <4>1. outcome = "written"
          BY <1>0, <3>1, <3>2
        <4>2. artifact[job.handle] = Built(TRUE)
          BY <2>1, <3>1, <3>2, <4>1 DEF JobInv
        <4> QED
          BY <3>1, <4>1, <4>2 DEF Built
      <3> QED
        BY <2>1, <3>1, <3>2 DEF RewrittenAt
    <2> QED
      BY <2>2, <2>3
  <1>7. CASE \/ (\E p \in Paths, content \in Contents : EditSource(p, content))
             \/ (\E p \in Paths : DeleteSourceFile(p))
    BY <1>1, <1>7 DEF EditSource, DeleteSourceFile
  <1>8. CASE DeleteLibrary
    BY <1>8 DEF DeleteLibrary
  <1>9. ASSUME NEW p \in Paths, DeleteMetadata(p)
        PROVE  ArtifactInv'
    <2>1. meta' = Without(meta, {p}) /\ UNCHANGED <<artifact, half>>
      BY <1>9 DEF DeleteMetadata
    <2>2. DOMAIN meta' \subseteq DOMAIN meta /\ \A q \in DOMAIN meta' : meta'[q] = meta[q]
      BY <2>1 DEF Without, Restrict
    <2> QED
      BY <2>1, <2>2
  <1>10. ASSUME NEW p \in Paths, NEW value \in Authored \cup {None}, Author(p, value)
         PROVE  ArtifactInv'
    <2>1. /\ p \in DOMAIN meta /\ UNCHANGED <<artifact, half>>
          /\ meta' = [meta EXCEPT ![p].authored = value]
      BY <1>10, OwnersAre DEF Author
    <2>2. meta[p] \in Sidecar
      BY <2>1, MetaTyped
    <2>3. /\ DOMAIN meta' = DOMAIN meta
          /\ \A q \in DOMAIN meta : /\ meta'[q].handle = meta[q].handle
                                    /\ meta'[q].content = meta[q].content
                                    /\ meta'[q].resolved = meta[q].resolved
      BY <2>1, <2>2, SidecarAuthored
    <2> QED
      BY <2>1, <2>3
  <1>11. ASSUME NEW p \in Paths, NEW q \in Paths, Rename(p, q)
         PROVE  ArtifactInv'
    <2>1. /\ p \in DOMAIN meta /\ q \notin DOMAIN meta /\ artifact' = artifact
          /\ meta' = Put(Without(meta, {p}), q, meta[p])
          /\ half' = {IF r = p THEN q ELSE r : r \in half \ {q}}
      BY <1>11 DEF Rename
    <2>2. \A x \in DOMAIN meta' : \/ x = q /\ meta'[x] = meta[p]
                                  \/ x # q /\ x # p /\ x \in DOMAIN meta /\ meta'[x] = meta[x]
      BY <2>1 DEF Put, Without, Restrict
    <2>3. p \in half => q \in half'
      BY <2>1
    <2>4. \A x \in half : x # p /\ x # q => x \in half'
      BY <2>1
    <2> QED
      BY <2>1, <2>2, <2>3, <2>4
  <1> QED
    BY <1>2, <1>3, <1>4, <1>5, <1>6, <1>7, <1>8, <1>9, <1>10, <1>11
       DEF ReconcileNext, Reconciling, Importing, User

\* What a step that rewrites the sidecar of p, with the asset it had or with
\* none, does to the owners.
LEMMA OwnersRewritten ==
  ASSUME TypeOK, NEW p \in Paths, NEW t \in Sidecar, RewrittenAt(p, t)
  PROVE  /\ \A q : q # p => (q \in Owners' <=> q \in Owners)
         /\ p \in Owners' <=> t.path = p /\ t.handle # NoHandle
  <1>1. p # NoPath
    BY AssetAssumption
  <1>2. \A q : q \in Owners' <=> /\ q \in DOMAIN meta' /\ meta'[q].path = q /\ q # NoPath
                                 /\ meta'[q].handle # NoHandle
    BY DEF Owners, Readable, Parses
  <1> QED
    BY <1>1, <1>2, OwnersAre DEF RewrittenAt

\* No other source has the UUID of an owner.
LEMMA OwnersDiffer ==
  ASSUME TypeOK, IssuedInv, NEW p \in Owners
  PROVE  /\ p \in Paths /\ meta[p].handle \in UUIDs /\ meta[p].handle < fresh
         /\ IssuedTo(meta[p].handle, p)
         /\ \A q \in Paths \cup {NoPath} : IssuedTo(meta[p].handle, q) => p = q
  <1>1. p \in DOMAIN meta /\ meta[p].path = p /\ meta[p].handle # NoHandle
    BY OwnersAre
  <1>2. p \in Paths /\ meta[p].handle \in UUIDs
    BY <1>1, MetaTyped, SidecarFields
  <1>3. IssuedTo(meta[p].handle, p)
    BY <1>1 DEF IssuedTo
  <1> QED
    BY <1>2, <1>3 DEF IssuedInv

LEMMA CatalogFrom ==
  ASSUME TypeOK, IssuedInv, NEW f,
         \A p \in DOMAIN f : p \in Paths /\ f[p] \in UUIDs /\ IssuedTo(f[p], p)
  PROVE  /\ \A p \in DOMAIN f : f[p] \in DOMAIN Expand(f) /\ Expand(f)[f[p]] = p
         /\ \A h \in DOMAIN Expand(f) : Expand(f)[h] \in DOMAIN f /\ f[Expand(f)[h]] = h
  <1>1. \A h \in DOMAIN Expand(f) : Expand(f)[h] \in DOMAIN f /\ f[Expand(f)[h]] = h
    BY ExpandOf
  <1>2. ASSUME NEW p \in DOMAIN f
        PROVE  f[p] \in DOMAIN Expand(f) /\ Expand(f)[f[p]] = p
    <2>1. f[p] \in DOMAIN Expand(f)
      <3>1. DOMAIN Expand(f) = {f[q] : q \in DOMAIN f}
        BY ExpandOf
      <3> QED
        BY <3>1
    <2>2. PICK q : q = Expand(f)[f[p]]
      OBVIOUS
    <2>3. q \in DOMAIN f /\ f[q] = f[p]
      BY <1>1, <2>1, <2>2
    <2>4. q = p
      BY <2>3 DEF IssuedInv
    <2> QED
      BY <2>1, <2>2, <2>4
  <1> QED
    BY <1>1, <1>2

LEMMA CatalogStep ==
  ASSUME TypeOK, IssuedInv, PlanInv, JobInv, CatalogInv, [ReconcileNext]_reconcileVars
  PROVE  CatalogInv'
  <1>1. ASSUME UNCHANGED <<meta, userCatalog, outside>>, Leaving' = Leaving,
               ~clean \/ phase = "planned" => ~clean' \/ phase' = "planned"
        PROVE  CatalogInv'
    <2>1. Owners' = Owners
      BY <1>1, OwnersSame
    <2>2. Kept' = Kept
      BY <1>1, <2>1 DEF Kept
    <2> QED
      BY <1>1, <2>1, <2>2 DEF CatalogInv, Accounted
  <1>2. CASE PlanReconcile
    <2>1. phase # "orphans" /\ phase' = "planned" /\ UNCHANGED <<meta, userCatalog, outside>>
      BY <1>2 DEF PlanReconcile, Ready
    <2>2. Leaving' = Leaving
      BY <2>1 DEF Leaving
    <2> QED
      BY <1>1, <2>1, <2>2
  <1>3. CASE RebuildCatalog
    <2>1. /\ userCatalog' = Expand(plan.accepted) /\ phase' = "orphans"
          /\ outside' = {p \in Paths : PlannedFor(p) # RecordedFor(p)}
          /\ UNCHANGED <<meta, plan>>
      BY <1>3 DEF RebuildCatalog
    <2>2. /\ \A p \in DOMAIN plan.accepted : /\ plan.accepted[p] \in DOMAIN userCatalog'
                                             /\ userCatalog'[plan.accepted[p]] = p
          /\ \A h \in DOMAIN userCatalog' : /\ userCatalog'[h] \in DOMAIN plan.accepted
                                            /\ plan.accepted[userCatalog'[h]] = h
      BY <2>1, CatalogFrom, PlanIssued
    <2>3. \A p : p \in Kept' <=> p \in Owners /\ p \notin DOMAIN plan.orphans
      BY <2>1, OwnersSame DEF Kept, Leaving
    <2>4. ASSUME NEW p \in Kept' \ outside'
          PROVE  meta'[p].handle \in DOMAIN userCatalog' /\ userCatalog'[meta'[p].handle] = p
      <3>1. p \in Owners /\ p \notin DOMAIN plan.orphans /\ p \in Paths
        BY <2>3, OwnersAre, MetaTyped
      <3>2. PlannedFor(p) = {meta[p].handle}
        BY <2>1, <3>1 DEF RecordedFor
      <3>3. p \in DOMAIN plan.accepted /\ plan.accepted[p] = meta[p].handle
        BY <3>1, <3>2 DEF PlannedFor
      <3> QED
        BY <2>1, <2>2, <3>3
    <2>5. ASSUME NEW h \in DOMAIN userCatalog', userCatalog'[h] \notin outside'
          PROVE  Accounted(h)'
      <3> DEFINE p == userCatalog'[h]
      <3>1. p \in DOMAIN plan.accepted /\ plan.accepted[p] = h
        BY <2>2
      <3>2. p \in Paths /\ PlannedFor(p) = {h} /\ p \notin DOMAIN plan.orphans
        BY <3>1, PlanIssued DEF PlannedFor, PlanInv
      <3>3. RecordedFor(p) = {h}
        BY <2>1, <2>5, <3>2
      <3> HIDE DEF p
      <3>4. p \in Owners /\ meta[p].handle = h
        BY <3>3 DEF RecordedFor
      <3>5. p \in DOMAIN meta' /\ meta'[p].handle = h /\ p \in Kept'
        BY <2>1, <2>3, <3>2, <3>4, OwnersAre
      <3> QED
        BY <3>5 DEF Accounted, p
    <2> QED
      BY <2>4, <2>5 DEF CatalogInv
  <1>4. ASSUME NEW p \in Paths, NEW metadataRemoved \in BOOLEAN, NEW artifactRemoved \in BOOLEAN,
               RemoveOrphan(p, metadataRemoved, artifactRemoved)
        PROVE  CatalogInv'
    <2>1. /\ phase = "orphans" /\ phase' = phase /\ p \in DOMAIN plan.orphans
          /\ IF metadataRemoved THEN meta' = Without(meta, {p}) /\ outside' = outside \ {p}
             ELSE meta' = meta /\ outside' = outside \cup {p}
          /\ userCatalog' = userCatalog
      BY <1>4 DEF RemoveOrphan, MetadataWithout
    <2>2. clean' => clean
      BY <1>4 DEF RemoveOrphan
    <2>3. /\ Leaving = DOMAIN plan.orphans /\ Leaving' = Leaving \ {p} /\ p \in Leaving
          /\ p \notin Range(userCatalog)
      BY <1>4, <2>1, RemoveOrphanEffect DEF Leaving, PlanInv
    <2>4. \A q : q # p => /\ q \in DOMAIN meta' <=> q \in DOMAIN meta
                          /\ q \in DOMAIN meta => meta'[q] = meta[q]
      BY <2>1 DEF Without, Restrict
    <2>5. \A q : q # p => (q \in Owners' <=> q \in Owners) /\ (q \in Kept' <=> q \in Kept)
      BY <2>3, <2>4 DEF Owners, Readable, Parses, Kept
    <2>6. p \in Kept' => p \in outside'
      BY <2>1 DEF Without, Restrict, Kept, Owners, Readable
    <2>7. ASSUME NEW q \in Kept' \ outside'
          PROVE  meta'[q].handle \in DOMAIN userCatalog' /\ userCatalog'[meta'[q].handle] = q
      <3>1. q # p /\ q \in Kept \ outside
        BY <2>1, <2>5, <2>6
      <3> QED
        BY <2>1, <2>4, <3>1, OwnersAre DEF CatalogInv, Kept
    <2>8. ASSUME NEW h \in DOMAIN userCatalog', userCatalog'[h] \notin outside'
          PROVE  Accounted(h)'
      <3>1. userCatalog[h] # p /\ h \in DOMAIN userCatalog
        BY <2>1, <2>3 DEF Range
      <3>2. Accounted(h)
        BY <2>1, <2>8, <3>1 DEF CatalogInv
      <3>3. /\ userCatalog[h] \in DOMAIN meta'
            /\ meta'[userCatalog[h]] = meta[userCatalog[h]]
            /\ userCatalog[h] \in Kept' <=> userCatalog[h] \in Kept
        BY <2>4, <2>5, <3>1, <3>2 DEF Accounted
      <3> QED
        BY <2>1, <2>2, <3>2, <3>3 DEF Accounted
    <2> QED
      BY <2>7, <2>8 DEF CatalogInv
  <1>5. CASE OrphansRemoved \/ ReconcileEnds
    <2>1. /\ phase \in {"orphans", "items"} /\ phase' # "orphans"
          /\ phase = "orphans" => DOMAIN plan.orphans = {}
          /\ UNCHANGED <<meta, userCatalog, outside, clean>>
      BY <1>5 DEF OrphansRemoved, ReconcileEnds
    <2>2. Leaving' = Leaving
      BY <2>1 DEF Leaving
    <2> QED
      BY <1>1, <2>1, <2>2
  <1>6. ASSUME NEW p \in Paths, NEW t \in Sidecar, RewrittenAt(p, t),
               phase # "orphans", UNCHANGED <<phase, userCatalog, outside>>, clean' => clean,
               \/ p \in Owners /\ t.handle = meta[p].handle /\ t.path = p
               \/ t.handle = NoHandle /\ (p \in Owners \/ phase = "planned" => ~clean')
        PROVE  CatalogInv'
    <2>1. Kept = Owners /\ Kept' = Owners'
      BY <1>6, NoOrphans DEF Kept, Leaving
    <2>2. \A q : q # p => (q \in Owners' <=> q \in Owners)
      BY <1>6, OwnersRewritten
    <2>3. p \in Owners' => p \in Owners /\ meta'[p].handle = meta[p].handle
      BY <1>6, OwnersRewritten DEF RewrittenAt
    <2>4. \A q \in Owners' : q \in Owners /\ meta'[q].handle = meta[q].handle
      BY <1>6, <2>2, <2>3, OwnersAre DEF RewrittenAt
    <2>5. ASSUME NEW h \in DOMAIN userCatalog, userCatalog[h] \notin outside
          PROVE  Accounted(h)'
      <3> DEFINE r == userCatalog[h]
      <3>1. /\ r \in DOMAIN meta
            /\ \/ r \in Owners /\ meta[r].handle = h
               \/ meta[r].handle = NoHandle /\ (~clean \/ phase = "planned")
        BY <2>1, <2>5 DEF CatalogInv, Accounted
      <3> HIDE DEF r
      <3>2. r \in DOMAIN meta'
        BY <1>6, <3>1 DEF RewrittenAt
      <3>3. \/ r \in Owners' /\ meta'[r].handle = h
            \/ meta'[r].handle = NoHandle /\ (~clean' \/ phase' = "planned")
        <4>1. CASE r # p
          BY <1>6, <2>2, <3>1, <4>1 DEF RewrittenAt
        <4>2. CASE r = p /\ t.handle = NoHandle
          <5>1. meta'[r].handle = NoHandle
            BY <1>6, <4>2 DEF RewrittenAt
          <5>2. ~clean' \/ phase' = "planned"
            <6>1. CASE p \in Owners
              BY <1>6, <4>2, <6>1, OwnersAre
            <6>2. CASE p \notin Owners
              <7>1. ~clean \/ phase = "planned"
                BY <3>1, <4>2, <6>2, Zenon
              <7>2. phase' = phase /\ (clean' => clean)
                BY <1>6
              <7> QED
                BY <7>1, <7>2, Zenon
            <6> QED
              BY <6>1, <6>2
          <5> QED
            BY <5>1, <5>2
        <4>3. CASE r = p /\ t.handle # NoHandle
          BY <1>6, <3>1, <4>3, OwnersRewritten DEF RewrittenAt
        <4> QED
          BY <4>1, <4>2, <4>3
      <3> QED
        BY <1>6, <2>1, <3>2, <3>3 DEF Accounted, r
    <2> QED
      BY <1>6, <2>1, <2>4, <2>5 DEF CatalogInv
  <1>7. ASSUME NEW p \in Paths, NEW outcome \in Outcomes, ApplyItem(p, outcome)
        PROVE  CatalogInv'
    <2>1. /\ phase = "items" /\ UNCHANGED <<phase, userCatalog, outside>>
          /\ clean' = (clean /\ outcome = "written")
      BY <1>7 DEF ApplyItem
    <2>2. CASE meta' = meta
      <3>1. Leaving' = Leaving
        BY <2>1 DEF Leaving
      <3> QED
        BY <1>1, <2>1, <2>2, <3>1
    <2>3. CASE meta' # meta
      <3>1. PICK t \in Sidecar :
                 /\ RewrittenAt(p, t)
                 /\ outcome = "written" =>
                      t.path = p /\ t.handle = ReadMetadata(p, meta).handle
                 /\ outcome # "written" => t.handle = NoHandle
        BY <1>7, <2>3, ApplyItemEffect
      <3>2. \/ p \in Owners /\ t.handle = meta[p].handle /\ t.path = p
            \/ t.handle = NoHandle /\ (p \in Owners \/ phase = "planned" => ~clean')
        BY <2>1, <3>1, ReadIs, OwnersAre
      <3> QED
        BY <1>6, <2>1, <3>1, <3>2
    <2> QED
      BY <2>2, <2>3
  <1>8. CASE (\E p \in Paths : ImportDirectly(p)) \/ ImporterFails
             \/ (\E complete \in BOOLEAN : WriteArtifact(complete)) \/ UNCHANGED reconcileVars
    <2>1. UNCHANGED <<meta, userCatalog, phase, plan, outside>>
      BY <1>8 DEF ImportDirectly, ImporterFails, WriteArtifact, reconcileVars
    <2>2. clean' => clean
      BY <1>8, Zenon DEF ImportDirectly, ImporterFails, WriteArtifact, reconcileVars
    <2>3. Leaving' = Leaving
      BY <2>1 DEF Leaving
    <2> QED
      BY <1>1, <2>1, <2>2, <2>3
  <1>9. ASSUME NEW outcome \in Outcomes, WriteMetadata(outcome)
        PROVE  CatalogInv'
    <2>1. /\ job.stage = "artifact" /\ UNCHANGED <<phase, plan>>
          /\ clean' = (clean /\ outcome = "written")
          /\ userCatalog' = IF outcome = "written" THEN Committed(userCatalog) ELSE userCatalog
          /\ outside' = IF outcome = "written" THEN outside \ {job.path} ELSE outside
      BY <1>9 DEF WriteMetadata, Commits
    <2>2. phase # "orphans" /\ job.path \in Paths
      BY <2>1 DEF JobInv, NoJob
    <2>3. Kept = Owners /\ Leaving' = Leaving
      BY <2>1, <2>2, NoOrphans DEF Leaving
    <2>4. CASE outcome = "kept"
      <3>1. meta' = meta
        BY <1>9, <2>4, WriteMetadataEffect
      <3> QED
        BY <1>1, <2>1, <2>3, <2>4, <3>1
    <2>5. CASE outcome \notin {"kept", "written"}
      <3>1. PICK t \in Sidecar : RewrittenAt(job.path, t) /\ t.handle = NoHandle /\ ~clean'
        BY <1>9, <2>5, WriteMetadataEffect
      <3> QED
        BY <1>6, <2>1, <2>2, <2>5, <3>1
    <2>6. CASE outcome = "written"
      <3>1. PICK t \in Sidecar : RewrittenAt(job.path, t) /\ t.path = job.path /\ t.handle = job.handle
        BY <1>9, <2>6, WriteMetadataEffect
      <3>2. job.handle # NoHandle
        BY <2>1 DEF JobInv
      <3>3. Owners' = Owners \cup {job.path}
        BY <2>2, <3>1, <3>2, OwnersRewritten
      <3>4. Kept' = Owners'
        BY <2>1, <2>2 DEF Kept, Leaving
      <3>5. /\ DOMAIN userCatalog'
                 = {h \in DOMAIN userCatalog : userCatalog[h] # job.path} \cup {job.handle}
            /\ userCatalog'[job.handle] = job.path
            /\ \A h \in DOMAIN userCatalog' : h # job.handle => userCatalog'[h] = userCatalog[h]
        <4> DEFINE S == {h \in DOMAIN userCatalog : userCatalog[h] = job.path}
        <4>1. userCatalog' = Put(Without(userCatalog, S), job.handle, job.path)
          BY <2>1, <2>6 DEF Committed
        <4>2. /\ DOMAIN userCatalog' = (DOMAIN userCatalog \ S) \cup {job.handle}
              /\ userCatalog'[job.handle] = job.path
              /\ \A h \in DOMAIN userCatalog' : h # job.handle => userCatalog'[h] = userCatalog[h]
          <5> HIDE DEF S
          <5> QED
            BY <4>1 DEF Put, Without, Restrict
        <4> QED
          BY <4>2
      <3>6. outside' = outside \ {job.path}
        BY <2>1, <2>6
      <3>7. /\ \A q \in Owners \ outside : /\ meta[q].handle \in DOMAIN userCatalog
                                           /\ userCatalog[meta[q].handle] = q
            /\ \A h \in DOMAIN userCatalog : userCatalog[h] \in outside \/ Accounted(h)
        BY <2>3 DEF CatalogInv
      <3>8. IssuedTo(job.handle, job.path)
        BY <2>1 DEF IssuedTo
      <3>9. ASSUME NEW q \in Owners' \ outside'
            PROVE  /\ meta'[q].handle \in DOMAIN userCatalog'
                   /\ userCatalog'[meta'[q].handle] = q
        <4>1. CASE q = job.path
          BY <3>1, <3>5, <4>1 DEF RewrittenAt
        <4>2. CASE q # job.path
          <5>1. q \in Owners \ outside /\ meta'[q] = meta[q]
            BY <3>1, <3>3, <3>6, <4>2, OwnersAre DEF RewrittenAt
          <5>2. meta[q].handle # job.handle
            BY <2>2, <3>8, <4>2, <5>1, OwnersDiffer
          <5> QED
            BY <3>5, <3>7, <4>2, <5>1, <5>2
        <4> QED
          BY <4>1, <4>2
      <3>10. ASSUME NEW h \in DOMAIN userCatalog', userCatalog'[h] \notin outside'
             PROVE  Accounted(h)'
        <4>1. CASE h = job.handle
          BY <3>1, <3>3, <3>4, <3>5, <4>1 DEF Accounted, RewrittenAt
        <4>2. CASE h # job.handle
          <5>1. h \in DOMAIN userCatalog /\ userCatalog'[h] = userCatalog[h] /\ userCatalog[h] # job.path
            BY <3>5, <4>2
          <5> DEFINE r == userCatalog[h]
          <5>2. /\ r \in DOMAIN meta
                /\ \/ r \in Owners /\ meta[r].handle = h
                   \/ meta[r].handle = NoHandle /\ (~clean \/ phase = "planned")
            BY <2>3, <3>6, <3>7, <3>10, <5>1 DEF Accounted
          <5>3. userCatalog'[h] = r /\ r # job.path
            BY <5>1
          <5> HIDE DEF r
          <5>4. r \in DOMAIN meta' /\ meta'[r] = meta[r]
            BY <3>1, <5>2, <5>3 DEF RewrittenAt
          <5>5. (clean' => clean) /\ phase' = phase
            BY <2>1
          <5> QED
            BY <3>3, <3>4, <5>2, <5>3, <5>4, <5>5 DEF Accounted
        <4> QED
          BY <4>1, <4>2
      <3> QED
        BY <3>4, <3>9, <3>10 DEF CatalogInv
    <2> QED
      BY <2>4, <2>5, <2>6
  <1>10. CASE \/ (\E p \in Paths, content \in Contents : EditSource(p, content))
              \/ (\E p \in Paths : DeleteSourceFile(p))
              \/ DeleteLibrary
    <2>1. UNCHANGED <<meta, userCatalog, phase, plan, outside>> /\ ~clean'
      BY <1>10 DEF EditSource, DeleteSourceFile, DeleteLibrary, manager, UserEdits
    <2>2. Leaving' = Leaving
      BY <2>1 DEF Leaving
    <2> QED
      BY <1>1, <2>1, <2>2
  \* The user takes sidecars away or changes something else in them.
  <1>11. ASSUME NEW S, S \subseteq outside', outside \subseteq outside',
                UNCHANGED <<userCatalog, phase, plan>>, ~clean',
                \A r : r \notin S =>
                  /\ r \in DOMAIN meta' <=> r \in DOMAIN meta
                  /\ r \in DOMAIN meta => meta'[r].handle = meta[r].handle /\ meta'[r].path = meta[r].path
         PROVE  CatalogInv'
    <2>1. Leaving' = Leaving
      BY <1>11 DEF Leaving
    <2>2. \A r : r \notin S => (r \in Owners' <=> r \in Owners) /\ (r \in Kept' <=> r \in Kept)
      BY <1>11, <2>1 DEF Owners, Readable, Parses, Kept
    <2>3. ASSUME NEW r \in Kept' \ outside'
          PROVE  meta'[r].handle \in DOMAIN userCatalog' /\ userCatalog'[meta'[r].handle] = r
      <3>1. r \notin S /\ r \in Kept \ outside
        BY <1>11, <2>2
      <3> QED
        BY <1>11, <3>1, OwnersAre DEF CatalogInv, Kept
    <2>4. ASSUME NEW h \in DOMAIN userCatalog', userCatalog'[h] \notin outside'
          PROVE  Accounted(h)'
      <3>1. h \in DOMAIN userCatalog /\ userCatalog[h] \notin outside \cup S
        BY <1>11, <2>4
      <3>2. Accounted(h)
        BY <3>1 DEF CatalogInv
      <3>3. /\ userCatalog[h] \in DOMAIN meta'
            /\ meta'[userCatalog[h]].handle = meta[userCatalog[h]].handle
            /\ userCatalog[h] \in Kept' <=> userCatalog[h] \in Kept
        BY <1>11, <2>2, <3>1, <3>2 DEF Accounted
      <3> QED
        BY <1>11, <3>2, <3>3 DEF Accounted
    <2> QED
      BY <2>3, <2>4 DEF CatalogInv
  <1>12. ASSUME NEW p \in Paths, DeleteMetadata(p)
         PROVE  CatalogInv'
    <2>1. /\ meta' = Without(meta, {p}) /\ outside' = outside \cup {p} /\ ~clean'
          /\ UNCHANGED <<userCatalog, phase, plan>>
      BY <1>12 DEF DeleteMetadata, manager, UserEdits
    <2>2. \A r : r \notin {p} => /\ r \in DOMAIN meta' <=> r \in DOMAIN meta
                                 /\ r \in DOMAIN meta => meta'[r] = meta[r]
      BY <2>1 DEF Without, Restrict
    <2> QED
      BY <1>11, <2>1, <2>2
  <1>13. ASSUME NEW p \in Paths, NEW value \in Authored \cup {None}, Author(p, value)
         PROVE  CatalogInv'
    <2>1. /\ p \in Owners /\ meta' = [meta EXCEPT ![p].authored = value]
          /\ UNCHANGED <<userCatalog, phase, plan, outside>> /\ ~clean'
      BY <1>13 DEF Author, manager, UserEdits
    <2>2. p \in DOMAIN meta /\ meta[p] \in Sidecar
      BY <2>1, MetaTyped, OwnersAre
    <2>3. /\ DOMAIN meta' = DOMAIN meta
          /\ \A q \in DOMAIN meta : meta'[q].handle = meta[q].handle /\ meta'[q].path = meta[q].path
      BY <2>1, <2>2, SidecarAuthored
    <2>4. {} \subseteq outside'
      OBVIOUS
    <2> QED
      BY <1>11, <2>1, <2>3, <2>4
  <1>14. ASSUME NEW p \in Paths, NEW q \in Paths, Rename(p, q)
         PROVE  CatalogInv'
    <2>1. /\ meta' = Put(Without(meta, {p}), q, meta[p]) /\ outside' = outside \cup {p, q} /\ ~clean'
          /\ UNCHANGED <<userCatalog, phase, plan>>
      BY <1>14 DEF Rename, manager, UserEdits
    <2>2. \A r : r \notin {p, q} => /\ r \in DOMAIN meta' <=> r \in DOMAIN meta
                                    /\ r \in DOMAIN meta => meta'[r] = meta[r]
      BY <2>1 DEF Put, Without, Restrict
    <2> QED
      BY <1>11, <2>1, <2>2
  <1>15. CASE Reopen \/ Crash
    <2>1. userCatalog' = Expand(OnDisk) /\ meta' = meta /\ phase' # "orphans" /\ outside' = {}
      BY <1>15 DEF Reopen, Ready, Crash
    <2>2. Kept' = Owners
      BY <2>1, OwnersSame DEF Kept, Leaving
    <2>3. /\ \A p \in Owners : /\ meta[p].handle \in DOMAIN userCatalog'
                               /\ userCatalog'[meta[p].handle] = p
          /\ \A h \in DOMAIN userCatalog' : userCatalog'[h] \in Owners /\ meta[userCatalog'[h]].handle = h
      BY <2>1, CatalogFrom, OnDiskTyped, OwnersIssued
    <2> QED
      BY <2>1, <2>2, <2>3, OwnersAre DEF CatalogInv, Accounted
  <1> QED
    BY <1>2, <1>3, <1>4, <1>5, <1>7, <1>8, <1>9, <1>10, <1>12, <1>13, <1>14, <1>15
       DEF ReconcileNext, Reconciling, Importing, User

LEMMA InferredSame ==
  ASSUME source' = source
  PROVE  Present' = Present /\ \A q : Inferred(q)' = Inferred(q)
  <1>1. Present' = Present
    BY DEF Present
  <1>2. \A q : Candidates(q)' = Candidates(q)
    BY DEF Candidates, Present, Fingerprint
  <1>3. ASSUME NEW q
        PROVE  Inferred(q)' = Inferred(q)
    <2>1. Candidates(q)' = Candidates(q)
      BY <1>2
    <2> QED
      BY <2>1 DEF Inferred
  <1> QED
    BY <1>1, <1>3

\* A step that leaves the files of a source alone, and its artifact.
Undisturbed(q) ==
  /\ source' = source
  /\ q \in DOMAIN meta' <=> q \in DOMAIN meta
  /\ q \in DOMAIN meta => meta'[q] = meta[q]
  /\ q \in Owners =>
       /\ meta[q].handle \in DOMAIN artifact' <=> meta[q].handle \in DOMAIN artifact
       /\ meta[q].handle \in DOMAIN artifact
            => artifact'[meta[q].handle] = artifact[meta[q].handle]
       /\ q \in half' <=> q \in half

LEMMA UndisturbedSame ==
  ASSUME NEW q, Undisturbed(q)
  PROVE  /\ PlanAction(q)' = PlanAction(q)
         /\ Done(q) => Done(q)'
  <1>1. Inferred(q)' = Inferred(q) /\ Fingerprint(q)' = Fingerprint(q)
    BY InferredSame DEF Undisturbed, Fingerprint
  <1>2. q \in Owners' <=> q \in Owners
    BY DEF Undisturbed, Owners, Readable, Parses
  <1>3. ReadMetadata(q, meta)' = ReadMetadata(q, meta)
    BY DEF Undisturbed, ReadMetadata, Parses, Shell, Torn
  <1>4. Projected(q)' = Projected(q)
    BY <1>1, <1>3 DEF Projected, Resolve, Matches
  <1>5. CASE q \notin Owners
    BY <1>2, <1>5 DEF PlanAction, Done
  <1>6. CASE q \in Owners
    <2>1. meta'[q] = meta[q]
      BY <1>6, OwnersAre DEF Undisturbed
    <2>2. /\ HasArtifact(meta[q].handle)' <=> HasArtifact(meta[q].handle)
          /\ HasArtifact(meta[q].handle) => artifact'[meta[q].handle] = artifact[meta[q].handle]
          /\ q \in half' <=> q \in half
      BY <1>6, <2>1 DEF Undisturbed, HasArtifact
    <2>3. PlanAction(q)' = PlanAction(q)
      BY <1>1, <1>2, <1>4, <1>6, <2>1, <2>2 DEF PlanAction
    <2>4. source' = source
      BY DEF Undisturbed
    <2>5. ASSUME Done(q)
          PROVE  Done(q)'
      BY <1>1, <1>2, <1>4, <1>6, <2>1, <2>2, <2>4, <2>5 DEF Done, BuiltFrom
    <2> QED
      BY <2>3, <2>5
  <1> QED
    BY <1>5, <1>6

LEMMA ResolveAuthored ==
  ASSUME NEW authored, authored # None, NEW i, NEW j
  PROVE  Resolve(authored, i) = Resolve(authored, j)
  BY DEF Resolve

\* The UUID an import chooses is not that of another source's asset.
LEMMA HandleIsOwn ==
  ASSUME TypeOK, IssuedInv, NEW p \in Paths, NEW q \in Owners, q # p
  PROVE  meta[q].handle # HandleFor(p)
  <1>1. CASE p \in Range(userCatalog)
    <2>1. HandleFor(p) \in DOMAIN userCatalog /\ userCatalog[HandleFor(p)] = p
      BY <1>1 DEF HandleFor, Range
    <2> QED
      BY <2>1, OwnersDiffer DEF IssuedTo
  <1>2. CASE p \notin Range(userCatalog)
    <2>1. HandleFor(p) = fresh
      BY <1>2 DEF HandleFor
    <2>2. meta[q].handle < fresh /\ fresh \in Nat /\ meta[q].handle \in Nat
      BY OwnersDiffer DEF TypeOK, UUIDs
    <2> QED
      BY <2>1, <2>2
  <1> QED
    BY <1>1, <1>2

LEMMA CleanStep ==
  ASSUME TypeOK, IssuedInv, PlanInv, JobInv, ArtifactInv, CleanInv, [ReconcileNext]_reconcileVars
  PROVE  CleanInv'
  <1>0. NoJob.path = NoPath /\ NoJob.stage = "none" /\ NoPath \notin Present /\ Present \subseteq Paths
    BY AssetAssumption, PartialAt DEF NoJob, Present, TypeOK
  <1>1. CASE PlanReconcile
    <2>1. /\ phase' = "planned" /\ job = NoJob
          /\ plan' = [items |-> [p \in Present |->
                                   [action |-> PlanAction(p), inferred |-> Inferred(p)]],
                      accepted |-> Restrict(OnDisk, Owners \cap Present),
                      orphans |-> Restrict(OnDisk, Owners \ Present)]
          /\ UNCHANGED <<source, meta, artifact, job, half>>
      BY <1>1 DEF PlanReconcile, Ready
    <2>2. /\ DOMAIN plan'.items = Present /\ DOMAIN plan'.orphans = Owners \ Present
          /\ \A p \in Present : plan'.items[p] = [action |-> PlanAction(p), inferred |-> Inferred(p)]
      BY <2>1, RestrictOf
    <2>3. Present' = Present /\ \A p : Inferred(p)' = Inferred(p)
      BY <2>1, InferredSame
    <2>4. \A p : PlanAction(p)' = PlanAction(p)
      BY <2>1, UndisturbedSame DEF Undisturbed
    <2> QED
      BY <1>0, <2>1, <2>2, <2>3, <2>4 DEF CleanInv
  <1>2. CASE RebuildCatalog \/ OrphansRemoved
    <2>1. /\ UNCHANGED <<source, meta, artifact, job, half, plan, clean>>
          /\ \/ phase = "planned" /\ phase' = "orphans"
             \/ phase = "orphans" /\ phase' = "items"
      BY <1>2 DEF RebuildCatalog, OrphansRemoved
    <2>2. Present' = Present /\ \A p : Inferred(p)' = Inferred(p)
      BY <2>1, InferredSame
    <2>3. \A p : PlanAction(p)' = PlanAction(p)
      BY <2>1, UndisturbedSame DEF Undisturbed
    <2>4. job = NoJob
      BY <1>2 DEF RebuildCatalog, OrphansRemoved, JobInv
    <2> QED
      BY <1>0, <2>1, <2>2, <2>3, <2>4 DEF CleanInv
  <1>3. ASSUME NEW p \in Paths, NEW metadataRemoved \in BOOLEAN, NEW artifactRemoved \in BOOLEAN,
               RemoveOrphan(p, metadataRemoved, artifactRemoved), clean'
        PROVE  CleanInv'
    <2>1. clean /\ metadataRemoved /\ artifactRemoved
      BY <1>3, Zenon DEF RemoveOrphan
    <2>2. /\ phase = "orphans" /\ phase' = phase /\ p \in DOMAIN plan.orphans
          /\ meta' = Without(meta, {p}) /\ artifact' = Without(artifact, {plan.orphans[p]})
          /\ half' = half \ Recorders(plan.orphans[p])
          /\ UNCHANGED <<source, job>>
      BY <1>3, <2>1 DEF RemoveOrphan, MetadataWithout, ArtifactsWithout
    <2>3. job = NoJob
      BY <2>2 DEF JobInv
    <2>4. plan'.items = plan.items
      BY <1>3, RemoveOrphanEffect
    <2>5. DOMAIN plan'.orphans \subseteq DOMAIN plan.orphans
      BY <1>3, RemoveOrphanEffect
    <2>6. p \in Paths /\ plan.orphans[p] \in UUIDs /\ IssuedTo(plan.orphans[p], p)
      BY <2>2, PlanIssued DEF PlanInv
    <2>7. /\ p \notin Present
          /\ \A q \in Present \cap DOMAIN plan.items :
               plan.items[q] = [action |-> PlanAction(q), inferred |-> Inferred(q)]
          /\ Present \subseteq DOMAIN plan.items /\ DOMAIN plan.orphans \cap Present = {}
      BY <2>1, <2>2 DEF CleanInv
    <2>8. ASSUME NEW q \in Present
          PROVE  Undisturbed(q)
      <3>1. q # p
        BY <2>7
      <3>2. /\ DOMAIN meta' = DOMAIN meta \ {p} /\ \A r \in DOMAIN meta' : meta'[r] = meta[r]
            /\ DOMAIN artifact' = DOMAIN artifact \ {plan.orphans[p]}
            /\ \A h \in DOMAIN artifact' : artifact'[h] = artifact[h]
        BY <2>2 DEF Without, Restrict
      <3>3. q \in Owners => meta[q].handle # plan.orphans[p]
        BY <2>6, <3>1, OwnersDiffer
      <3>4. q \in Owners => (q \in half' <=> q \in half)
        BY <2>2, <3>3 DEF Recorders
      <3> QED
        BY <2>2, <3>1, <3>2, <3>3, <3>4 DEF Undisturbed
    <2>9. Present' = Present /\ \A q : Inferred(q)' = Inferred(q)
      BY <2>2, InferredSame
    <2>10. \A q \in Present : PlanAction(q)' = PlanAction(q)
      BY <2>8, UndisturbedSame
    <2> QED
      BY <1>0, <2>2, <2>3, <2>4, <2>5, <2>7, <2>9, <2>10 DEF CleanInv
  <1>4. ASSUME NEW p \in Paths, ApplyItem(p, "written"), clean
        PROVE  CleanInv'
    <2>1. /\ phase = "items" /\ phase' = "items" /\ job = NoJob /\ p \in DOMAIN plan.items
          /\ job' = IF plan.items[p].action # "Current" /\ p \in Present
                    THEN ImportJob(p, meta') ELSE NoJob
          /\ UNCHANGED <<source, artifact, half>>
      BY <1>4 DEF ApplyItem
    <2>2. /\ "written" \in Outcomes
          /\ DOMAIN plan'.items = DOMAIN plan.items \ {p}
          /\ \A q \in DOMAIN plan'.items : plan'.items[q] = plan.items[q]
      BY <1>4, ApplyItemEffect DEF Outcomes
    <2>3. \/ /\ meta' = meta
             /\ plan.items[p].inferred # None
                  => ReadMetadata(p, meta).inferred = plan.items[p].inferred
          \/ \E t \in Sidecar :
               /\ RewrittenAt(p, t)
               /\ t.path = p /\ t.inferred = plan.items[p].inferred
               /\ t.handle = ReadMetadata(p, meta).handle
               /\ t.content = ReadMetadata(p, meta).content
               /\ t.authored = ReadMetadata(p, meta).authored
               /\ t.resolved = ReadMetadata(p, meta).resolved
      BY <1>4, <2>2, ApplyItemEffect
    <2>4. /\ \A q \in Present \cap DOMAIN plan.items :
               plan.items[q] = [action |-> PlanAction(q), inferred |-> Inferred(q)]
          /\ \A q \in Present \ DOMAIN plan.items : Done(q)
      BY <1>0, <1>4, <2>1 DEF CleanInv
    <2>5. Present' = Present /\ \A q : Inferred(q)' = Inferred(q)
      BY <2>1, InferredSame
    <2>6. \A q \in Present \ {p} : Undisturbed(q)
      BY <2>1, <2>3 DEF Undisturbed, RewrittenAt
    <2>7. \A q \in Present \ {p} : PlanAction(q)' = PlanAction(q) /\ (Done(q) => Done(q)')
      BY <2>6, UndisturbedSame
    \* The sidecar that the import, or the reconcile, leaves with p.
    <2>8. ASSUME p \in Present, Inferred(p) # None
          PROVE  ReadMetadata(p, meta').inferred = Inferred(p)
      <3>0. plan.items[p] = [action |-> PlanAction(p), inferred |-> Inferred(p)]
        BY <2>1, <2>4, <2>8
      <3>1. plan.items[p].inferred = Inferred(p)
        BY <3>0
      <3>2. p # NoPath
        BY <1>0, <2>8
      <3> QED
        BY <2>3, <2>8, <3>1, <3>2 DEF RewrittenAt, ReadMetadata, Parses
    <2>9. ASSUME p \in Present, plan.items[p].action = "Current"
          PROVE  Done(p)'
      <3>0. plan.items[p] = [action |-> PlanAction(p), inferred |-> Inferred(p)]
        BY <2>1, <2>4, <2>9
      <3>1. PlanAction(p) = "Current" /\ plan.items[p].inferred = Inferred(p)
        BY <2>9, <3>0
      <3>2. /\ p \in Owners /\ HasArtifact(meta[p].handle)
            /\ meta[p].content = source[p] /\ meta[p].resolved = Projected(p)
        BY <3>1 DEF PlanAction, Fingerprint
      <3>3. ReadMetadata(p, meta) = meta[p] /\ p \in DOMAIN meta /\ meta[p].path = p
        BY <3>2, ReadIs, OwnersAre
      <3>4. /\ p \in DOMAIN meta'
            /\ meta'[p].path = p /\ meta'[p].handle = meta[p].handle
            /\ meta'[p].content = meta[p].content /\ meta'[p].authored = meta[p].authored
            /\ meta'[p].resolved = meta[p].resolved
            /\ Inferred(p) # None => meta'[p].inferred = Inferred(p)
        BY <2>3, <3>1, <3>3 DEF RewrittenAt
      <3>5. p \in Owners'
        BY <3>2, <3>4, OwnersAre DEF Owners, Readable, Parses
      <3>6. Projected(p)' = Projected(p)
        BY <1>0, <2>5, <2>9, <3>3, <3>4 DEF Projected, ReadMetadata, Parses, Resolve, Matches
      <3>7. p \in half' \/ BuiltFrom(p)'
        <4>1. p \notin half => artifact[meta[p].handle]
                                 = [content |-> meta[p].content, setting |-> meta[p].resolved]
          BY <3>2, <3>3 DEF ArtifactInv
        <4> QED
          BY <2>1, <3>2, <3>4, <4>1 DEF BuiltFrom
      <3>8. HasArtifact(meta[p].handle)' /\ meta'[p].content = source'[p]
        BY <2>1, <3>2, <3>4 DEF HasArtifact
      <3> QED
        BY <2>5, <3>2, <3>4, <3>5, <3>6, <3>7, <3>8 DEF Done
    <2>10. CASE job' = NoJob /\ (p \in Present => plan.items[p].action = "Current")
      BY <1>0, <2>1, <2>2, <2>4, <2>5, <2>7, <2>9, <2>10 DEF CleanInv
    <2>11. CASE job' = ImportJob(p, meta') /\ p \in Present
      <3>1. /\ job'.path = p /\ job'.content = source[p] /\ job'.stage = "importing"
            /\ job'.inferred = ReadMetadata(p, meta').inferred
        BY <2>11 DEF ImportJob, Fingerprint
      <3> QED
        BY <2>1, <2>2, <2>4, <2>5, <2>7, <2>8, <2>11, <3>1 DEF CleanInv
    <2> QED
      BY <2>1, <2>10, <2>11
  <1>5. CASE ReconcileEnds
    <2>1. /\ phase = "items" /\ phase' = "idle" /\ DOMAIN plan.items = {} /\ job = NoJob
          /\ plan' = NoPlan /\ UNCHANGED <<source, meta, artifact, half, job, clean>>
      BY <1>5 DEF ReconcileEnds
    <2>2. Present' = Present /\ DOMAIN plan'.items = {}
      BY <2>1, InferredSame DEF NoPlan
    <2>3. \A q : Done(q) => Done(q)'
      BY <2>1, UndisturbedSame DEF Undisturbed
    <2> QED
      BY <1>0, <2>1, <2>2, <2>3 DEF CleanInv
  <1>6. ASSUME NEW p \in Paths, ImportDirectly(p), clean'
        PROVE  CleanInv'
    <2>0. clean' = (clean /\ phase = "idle")
      BY <1>6 DEF ImportDirectly
    <2>1. /\ phase = "idle" /\ phase' = "idle" /\ clean /\ job = NoJob /\ p \in Present
          /\ job' = ImportJob(p, meta)
          /\ UNCHANGED <<source, meta, artifact, half, plan>>
      <3>1. phase = "idle" /\ clean
        BY <1>6, <2>0, Zenon
      <3> QED
        BY <1>6, <3>1 DEF ImportDirectly, Ready, Present
    <2>2. Present' = Present /\ \A q : Inferred(q)' = Inferred(q)
      BY <2>1, InferredSame
    <2>3. \A q : Done(q) => Done(q)'
      BY <2>1, UndisturbedSame DEF Undisturbed
    <2>4. /\ job'.path = p /\ job'.content = source[p] /\ job'.stage = "importing"
          /\ job'.inferred = ReadMetadata(p, meta).inferred
      BY <2>1 DEF ImportJob, Fingerprint
    <2>5. DOMAIN plan.items = {}
      BY <2>1 DEF PlanInv, NoPlan
    <2>6. \A q \in Present : Done(q)
      BY <1>0, <2>1, <2>5 DEF CleanInv
    <2>7. Inferred(p) # None => job'.inferred = Inferred(p)
      <3> SUFFICES ASSUME Inferred(p) # None
                   PROVE  job'.inferred = Inferred(p)
        OBVIOUS
      <3>1. p \in Owners /\ meta[p].inferred = Inferred(p)
        BY <2>1, <2>6 DEF Done
      <3> QED
        BY <2>4, <3>1, ReadIs
    <2> QED
      BY <2>1, <2>2, <2>3, <2>4, <2>5, <2>6, <2>7 DEF CleanInv
  <1>7. ASSUME WriteArtifact(TRUE), clean
        PROVE  CleanInv'
    <2> DEFINE handle == HandleFor(job.path)
    <2>1. /\ job.stage = "importing"
          /\ artifact' = Put(artifact, handle, Built(TRUE))
          /\ half' = half \cup Recorders(handle)
          /\ job' = [job EXCEPT !.stage = "artifact", !.handle = handle]
          /\ UNCHANGED <<source, meta, phase, plan>>
      BY <1>7 DEF WriteArtifact
    <2>2. job \in Job /\ job # NoJob
      BY <2>1 DEF TypeOK, NoJob
    <2>3. phase \in {"idle", "items"} /\ job.path \in Paths
      BY <1>7, <2>2 DEF JobInv, CleanInv, TypeOK
    <2>4. /\ job'.path = job.path /\ job'.content = job.content /\ job'.inferred = job.inferred
          /\ job'.handle = handle
      BY <2>1, <2>2 DEF Job
    <2>5. /\ phase # "idle" => \A q \in Present \cap DOMAIN plan.items :
               plan.items[q] = [action |-> PlanAction(q), inferred |-> Inferred(q)]
          /\ \A q \in Present \ DOMAIN plan.items : Done(q) \/ job.path = q
          /\ job.path \in Present \ DOMAIN plan.items
          /\ job.content = source[job.path]
          /\ Inferred(job.path) # None => job.inferred = Inferred(job.path)
      BY <1>7, <2>2, <2>3 DEF CleanInv
    <2>6. \A q \in Owners \ {job.path} : meta[q].handle # handle
      BY <2>3, HandleIsOwn
    <2> HIDE DEF handle
    <2>7. handle \in DOMAIN artifact' /\ DOMAIN artifact' = DOMAIN artifact \cup {handle}
          /\ \A h \in DOMAIN artifact \ {handle} : artifact'[h] = artifact[h]
      BY <2>1 DEF Put
    <2>8. \A q \in Owners \ {job.path} : q \in half' <=> q \in half
      BY <2>1, <2>6 DEF Recorders
    <2>9. ASSUME NEW q \in Present \ {job.path}
          PROVE  Undisturbed(q)
      BY <2>1, <2>6, <2>7, <2>8 DEF Undisturbed
    <2>10. \A q \in Present \ {job.path} : PlanAction(q)' = PlanAction(q) /\ (Done(q) => Done(q)')
      BY <2>9, UndisturbedSame
    <2>11. Present' = Present /\ \A q : Inferred(q)' = Inferred(q)
      BY <2>1, InferredSame
    <2> QED
      BY <2>1, <2>3, <2>4, <2>5, <2>7, <2>10, <2>11 DEF CleanInv, HasArtifact
  <1>8. ASSUME NEW p, p = job.path, WriteMetadata("written"), clean
        PROVE  CleanInv'
    <2>1. /\ job.stage = "artifact" /\ half' = half \ {p} /\ job' = NoJob
          /\ UNCHANGED <<source, artifact, phase, plan>>
      BY <1>8 DEF WriteMetadata
    <2>2. job \in Job /\ job # NoJob
      BY <2>1 DEF TypeOK, NoJob
    <2>3. phase \in {"idle", "items"} /\ p \in Paths /\ p # NoPath
      BY <1>8, <2>2, AssetAssumption DEF JobInv, CleanInv, TypeOK
    <2>4. "written" \in Outcomes
      BY DEF Outcomes
    <2>5. PICK t \in Sidecar :
            /\ RewrittenAt(p, t)
            /\ t.path = p /\ t.handle = job.handle /\ t.content = job.content
            /\ t.authored = job.authored /\ t.inferred = job.inferred
            /\ t.resolved = Resolve(job.authored, job.inferred)
      BY <1>8, <2>4, WriteMetadataEffect
    <2>6. /\ phase # "idle" => \A q \in Present \cap DOMAIN plan.items :
               plan.items[q] = [action |-> PlanAction(q), inferred |-> Inferred(q)]
          /\ \A q \in Present \ DOMAIN plan.items : Done(q) \/ p = q
          /\ p \in Present \ DOMAIN plan.items
          /\ job.content = source[p]
          /\ Inferred(p) # None => job.inferred = Inferred(p)
          /\ HasArtifact(job.handle)
      BY <1>8, <2>1, <2>2, <2>3 DEF CleanInv
    <2>7. job.handle # NoHandle /\ artifact[job.handle] = Built(TRUE)
      BY <2>1, <2>6 DEF JobInv, HasArtifact
    <2>8. Built(TRUE) = [content |-> job.content, setting |-> Resolve(job.authored, job.inferred)]
      BY DEF Built
    <2>9. Present' = Present /\ \A q : Inferred(q)' = Inferred(q)
      BY <2>1, InferredSame
    <2>10. \A q \in Present \ {p} : Undisturbed(q)
      BY <2>1, <2>5 DEF Undisturbed, RewrittenAt
    <2>11. \A q \in Present \ {p} : PlanAction(q)' = PlanAction(q) /\ (Done(q) => Done(q)')
      BY <2>10, UndisturbedSame
    <2>12. Done(p)'
      <3>1. p \in DOMAIN meta' /\ meta'[p] = t
        BY <2>5 DEF RewrittenAt
      <3>2. p \in Owners'
        BY <2>3, <2>5, <2>7, <3>1 DEF Owners, Readable, Parses
      <3>3. HasArtifact(meta[p].handle)' /\ meta'[p].content = source'[p]
        BY <2>1, <2>5, <2>6, <3>1 DEF HasArtifact
      <3>4. BuiltFrom(p)'
        <4>1. artifact'[meta'[p].handle]
                = [content |-> job.content, setting |-> Resolve(job.authored, job.inferred)]
          BY <2>1, <2>5, <2>7, <2>8, <3>1
        <4> QED
          BY <2>1, <2>5, <2>6, <3>1, <4>1 DEF BuiltFrom
      <3>5. Projected(p)' = Resolve(job.authored, Inferred(p))
        <4>1. ReadMetadata(p, meta)' = t
          BY <2>3, <2>5, <3>1 DEF ReadMetadata, Parses
        <4> QED
          BY <2>5, <2>9, <4>1 DEF Projected, Resolve, Matches
      <3>6. Inferred(p) # None => t.inferred = Inferred(p)
        BY <2>5, <2>6
      <3>7. ASSUME Inferred(p) # None \/ t.authored # None \/ t.inferred = None
            PROVE  t.resolved = Resolve(job.authored, Inferred(p))
        <4>1. CASE t.inferred = Inferred(p)
          BY <2>5, <4>1
        <4>2. CASE t.inferred # Inferred(p)
          <5>1. t.authored # None
            BY <3>6, <3>7, <4>2
          <5> QED
            BY <2>5, <5>1, ResolveAuthored
        <4> QED
          BY <4>1, <4>2
      <3> QED
        BY <2>9, <3>1, <3>2, <3>3, <3>4, <3>5, <3>6, <3>7 DEF Done
    <2> QED
      BY <1>0, <2>1, <2>3, <2>6, <2>9, <2>11, <2>12 DEF CleanInv
  <1>9. CASE ~clean'
    BY <1>9 DEF CleanInv
  <1>10. CASE Reopen \/ UNCHANGED reconcileVars
    <2>1. UNCHANGED <<source, meta, artifact, phase, plan, job, clean, half>>
      BY <1>10 DEF Reopen, reconcileVars
    <2>2. Present' = Present /\ \A q : Inferred(q)' = Inferred(q)
      BY <2>1, InferredSame
    <2>3. \A q : PlanAction(q)' = PlanAction(q) /\ (Done(q) => Done(q)')
      BY <2>1, UndisturbedSame DEF Undisturbed
    <2> QED
      BY <2>1, <2>2, <2>3 DEF CleanInv, HasArtifact
  <1>11. ASSUME clean', ReconcileNext
         PROVE  \/ PlanReconcile \/ RebuildCatalog \/ OrphansRemoved \/ ReconcileEnds
                \/ \E p \in Paths, metadataRemoved, artifactRemoved \in BOOLEAN :
                     RemoveOrphan(p, metadataRemoved, artifactRemoved)
                \/ clean /\ (\E p \in Paths : ApplyItem(p, "written"))
                \/ \E p \in Paths : ImportDirectly(p)
                \/ clean /\ WriteArtifact(TRUE)
                \/ clean /\ WriteMetadata("written")
                \/ Reopen
    <2>1. ~User /\ ~Crash /\ ~ImporterFails
      BY <1>11, Zenon DEF User, EditSource, DeleteSourceFile, DeleteMetadata, Author, DeleteLibrary, Rename,
           UserEdits, Crash, ImporterFails
    <2>2. ASSUME NEW p \in Paths, NEW outcome \in Outcomes, ApplyItem(p, outcome)
          PROVE  clean /\ ApplyItem(p, "written")
      <3>1. clean /\ outcome = "written"
        BY <1>11, <2>2, Zenon DEF ApplyItem
      <3> QED
        BY <2>2, <3>1
    <2>3. ASSUME NEW complete \in BOOLEAN, WriteArtifact(complete)
          PROVE  clean /\ WriteArtifact(TRUE)
      <3>1. clean /\ complete
        BY <1>11, <2>3, Zenon DEF WriteArtifact
      <3>2. complete = TRUE
        BY <3>1, Zenon
      <3> QED
        BY <2>3, <3>1, <3>2
    <2>4. ASSUME NEW outcome \in Outcomes, WriteMetadata(outcome)
          PROVE  clean /\ WriteMetadata("written")
      <3>1. clean /\ outcome = "written"
        BY <1>11, <2>4, Zenon DEF WriteMetadata
      <3> QED
        BY <2>4, <3>1
    <2> QED
      BY <1>11, <2>1, <2>2, <2>3, <2>4 DEF ReconcileNext, Reconciling, Importing
  <1> QED
    BY <1>1, <1>2, <1>3, <1>4, <1>5, <1>6, <1>7, <1>8, <1>9, <1>10, <1>11

-----------------------------------------------------------------------------
(* The theorems. *)

LEMMA ReconcileInitInv == ReconcileInit => ReconcileInv
  <1> SUFFICES ASSUME ReconcileInit
               PROVE  ReconcileInv
    OBVIOUS
  <1> USE DEF ReconcileInit
  <1>1. TypeOK
    <2>1. /\ fresh \in 1 .. MaxHandles + 1
          /\ edits \in 0 .. MaxEdits /\ failures \in 0 .. MaxFailures
      BY AssetAssumption
    <2>2. IsPartial(source, Paths, Contents)
      <3>1. PICK present \in SUBSET Paths : source \in [present -> Contents]
        BY AssetAssumption
      <3> QED
        BY <3>1, PartialPointwise
    <2> QED
      BY <2>1, <2>2, PartialEmpty, NoPlanTyped, NoJobTyped DEF TypeOK
  <1>2. Owners = {}
    BY DEF Owners, Readable
  <1>3. IssuedInv
    BY DEF IssuedInv, IssuedTo, NoJob, PlannedFor, NoPlan
  <1>4. PlanInv
    BY DEF PlanInv, NoPlan
  <1>5. CatalogInv
    BY <1>2 DEF CatalogInv, Kept
  <1>6. JobInv /\ ArtifactInv
    BY DEF JobInv, ArtifactInv, NoJob
  <1>7. CleanInv
    BY DEF CleanInv
  <1> QED
    BY <1>1, <1>3, <1>4, <1>5, <1>6, <1>7 DEF ReconcileInv

LEMMA ReconcileStepInv == ReconcileInv /\ [ReconcileNext]_reconcileVars => ReconcileInv'
  BY TypeStep, IssuedStep, PlanStep, CatalogStep, JobStep, ArtifactStep, CleanStep DEF ReconcileInv

(***************************************************************************)
(* The inductive invariant: whose UUID is whose, what the plan, the catalog *)
(* and the import under way still know about the sidecars, and what a       *)
(* reconcile that nothing disturbs has done so far.  Any calls may come     *)
(* between planReconcile and applyReconcile (asset_manager.cpp).            *)
(***************************************************************************)
THEOREM ReconcileInvariance == ReconcileSpec => []ReconcileInv
  BY ReconcileInitInv, ReconcileStepInv, PTL DEF ReconcileSpec

LEMMA ReconciledCatalog == ReconcileInv => CatalogIsMetadata
  <1> SUFFICES ASSUME ReconcileInv, phase # "orphans", NEW p \in Paths \ outside,
                      ~(p \in DOMAIN meta /\ WasCut(meta[p]))
               PROVE  CataloguedFor(p) = RecordedFor(p)
    BY DEF CatalogIsMetadata
  <1>1. Kept = Owners
    BY NoOrphans
  <1>2. CASE p \in Owners
    <2>1. RecordedFor(p) = {meta[p].handle} /\ meta[p].handle # NoHandle
      BY <1>2, OwnersAre DEF RecordedFor
    <2>2. meta[p].handle \in DOMAIN userCatalog /\ userCatalog[meta[p].handle] = p
      BY <1>1, <1>2 DEF ReconcileInv, CatalogInv
    <2>3. \A h \in DOMAIN userCatalog : userCatalog[h] = p => meta[p].handle = h
      BY <2>1 DEF ReconcileInv, CatalogInv, Accounted
    <2> QED
      BY <2>1, <2>2, <2>3 DEF CataloguedFor
  <1>3. CASE p \notin Owners
    <2>1. RecordedFor(p) = {}
      BY <1>3 DEF RecordedFor
    <2>2. \A h \in DOMAIN userCatalog : userCatalog[h] # p
      BY <1>1, <1>3 DEF ReconcileInv, CatalogInv, Accounted, WasCut
    <2> QED
      BY <2>1, <2>2 DEF CataloguedFor
  <1> QED
    BY <1>2, <1>3

(***************************************************************************)
(* Whatever is imported, reconciled with a plan of any age, interrupted or  *)
(* edited: the catalog has of each source what its sidecar on disk says,    *)
(* but for sources the user touched since, those whose assets were others   *)
(* when the plan was taken, orphans that could not be removed, and sidecars *)
(* that a failed write cut short.                                           *)
(***************************************************************************)
THEOREM CatalogFollows == ReconcileSpec => []CatalogIsMetadata
  BY ReconcileInvariance, ReconciledCatalog, PTL

LEMMA ReconciledSources ==
  ASSUME ReconcileInv, phase = "idle", job = NoJob, clean
  PROVE  \A p \in Present : Done(p)
  <1>1. DOMAIN plan.items = {}
    BY DEF ReconcileInv, PlanInv, NoPlan
  <1>2. NoPath \notin Present /\ job.path = NoPath
    BY AssetAssumption, PartialAt DEF NoJob, Present, ReconcileInv, TypeOK
  <1> QED
    BY <1>1, <1>2 DEF ReconcileInv, CleanInv

(***************************************************************************)
(* After a reconcile in which nothing failed the library is current, for    *)
(* any sources, settings and history of edits.                              *)
(***************************************************************************)
THEOREM Reconciled == ReconcileSpec => []LibraryCurrent
  <1>1. ReconcileInv => LibraryCurrent
    BY ReconciledSources DEF LibraryCurrent, Done, Present, HasArtifact
  <1> QED
    BY <1>1, ReconcileInvariance, PTL

(***************************************************************************)
(* A second reconcile plans nothing but Current items, except for sources   *)
(* whose inferred setting has lost its publisher.                           *)
(***************************************************************************)
THEOREM Converges == ReconcileSpec => []InferredConverges
  <1>1. ReconcileInv => InferredConverges
    BY ReconciledSources DEF InferredConverges, Converged, Done, Present, PlanAction, Fingerprint
  <1> QED
    BY <1>1, ReconcileInvariance, PTL

LEMMA IdentityStep ==
  ASSUME ReconcileInv, [ReconcileNext]_reconcileVars, edits' = edits
  PROVE  Keeps((Owners \cap Present) \ (outside \cup Leaving))
  <1> USE DEF ReconcileInv
  <1>1. CASE meta' = meta
    BY <1>1, OwnersAre DEF Keeps
  <1>2. ASSUME NEW p \in Paths, NEW metadataRemoved \in BOOLEAN, NEW artifactRemoved \in BOOLEAN,
               RemoveOrphan(p, metadataRemoved, artifactRemoved)
        PROVE  Keeps((Owners \cap Present) \ (outside \cup Leaving))
    <2>1. p \in Leaving /\ (meta' = meta \/ meta' = Without(meta, {p}))
      BY <1>2 DEF RemoveOrphan, MetadataWithout, Leaving
    <2>2. \A q \in DOMAIN meta \ {p} : q \in DOMAIN meta' /\ meta'[q] = meta[q]
      BY <2>1 DEF Without, Restrict
    <2> QED
      BY <2>1, <2>2, OwnersAre DEF Keeps
  <1>3. ASSUME NEW p \in Paths, NEW t \in Sidecar, RewrittenAt(p, t),
               \/ ~clean' /\ t.handle = NoHandle
               \/ p \in Owners \ outside => t.handle = meta[p].handle /\ t.authored = meta[p].authored
        PROVE  Keeps((Owners \cap Present) \ (outside \cup Leaving))
    <2>1. \A q \in DOMAIN meta : q \in DOMAIN meta' /\ (q # p => meta'[q] = meta[q])
      BY <1>3 DEF RewrittenAt
    <2>2. p \in DOMAIN meta' /\ meta'[p] = t
      BY <1>3 DEF RewrittenAt
    <2>3. CASE ~clean' /\ t.handle = NoHandle
      BY <2>1, <2>2, <2>3, OwnersAre DEF Keeps, WasCut
    <2>4. CASE p \in Owners \ outside => t.handle = meta[p].handle /\ t.authored = meta[p].authored
      BY <2>1, <2>2, <2>4, OwnersAre DEF Keeps
    <2> QED
      BY <1>3, <2>3, <2>4
  <1>4. ASSUME NEW p \in Paths, NEW outcome \in Outcomes, ApplyItem(p, outcome), meta' # meta
        PROVE  Keeps((Owners \cap Present) \ (outside \cup Leaving))
    <2>1. PICK t \in Sidecar :
            /\ RewrittenAt(p, t)
            /\ outcome = "written" => /\ t.handle = ReadMetadata(p, meta).handle
                                      /\ t.authored = ReadMetadata(p, meta).authored
            /\ outcome # "written" => t.handle = NoHandle
      BY <1>4, ApplyItemEffect
    <2>2. outcome # "written" => ~clean'
      BY <1>4 DEF ApplyItem
    <2>3. p \in Owners => ReadMetadata(p, meta) = meta[p]
      BY ReadIs, OwnersAre
    <2> QED
      BY <1>3, <2>1, <2>2, <2>3
  <1>5. ASSUME NEW outcome \in Outcomes, WriteMetadata(outcome), meta' # meta
        PROVE  Keeps((Owners \cap Present) \ (outside \cup Leaving))
    <2>1. job.path \in Paths /\ outcome # "kept"
      BY <1>5, WriteMetadataEffect
    <2>2. PICK t \in Sidecar :
            /\ RewrittenAt(job.path, t)
            /\ outcome = "written" => t.handle = job.handle /\ t.authored = job.authored
            /\ outcome # "written" => t.handle = NoHandle /\ ~clean'
      BY <1>5, <2>1, WriteMetadataEffect
    <2>3. job.stage = "artifact" /\ job # NoJob
      BY <1>5 DEF WriteMetadata, NoJob
    <2>4. job.path \in Owners \ outside => /\ meta[job.path].handle = job.handle
                                           /\ job.authored = meta[job.path].authored
      BY <2>1, <2>3, ReadIs, OwnersAre DEF JobInv
    <2> QED
      BY <1>3, <2>1, <2>2, <2>4
  <1>6. ~User
    <2>1. edits \in Nat
      BY AssetAssumption DEF TypeOK
    <2>2. ~UserEdits
      BY <2>1 DEF UserEdits
    <2> QED
      BY <2>2 DEF User, EditSource, DeleteSourceFile, DeleteMetadata, Author, DeleteLibrary, Rename
  <1>7. CASE \/ PlanReconcile \/ RebuildCatalog \/ OrphansRemoved \/ ReconcileEnds
             \/ (\E p \in Paths : ImportDirectly(p)) \/ ImporterFails
             \/ (\E complete \in BOOLEAN : WriteArtifact(complete)) \/ Reopen \/ Crash
             \/ UNCHANGED reconcileVars
    BY <1>1, <1>7 DEF PlanReconcile, RebuildCatalog, OrphansRemoved, ReconcileEnds, ImportDirectly,
         ImporterFails, WriteArtifact, Reopen, Crash, reconcileVars
  <1> QED
    BY <1>1, <1>2, <1>4, <1>5, <1>6, <1>7 DEF ReconcileNext, Reconciling, Importing

(***************************************************************************)
(* No step of the manager takes a source's UUID or what the user wrote for  *)
(* it, whatever is imported before a plan is applied: but for a write that  *)
(* fails halfway, a source that came back after it was planned as an        *)
(* orphan, and sources whose sidecars the catalog was not built from.       *)
(***************************************************************************)
THEOREM Identity == ReconcileSpec => IdentityKept
  <1>1. ReconcileInv /\ [ReconcileNext]_reconcileVars
          => [edits' = edits => Keeps((Owners \cap Present) \ (outside \cup Leaving))]_reconcileVars
    BY IdentityStep
  <1> QED
    BY <1>1, ReconcileInvariance, PTL DEF ReconcileSpec, IdentityKept
==============================================================================
