------------------------------ MODULE SceneProofs ------------------------------
(***************************************************************************)
(* Theorems of Scene and SceneSystems.                                      *)
(*                                                                          *)
(* Scene: the links of a registry form a forest, so the recursive functions *)
(* of the model (the memoised visit, the true worlds, the links of a        *)
(* document) exist and have one value per entity: a function solves the     *)
(* recursion on the entities of a height below n, for each n.  With that a  *)
(* visit leaves every cache made from its parent's, except those it says    *)
(* are stranded (CacheInv), and an update or a load leaves them true.       *)
(*                                                                          *)
(* SceneSystems: the flags keep every callback from changing the vector, so *)
(* the entry a call holds on to stays, and with it the pairing of onAttach  *)
(* and onDetach (IInv).                                                     *)
(***************************************************************************)
EXTENDS Scene, SceneSystems, FiniteSetTheorems, SequenceTheorems, WellFoundedInduction, TLAPS

-----------------------------------------------------------------------------
(***************************************************************************)
(*                                 Scene                                    *)
(***************************************************************************)

\* A set of numbers that is not empty has a least one.
LEMMA LeastOf ==
  ASSUME NEW S \in SUBSET Nat, S # {}
  PROVE  \E n \in S : \A m \in S : n <= m
  <1>1. \E x \in S : \A y \in S : ~(<<y, x>> \in OpToRel(<, Nat))
    BY NatLessThanWellFounded, WFMin
  <1>2. \A x, y \in Nat : y < x => <<y, x>> \in OpToRel(<, Nat)
    BY DEF OpToRel
  <1> HIDE DEF OpToRel
  <1>3. PICK x \in S : \A y \in S : ~(y < x)
    BY <1>1, <1>2
  <1> QED
    BY <1>3

-----------------------------------------------------------------------------
(* Ancestors, in any registry. *)

LEMMA NoIdAbsent ==
  ASSUME NEW r, DOMAIN r \subseteq Ids
  PROVE  /\ NoId \notin DOMAIN r
         /\ \A e : ParentOf(r, e) \in DOMAIN r \cup {NoId}
         /\ \A e : ParentOf(r, e) # NoId => ParentOf(r, e) = r[e].parent_id
  BY SceneAssumption DEF ParentOf

\* The least set with e that is closed under parents.
LEMMA AncestorsAre ==
  ASSUME NEW r, DOMAIN r \subseteq Ids, NEW e \in DOMAIN r
  PROVE  /\ e \in AncestorsOrSelf(r, e)
         /\ AncestorsOrSelf(r, e) \subseteq DOMAIN r
         /\ ParentClosed(r, AncestorsOrSelf(r, e))
         /\ \A S \in SUBSET DOMAIN r : e \in S /\ ParentClosed(r, S) => AncestorsOrSelf(r, e) \subseteq S
  <1> DEFINE closed == {S \in SUBSET DOMAIN r : e \in S /\ ParentClosed(r, S)}
             A == AncestorsOrSelf(r, e)
  <1>1. A = {a \in DOMAIN r : \A S \in closed : a \in S}
    BY DEF AncestorsOrSelf
  <1> HIDE DEF A
  <1>2. e \in A /\ A \subseteq DOMAIN r
    BY <1>1
  <1>3. ParentClosed(r, A)
    <2>1. SUFFICES ASSUME NEW a \in A, ParentOf(r, a) # NoId
                   PROVE  ParentOf(r, a) \in A
      BY DEF ParentClosed
    <2>2. ParentOf(r, a) \in DOMAIN r
      BY <2>1, NoIdAbsent
    <2>3. \A S \in closed : a \in S /\ ParentOf(r, a) \in S
      BY <1>1, <2>1 DEF ParentClosed
    <2> HIDE DEF closed
    <2> QED
      BY <1>1, <2>2, <2>3
  <1>4. \A S \in SUBSET DOMAIN r : e \in S /\ ParentClosed(r, S) => A \subseteq S
    BY <1>1
  <1> QED
    BY <1>2, <1>3, <1>4 DEF A

LEMMA AncestorsTransitive ==
  ASSUME NEW r, DOMAIN r \subseteq Ids, NEW e \in DOMAIN r, NEW a \in AncestorsOrSelf(r, e)
  PROVE  a \in DOMAIN r /\ AncestorsOrSelf(r, a) \subseteq AncestorsOrSelf(r, e)
  <1>1. AncestorsOrSelf(r, e) \subseteq DOMAIN r /\ ParentClosed(r, AncestorsOrSelf(r, e))
    BY AncestorsAre
  <1> QED
    BY <1>1, AncestorsAre

LEMMA AncestorsStep ==
  ASSUME NEW r, DOMAIN r \subseteq Ids, NEW e \in DOMAIN r
  PROVE  /\ ParentOf(r, e) = NoId => AncestorsOrSelf(r, e) = {e}
         /\ ParentOf(r, e) # NoId =>
              /\ ParentOf(r, e) \in DOMAIN r
              /\ AncestorsOrSelf(r, e) = {e} \cup AncestorsOrSelf(r, ParentOf(r, e))
  <1>1. CASE ParentOf(r, e) = NoId
    <2>1. ParentClosed(r, {e})
      BY <1>1 DEF ParentClosed
    <2>2. AncestorsOrSelf(r, e) \subseteq {e} /\ e \in AncestorsOrSelf(r, e)
      BY <2>1, AncestorsAre
    <2> QED
      BY <1>1, <2>2
  <1>2. CASE ParentOf(r, e) # NoId
    <2> DEFINE p == ParentOf(r, e)
    <2>1. p \in DOMAIN r
      BY <1>2, NoIdAbsent
    <2>2. p \in AncestorsOrSelf(r, e) /\ e \in AncestorsOrSelf(r, e)
      BY <1>2, AncestorsAre DEF ParentClosed
    <2>3. AncestorsOrSelf(r, p) \subseteq AncestorsOrSelf(r, e)
      BY <2>2, AncestorsTransitive
    <2>4. /\ p \in AncestorsOrSelf(r, p) /\ AncestorsOrSelf(r, p) \subseteq DOMAIN r
          /\ ParentClosed(r, AncestorsOrSelf(r, p))
      BY <2>1, AncestorsAre
    <2>5. ParentClosed(r, {e} \cup AncestorsOrSelf(r, p))
      BY <2>4 DEF ParentClosed
    <2>6. AncestorsOrSelf(r, e) \subseteq {e} \cup AncestorsOrSelf(r, p)
      BY <2>4, <2>5, AncestorsAre
    <2> QED
      BY <1>2, <2>1, <2>2, <2>3, <2>6
  <1> QED
    BY <1>1, <1>2

\* Each entity of a forest has fewer ancestors than its children.
Height(r, e) == Cardinality(AncestorsOrSelf(r, e))

LEMMA HeightFalls ==
  ASSUME NEW r, DOMAIN r \subseteq Ids, NEW e \in DOMAIN r
  PROVE  /\ Height(r, e) \in Nat
         /\ ~OnCycle(r, e) /\ ParentOf(r, e) # NoId => Height(r, ParentOf(r, e)) < Height(r, e)
  <1>0. IsFiniteSet(DOMAIN r)
    BY SceneAssumption, FS_Subset
  <1>1. \A a \in DOMAIN r : IsFiniteSet(AncestorsOrSelf(r, a)) /\ Height(r, a) \in Nat
    BY <1>0, AncestorsAre, FS_Subset, FS_CardinalityType DEF Height
  <1>2. ASSUME ~OnCycle(r, e), ParentOf(r, e) # NoId
        PROVE  Height(r, ParentOf(r, e)) < Height(r, e)
    <2> DEFINE p == ParentOf(r, e)
    <2>1. p \in DOMAIN r /\ AncestorsOrSelf(r, e) = {e} \cup AncestorsOrSelf(r, p)
      BY <1>2, AncestorsStep
    <2>2. e \notin AncestorsOrSelf(r, p)
      BY <1>2 DEF OnCycle
    <2> HIDE DEF p
    <2>3. /\ Height(r, p) <= Height(r, e)
          /\ Height(r, p) = Height(r, e) => AncestorsOrSelf(r, p) = AncestorsOrSelf(r, e)
      BY <1>1, <2>1, FS_Subset DEF Height
    <2>4. Height(r, p) # Height(r, e)
      BY <2>1, <2>2, <2>3
    <2> QED
      BY <1>1, <2>1, <2>3, <2>4 DEF p
  <1> QED
    BY <1>1, <1>2

\* Induction down a forest.
LEMMA ForestInduction ==
  ASSUME NEW r, DOMAIN r \subseteq Ids, NEW V \in SUBSET DOMAIN r,
         \A e \in V : ~OnCycle(r, e),
         NEW G, \A e \in V : (ParentOf(r, e) \in V => ParentOf(r, e) \in G) => e \in G
  PROVE  V \subseteq G
  <1> SUFFICES ASSUME V \ G # {}
               PROVE  FALSE
    OBVIOUS
  <1> DEFINE heights == {Height(r, e) : e \in V \ G}
  <1>1. heights \in SUBSET Nat /\ heights # {}
    BY HeightFalls
  <1>2. PICK n \in heights : \A m \in heights : n <= m
    BY <1>1, LeastOf
  <1>3. PICK e \in V \ G : Height(r, e) = n
    BY <1>2
  <1>4. ParentOf(r, e) \in V /\ ParentOf(r, e) \notin G
    BY <1>3
  <1>5. ParentOf(r, e) # NoId
    BY <1>4, NoIdAbsent
  <1>6. Height(r, ParentOf(r, e)) < n /\ Height(r, ParentOf(r, e)) \in Nat
    BY <1>3, <1>4, <1>5, HeightFalls
  <1>7. n <= Height(r, ParentOf(r, e))
    BY <1>2, <1>4
  <1> QED
    BY <1>1, <1>2, <1>6, <1>7

\* Only the links matter.
SameLinks(q, r) ==
  DOMAIN q = DOMAIN r /\ \A e \in DOMAIN r : q[e].parent_id = r[e].parent_id

LEMMA SameLinksSame ==
  ASSUME NEW q, NEW r, SameLinks(q, r)
  PROVE  \A e \in DOMAIN r : /\ ParentOf(q, e) = ParentOf(r, e)
                             /\ AncestorsOrSelf(q, e) = AncestorsOrSelf(r, e)
                             /\ ParentOf(r, e) \in DOMAIN r \cup {NoId} =>
                                  (OnCycle(q, e) <=> OnCycle(r, e))
  <1>1. \A e \in DOMAIN r : ParentOf(q, e) = ParentOf(r, e)
    BY DEF SameLinks, ParentOf
  <1>2. DOMAIN q = DOMAIN r
    BY DEF SameLinks
  <1>3. \A S \in SUBSET DOMAIN r : ParentClosed(q, S) <=> ParentClosed(r, S)
    BY <1>1 DEF ParentClosed
  <1>4. ASSUME NEW e \in DOMAIN r
        PROVE  AncestorsOrSelf(q, e) = AncestorsOrSelf(r, e)
    <2>1. {S \in SUBSET DOMAIN q : e \in S /\ ParentClosed(q, S)}
            = {S \in SUBSET DOMAIN r : e \in S /\ ParentClosed(r, S)}
      BY <1>2, <1>3
    <2> QED
      BY <1>2, <2>1 DEF AncestorsOrSelf
  <1> QED
    BY <1>1, <1>4 DEF OnCycle

LEMMA SameLinksForest ==
  ASSUME NEW q, NEW r, DOMAIN r \subseteq Ids, SameLinks(q, r), IsForest(r)
  PROVE  IsForest(q)
  BY SameLinksSame, NoIdAbsent DEF IsForest, SameLinks

-----------------------------------------------------------------------------
(* What the operations do to the links. *)

LEMMA NoCycleBy ==
  ASSUME NEW r, DOMAIN r \subseteq Ids, NEW e \in DOMAIN r, NEW S \in SUBSET DOMAIN r,
         ParentClosed(r, S), e \notin S, ParentOf(r, e) \in S \cup {NoId}
  PROVE  ~OnCycle(r, e)
  BY AncestorsAre DEF OnCycle

LEMMA RelinkedForest ==
  ASSUME NEW r, DOMAIN r \subseteq Ids, IsForest(r), NEW c \in DOMAIN r,
         NEW p \in DOMAIN r \cup {NoId}, p # NoId => c \notin AncestorsOrSelf(r, p),
         NEW q, DOMAIN q = DOMAIN r, q[c].parent_id = p,
         \A e \in DOMAIN r \ {c} : q[e].parent_id = r[e].parent_id
  PROVE  IsForest(q)
  <1>1. ParentOf(q, c) = p /\ \A e \in DOMAIN r \ {c} : ParentOf(q, e) = ParentOf(r, e)
    BY NoIdAbsent DEF ParentOf
  <1>2. SUFFICES ASSUME NEW e \in DOMAIN r
                 PROVE  ~OnCycle(q, e)
    BY DEF IsForest
  \* The new parent and its ancestors.
  <1> DEFINE P == IF p = NoId THEN {} ELSE AncestorsOrSelf(r, p)
  <1>3. /\ P \subseteq DOMAIN r /\ ParentClosed(r, P) /\ c \notin P
        /\ p \in P \cup {NoId}
    <2>1. CASE p = NoId
      BY <2>1 DEF ParentClosed
    <2>2. CASE p # NoId
      BY <2>2, AncestorsAre
    <2> QED
      BY <2>1, <2>2
  <1> HIDE DEF P
  <1>4. ParentClosed(q, P)
    BY <1>1, <1>3 DEF ParentClosed
  <1>5. CASE e = c
    BY <1>1, <1>3, <1>4, <1>5, NoCycleBy
  <1>6. CASE e # c /\ ParentOf(r, e) = NoId
    BY <1>1, <1>6 DEF OnCycle
  <1>7. CASE e # c /\ ParentOf(r, e) # NoId
    <2> DEFINE w == ParentOf(r, e)
               W == AncestorsOrSelf(r, w)
    <2>1. w \in DOMAIN r /\ e \notin W
      BY <1>7, NoIdAbsent DEF IsForest, OnCycle
    <2>2. W \subseteq DOMAIN r /\ ParentClosed(r, W) /\ w \in W
      BY <2>1, AncestorsAre
    <2>3. AncestorsOrSelf(r, e) = {e} \cup W
      BY <1>7, AncestorsStep
    <2>4. ParentOf(q, e) = w
      BY <1>1, <1>7
    <2>5. CASE c \notin W
      <3>1. ParentClosed(q, W)
        BY <1>1, <2>2, <2>5 DEF ParentClosed
      <3> HIDE DEF w, W
      <3> QED
        BY <2>1, <2>2, <2>4, <3>1, NoCycleBy
    <2>6. CASE c \in W
      <3>1. e \notin P
        <4>1. ASSUME e \in P
              PROVE  c \in P
          <5>1. p # NoId
            BY <4>1 DEF P
          <5>2. P = AncestorsOrSelf(r, p) /\ p \in DOMAIN r
            BY <5>1 DEF P
          <5>3. AncestorsOrSelf(r, e) \subseteq P
            BY <4>1, <5>2, AncestorsTransitive
          <5> QED
            BY <2>3, <2>6, <5>3
        <4> QED
          BY <1>3, <4>1
      <3>2. ParentClosed(q, W \cup P)
        BY <1>1, <1>3, <2>2 DEF ParentClosed
      <3> HIDE DEF w, W
      <3> QED
        BY <1>3, <2>1, <2>2, <2>4, <3>1, <3>2, NoCycleBy
    <2> QED
      BY <2>5, <2>6
  <1> QED
    BY <1>5, <1>6, <1>7

\* A part of the registry that the links do not lead out of.
LEMMA PartLinks ==
  ASSUME NEW r, DOMAIN r \subseteq Ids, NEW q, DOMAIN q \subseteq DOMAIN r,
         ParentClosed(r, DOMAIN q),
         \A e \in DOMAIN q : /\ q[e].parent_id = r[e].parent_id
                             /\ r[e].parent_id \in DOMAIN r \cup {NoId}
  PROVE  \A e \in DOMAIN q : /\ ParentOf(q, e) = ParentOf(r, e)
                             /\ AncestorsOrSelf(q, e) = AncestorsOrSelf(r, e)
                             /\ OnCycle(q, e) <=> OnCycle(r, e)
  <1>1. \A e \in DOMAIN q : /\ ParentOf(q, e) = ParentOf(r, e)
                            /\ ParentOf(q, e) \in DOMAIN q \cup {NoId}
    BY DEF ParentOf, ParentClosed
  <1>2. \A S \in SUBSET DOMAIN q : ParentClosed(q, S) <=> ParentClosed(r, S)
    BY <1>1 DEF ParentClosed
  <1>3. ASSUME NEW e \in DOMAIN q
        PROVE  AncestorsOrSelf(q, e) = AncestorsOrSelf(r, e)
    <2>1. AncestorsOrSelf(r, e) \subseteq DOMAIN q
      BY AncestorsAre
    <2>2. /\ e \in AncestorsOrSelf(r, e) /\ ParentClosed(r, AncestorsOrSelf(r, e))
          /\ e \in AncestorsOrSelf(q, e) /\ ParentClosed(q, AncestorsOrSelf(q, e))
          /\ AncestorsOrSelf(q, e) \subseteq DOMAIN q
      BY AncestorsAre
    <2>3. AncestorsOrSelf(q, e) \subseteq AncestorsOrSelf(r, e)
      BY <1>2, <2>1, <2>2, AncestorsAre
    <2>4. AncestorsOrSelf(r, e) \subseteq AncestorsOrSelf(q, e)
      BY <1>2, <2>2, AncestorsAre
    <2> QED
      BY <2>3, <2>4
  <1> QED
    BY <1>1, <1>3 DEF OnCycle

LEMMA SubtreeOf ==
  ASSUME NEW r, DOMAIN r \subseteq Ids, NEW x
  PROVE  /\ Subtree(r, x) \subseteq DOMAIN r
         /\ x \in DOMAIN r => x \in Subtree(r, x)
         /\ ParentClosed(r, DOMAIN r \ Subtree(r, x))
         /\ \A e \in Subtree(r, x) : e # x => ParentOf(r, e) \in Subtree(r, x)
  <1>1. Subtree(r, x) \subseteq DOMAIN r /\ (x \in DOMAIN r => x \in Subtree(r, x))
    BY AncestorsAre DEF Subtree
  <1>2. ASSUME NEW a \in DOMAIN r, a \notin Subtree(r, x), ParentOf(r, a) # NoId
        PROVE  ParentOf(r, a) \in DOMAIN r \ Subtree(r, x)
    BY <1>2, AncestorsStep DEF Subtree
  <1>3. ASSUME NEW e \in Subtree(r, x), e # x
        PROVE  ParentOf(r, e) \in Subtree(r, x)
    <2>1. e \in DOMAIN r /\ x \in AncestorsOrSelf(r, e)
      BY <1>3 DEF Subtree
    <2> QED
      BY <1>3, <2>1, AncestorsStep DEF Subtree
  <1> QED
    BY <1>1, <1>2, <1>3 DEF ParentClosed

LEMMA DestroyedForest ==
  ASSUME NEW r, DOMAIN r \subseteq Ids, IsForest(r), NEW x
  PROVE  IsForest(Restrict(r, DOMAIN r \ Subtree(r, x)))
  <1> DEFINE q == Restrict(r, DOMAIN r \ Subtree(r, x))
  <1>1. DOMAIN q = DOMAIN r \ Subtree(r, x) /\ \A e \in DOMAIN q : q[e] = r[e]
    BY DEF Restrict
  <1> HIDE DEF q
  <1>2. ParentClosed(r, DOMAIN q)
    BY <1>1, SubtreeOf
  <1>3. \A e \in DOMAIN q : OnCycle(q, e) <=> OnCycle(r, e)
    BY <1>1, <1>2, PartLinks DEF IsForest
  <1>4. \A e \in DOMAIN q : q[e].parent_id \in DOMAIN q \cup {NoId}
    BY <1>1, <1>2 DEF IsForest, ParentClosed, ParentOf
  <1>5. IsForest(q)
    BY <1>1, <1>3, <1>4 DEF IsForest
  <1> QED
    BY <1>5 DEF q

\* New entities whose parents are old ones, if any.
LEMMA ExtendedForest ==
  ASSUME NEW r, IsForest(r), NEW q, DOMAIN q \subseteq Ids, DOMAIN r \subseteq DOMAIN q,
         \A e \in DOMAIN r : q[e].parent_id = r[e].parent_id,
         \A e \in DOMAIN q \ DOMAIN r : q[e].parent_id \in DOMAIN r \cup {NoId}
  PROVE  IsForest(q)
  <1>1. ParentClosed(q, DOMAIN r)
    BY DEF ParentClosed, ParentOf, IsForest
  <1>2. \A e \in DOMAIN r : OnCycle(r, e) <=> OnCycle(q, e)
    BY <1>1, PartLinks DEF IsForest
  <1>3. ASSUME NEW e \in DOMAIN q \ DOMAIN r
        PROVE  ~OnCycle(q, e)
    <2>1. ParentOf(q, e) \in DOMAIN r \cup {NoId}
      BY <1>3 DEF ParentOf
    <2> QED
      BY <1>1, <1>3, <2>1, NoCycleBy
  <1> QED
    BY <1>2, <1>3 DEF IsForest

LEMMA CopiedIs ==
  ASSUME NEW source \in Entity, NEW redirected
  PROVE  LET copy == Copied(source, redirected)
         IN  /\ copy.parent_id = RemappedParent(redirected, source.parent_id)
             /\ copy.local = source.local
             /\ copy.cache.dirty = TRUE
             /\ copy.parent_id \in Ids \cup {NoId} => copy \in Entity
  <1> DEFINE copy == [source EXCEPT !.parent_id = RemappedParent(redirected, source.parent_id),
                                    !.cache = [source.cache EXCEPT !.dirty = TRUE]]
  <1>1. Copied(source, redirected) = copy
    BY DEF Copied
  <1>2. [source.cache EXCEPT !.dirty = TRUE] \in Cache /\ [source.cache EXCEPT !.dirty = TRUE].dirty = TRUE
    BY DEF Entity, Cache
  <1>3. /\ copy.parent_id = RemappedParent(redirected, source.parent_id)
        /\ copy.local = source.local
        /\ copy.cache = [source.cache EXCEPT !.dirty = TRUE]
        /\ copy.parent_id \in Ids \cup {NoId} => copy \in Entity
    BY <1>2 DEF Entity
  <1> HIDE DEF copy
  <1> QED
    BY <1>1, <1>2, <1>3

LEMMA CopyingAre ==
  ASSUME NEW sources, NEW copyOf \in Copying(sources)
  PROVE  /\ DOMAIN copyOf = sources
         /\ \A s \in sources : copyOf[s] \in Ids \ DOMAIN registry
         /\ \A s, t \in sources : copyOf[s] = copyOf[t] => s = t
  BY DEF Copying

LEMMA CopiesDomain ==
  ASSUME NEW sources, NEW copyOf \in Copying(sources), NEW redirected
  PROVE  DOMAIN WithCopies(copyOf, redirected) = DOMAIN registry \cup {copyOf[s] : s \in sources}
  BY CopyingAre DEF WithCopies, Range

LEMMA CopiesKeep ==
  ASSUME NEW copyOf, NEW redirected
  PROVE  \A e \in DOMAIN registry : WithCopies(copyOf, redirected)[e] = registry[e]
  BY DEF WithCopies

LEMMA CopiesAre ==
  ASSUME NEW sources, NEW copyOf \in Copying(sources), NEW redirected
  PROVE  \A s \in sources : WithCopies(copyOf, redirected)[copyOf[s]] = Copied(registry[s], redirected)
  <1> SUFFICES ASSUME NEW s \in sources
               PROVE  WithCopies(copyOf, redirected)[copyOf[s]] = Copied(registry[s], redirected)
    OBVIOUS
  <1>1. (CHOOSE t \in DOMAIN copyOf : copyOf[t] = copyOf[s]) = s
    BY CopyingAre
  <1>2. copyOf[s] \notin DOMAIN registry /\ copyOf[s] \in DOMAIN registry \cup Range(copyOf)
    BY CopyingAre DEF Range
  <1> QED
    BY <1>1, <1>2 DEF WithCopies

LEMMA ForestParent ==
  ASSUME NEW r, DOMAIN r \subseteq Ids, IsForest(r)
  PROVE  \A e \in DOMAIN r : ParentOf(r, e) = r[e].parent_id
  BY DEF IsForest, ParentOf

\* The copies of a subtree form a subtree like it.
LEMMA CopiedLinks ==
  ASSUME SceneTypeOK, HierarchyIsForest, NEW root \in DOMAIN registry,
         NEW copyOf \in Copying(Subtree(registry, root)),
         NEW q, q = WithCopies(copyOf, copyOf)
  PROVE  /\ DOMAIN q \subseteq Ids
         /\ IsForest(q)
         /\ q[copyOf[root]].parent_id = registry[root].parent_id
         /\ \A s \in Subtree(registry, root) :
              /\ s # root => q[copyOf[s]].parent_id = copyOf[registry[s].parent_id]
              /\ Subtree(q, copyOf[s]) = {copyOf[t] : t \in Subtree(registry, s)}
  <1> DEFINE sources == Subtree(registry, root)
             parent(s) == registry[s].parent_id
  <1>0. DOMAIN registry \subseteq Ids /\ IsForest(registry)
    BY DEF SceneTypeOK, HierarchyIsForest
  <1>1. /\ \A e \in DOMAIN registry : ParentOf(registry, e) = parent(e)
        /\ \A e \in DOMAIN registry : parent(e) \in DOMAIN registry \cup {NoId} /\ ~OnCycle(registry, e)
        /\ NoId \notin DOMAIN registry
    BY <1>0, ForestParent, NoIdAbsent DEF IsForest
  <1>2. /\ sources \subseteq DOMAIN registry /\ root \in sources
        /\ ParentClosed(registry, DOMAIN registry \ sources)
        /\ \A s \in sources : s # root => parent(s) \in sources
    <2>1. /\ sources \subseteq DOMAIN registry /\ root \in sources
          /\ ParentClosed(registry, DOMAIN registry \ sources)
          /\ \A s \in sources : s # root => ParentOf(registry, s) \in sources
      BY <1>0, SubtreeOf
    <2> HIDE DEF sources
    <2> QED
      BY <1>1, <2>1
  <1>3. parent(root) \notin sources
    <2>1. CASE parent(root) = NoId
      BY <1>1, <1>2, <2>1
    <2>2. CASE parent(root) # NoId
      <3>1. root \notin AncestorsOrSelf(registry, parent(root))
        BY <1>1, <2>2 DEF OnCycle
      <3> QED
        BY <3>1 DEF Subtree
    <2> QED
      BY <2>1, <2>2
  <1>4. /\ DOMAIN q = DOMAIN registry \cup {copyOf[s] : s \in sources}
        /\ \A e \in DOMAIN registry : q[e] = registry[e]
        /\ DOMAIN copyOf = sources
        /\ \A s \in sources : copyOf[s] \in Ids \ DOMAIN registry
        /\ \A s, t \in sources : copyOf[s] = copyOf[t] => s = t
        /\ \A s \in sources : q[copyOf[s]] = Copied(registry[s], copyOf)
    <2>1. copyOf \in Copying(sources)
      OBVIOUS
    <2> HIDE DEF sources
    <2>2. /\ DOMAIN copyOf = sources
          /\ \A s \in sources : copyOf[s] \in Ids \ DOMAIN registry
          /\ \A s, t \in sources : copyOf[s] = copyOf[t] => s = t
      BY <2>1, CopyingAre
    <2>3. /\ DOMAIN q = DOMAIN registry \cup {copyOf[s] : s \in sources}
          /\ \A e \in DOMAIN registry : q[e] = registry[e]
          /\ \A s \in sources : q[copyOf[s]] = Copied(registry[s], copyOf)
      BY <2>1, CopiesDomain, CopiesKeep, CopiesAre
    <2> QED
      BY <2>2, <2>3
  <1>5. DOMAIN q \subseteq Ids
    BY <1>0, <1>4
  <1>6. ASSUME NEW s \in sources
        PROVE  q[copyOf[s]].parent_id = IF parent(s) \in sources THEN copyOf[parent(s)] ELSE parent(s)
    <2>1. registry[s] \in Entity
      BY <1>2 DEF SceneTypeOK
    <2>2. q[copyOf[s]].parent_id = RemappedParent(copyOf, registry[s].parent_id)
      <3>1. Copied(registry[s], copyOf).parent_id = RemappedParent(copyOf, registry[s].parent_id)
        BY <2>1, CopiedIs
      <3> QED
        BY <1>4, <3>1
    <2> QED
      BY <1>4, <2>2 DEF RemappedParent
  <1> HIDE DEF sources
  <1>7. ASSUME NEW s \in sources
        PROVE  ParentOf(q, copyOf[s]) = IF parent(s) \in sources THEN copyOf[parent(s)] ELSE parent(s)
    <2>1. q[copyOf[s]].parent_id \in DOMAIN q \cup {NoId}
      BY <1>1, <1>2, <1>4, <1>6
    <2>2. ParentOf(q, copyOf[s]) = q[copyOf[s]].parent_id
      BY <2>1 DEF ParentOf
    <2> QED
      BY <1>6, <2>2
  <1>8. ParentClosed(q, DOMAIN registry)
    BY <1>1, <1>4 DEF ParentClosed, ParentOf
  <1>9. \A e \in DOMAIN registry : /\ ParentOf(q, e) = parent(e)
                                   /\ AncestorsOrSelf(q, e) = AncestorsOrSelf(registry, e)
                                   /\ ~OnCycle(q, e)
    <2>1. \A e \in DOMAIN registry : /\ registry[e].parent_id = q[e].parent_id
                                     /\ q[e].parent_id \in DOMAIN q \cup {NoId}
      BY <1>1, <1>4
    <2>2. DOMAIN registry \subseteq DOMAIN q
      BY <1>4
    <2>3. \A e \in DOMAIN registry : /\ ParentOf(registry, e) = ParentOf(q, e)
                                     /\ AncestorsOrSelf(registry, e) = AncestorsOrSelf(q, e)
                                     /\ OnCycle(registry, e) <=> OnCycle(q, e)
      BY <1>5, <1>8, <2>1, <2>2, PartLinks
    <2> QED
      BY <1>1, <2>3
  \* Above a copy are the copies of what is above its source, and old entities.
  <1>10. ASSUME NEW s \in sources
         PROVE  LET above == {copyOf[t] : t \in AncestorsOrSelf(registry, s) \cap sources}
                IN  ParentClosed(q, DOMAIN registry \cup above)
    <2> DEFINE A == AncestorsOrSelf(registry, s)
               above == {copyOf[t] : t \in A \cap sources}
    <2>1. A \subseteq DOMAIN registry /\ ParentClosed(registry, A)
      BY <1>0, <1>2, AncestorsAre
    <2>2. ASSUME NEW t \in A \cap sources
          PROVE  ParentOf(q, copyOf[t]) \in DOMAIN registry \cup above \cup {NoId}
      <3>1. ParentOf(registry, t) = parent(t) /\ parent(t) \in A \cup {NoId}
        BY <1>1, <1>2, <2>1 DEF ParentClosed
      <3> QED
        BY <1>1, <1>2, <1>7, <3>1
    <2> HIDE DEF A
    <2> QED
      BY <1>8, <2>2 DEF ParentClosed, A
  <1>11. IsForest(q)
    <2>1. ASSUME NEW s \in sources
          PROVE  ~OnCycle(q, copyOf[s])
      <3>1. CASE parent(s) \notin sources
        <4>1. ParentOf(q, copyOf[s]) \in DOMAIN registry \cup {NoId}
          BY <1>1, <1>2, <1>7, <3>1
        <4> QED
          BY <1>4, <1>5, <1>8, <4>1, NoCycleBy
      <3>2. CASE parent(s) \in sources
        <4> DEFINE above == {copyOf[t] : t \in AncestorsOrSelf(registry, parent(s)) \cap sources}
        <4>1. ParentClosed(q, DOMAIN registry \cup above)
          BY <1>10, <3>2
        <4>2. parent(s) \in AncestorsOrSelf(registry, parent(s))
          BY <1>0, <1>2, <3>2, AncestorsAre
        <4>3. ParentOf(q, copyOf[s]) \in above
          BY <1>7, <3>2, <4>2
        <4>4. s \notin AncestorsOrSelf(registry, parent(s))
          BY <1>1, <1>2, <3>2 DEF OnCycle
        <4>5. copyOf[s] \notin DOMAIN registry \cup above
          BY <1>4, <4>4
        <4>6. DOMAIN registry \cup above \subseteq DOMAIN q
          BY <1>4
        <4> HIDE DEF above
        <4>7. copyOf[s] \in DOMAIN q
          BY <1>4
        <4> QED
          BY <1>5, <4>1, <4>3, <4>5, <4>6, <4>7, NoCycleBy
      <3> QED
        BY <3>1, <3>2
    <2>2. \A e \in DOMAIN q : q[e].parent_id \in DOMAIN q \cup {NoId}
      BY <1>1, <1>2, <1>4, <1>6
    <2> QED
      BY <1>4, <1>9, <2>1, <2>2 DEF IsForest
  <1>12. q[copyOf[root]].parent_id = registry[root].parent_id
    BY <1>2, <1>3, <1>6
  <1>13. ASSUME NEW s \in sources, s # root
         PROVE  q[copyOf[s]].parent_id = copyOf[registry[s].parent_id]
    BY <1>2, <1>6, <1>13
  <1>14. ASSUME NEW s \in sources
         PROVE  Subtree(q, copyOf[s]) = {copyOf[t] : t \in Subtree(registry, s)}
    <2>1. Subtree(registry, s) \subseteq sources
      <3>1. ASSUME NEW t \in DOMAIN registry, s \in AncestorsOrSelf(registry, t)
            PROVE  t \in sources
        <4>1. AncestorsOrSelf(registry, s) \subseteq AncestorsOrSelf(registry, t)
          BY <1>0, <3>1, AncestorsTransitive
        <4>2. root \in AncestorsOrSelf(registry, s)
          BY DEF Subtree, sources
        <4> QED
          BY <4>1, <4>2 DEF Subtree, sources
      <3> QED
        BY <3>1 DEF Subtree
    <2>2. ASSUME NEW d \in Subtree(q, copyOf[s])
          PROVE  \E t \in Subtree(registry, s) : d = copyOf[t]
      <3>1. d \in DOMAIN q /\ copyOf[s] \in AncestorsOrSelf(q, d)
        BY DEF Subtree
      <3>2. d \notin DOMAIN registry
        <4>1. d \in DOMAIN registry => AncestorsOrSelf(q, d) \subseteq DOMAIN registry
          BY <1>0, <1>9, AncestorsAre
        <4> QED
          BY <1>4, <3>1, <4>1
      <3>3. PICK t \in sources : d = copyOf[t]
        BY <1>4, <3>1, <3>2
      <3> DEFINE above == {copyOf[u] : u \in AncestorsOrSelf(registry, t) \cap sources}
      <3>4. ParentClosed(q, DOMAIN registry \cup above)
        BY <1>10
      <3>5. t \in AncestorsOrSelf(registry, t)
        BY <1>0, <1>2, AncestorsAre
      <3>6. d \in DOMAIN registry \cup above /\ DOMAIN registry \cup above \subseteq DOMAIN q
        BY <1>4, <3>3, <3>5
      <3>7. copyOf[s] \in DOMAIN registry \cup above
        <4> HIDE DEF above
        <4> QED
          BY <1>5, <3>1, <3>4, <3>6, AncestorsAre
      <3>8. copyOf[s] \in above
        BY <1>4, <3>7
      <3>9. s \in AncestorsOrSelf(registry, t)
        BY <1>4, <3>8
      <3> QED
        BY <1>2, <3>3, <3>9 DEF Subtree
    <2>3. ASSUME NEW t \in Subtree(registry, s)
          PROVE  copyOf[t] \in Subtree(q, copyOf[s])
      <3>1. t \in sources /\ s \in AncestorsOrSelf(registry, t)
        BY <2>1 DEF Subtree
      <3> DEFINE S == AncestorsOrSelf(q, copyOf[t])
                 below == {u \in sources : copyOf[u] \in S}
                 R == below \cup (DOMAIN registry \ sources)
      <3>2. copyOf[t] \in DOMAIN q
        BY <1>4, <3>1
      <3>3. copyOf[t] \in S /\ ParentClosed(q, S)
        BY <1>5, <3>2, AncestorsAre
      <3> HIDE DEF S
      <3>4. ASSUME NEW u \in below
            PROVE  ParentOf(registry, u) \in R \cup {NoId}
        <4>1. u \in sources /\ copyOf[u] \in S /\ ParentOf(registry, u) = parent(u)
          BY <1>1, <1>2
        <4>2. CASE parent(u) \in sources
          <5>1. ParentOf(q, copyOf[u]) = copyOf[parent(u)]
            BY <1>7, <4>1, <4>2
          <5>2. copyOf[parent(u)] \in S
            BY <1>4, <3>3, <4>1, <4>2, <5>1, <1>0, SceneAssumption DEF ParentClosed
          <5> QED
            BY <4>1, <4>2, <5>2
        <4>3. CASE parent(u) \notin sources
          BY <1>1, <1>2, <4>1, <4>3
        <4> QED
          BY <4>2, <4>3
      <3>5. ParentClosed(registry, R)
        BY <1>2, <3>4 DEF ParentClosed
      <3>6. t \in R /\ R \subseteq DOMAIN registry
        BY <1>2, <3>1, <3>3
      <3>7. s \in R
        <4> HIDE DEF R
        <4> QED
          BY <1>0, <3>1, <3>5, <3>6, AncestorsAre
      <3>8. copyOf[s] \in S
        BY <3>7
      <3> QED
        BY <3>2, <3>8 DEF Subtree, S
    <2> QED
      BY <2>2, <2>3
  <1> QED
    BY <1>5, <1>11, <1>12, <1>13, <1>14 DEF sources

-----------------------------------------------------------------------------
(* The recursive functions exist: down a forest, and along a sequence. *)

LEMMA HeightBound ==
  ASSUME NEW r, DOMAIN r \subseteq Ids
  PROVE  \E n \in Nat : \A e \in DOMAIN r : Height(r, e) \in Nat /\ Height(r, e) < n
  <1>1. IsFiniteSet(DOMAIN r)
    BY SceneAssumption, FS_Subset
  <1>2. Cardinality(DOMAIN r) \in Nat
    BY <1>1, FS_CardinalityType
  <1>3. ASSUME NEW e \in DOMAIN r
        PROVE  Height(r, e) \in Nat /\ Height(r, e) <= Cardinality(DOMAIN r)
    BY <1>1, AncestorsAre, FS_Subset, HeightFalls DEF Height
  <1>4. Cardinality(DOMAIN r) + 1 \in Nat
        /\ \A e \in DOMAIN r : Height(r, e) \in Nat /\ Height(r, e) < Cardinality(DOMAIN r) + 1
    BY <1>2, <1>3
  <1> QED
    BY <1>4

\* What f makes of the parent of an entity, or `base' at a root.
Above(r, f, e, base) == IF ParentOf(r, e) = NoId THEN base ELSE f[ParentOf(r, e)]

\* G gives the value in D of an entity of V from that of its parent.
IsStep(G, V, base, D) == G \in [V \X (D \cup {base}) -> D]

Solution(f, r, V, base, D, G) ==
  f \in [V -> D] /\ \A e \in V : f[e] = G[<<e, Above(r, f, e, base)>>]

LEMMA ForestRecursion ==
  ASSUME NEW r, NEW V, NEW base, NEW D, NEW G, IsStep(G, V, base, D),
         DOMAIN r \subseteq Ids, V \subseteq DOMAIN r, ParentClosed(r, V),
         \A e \in V : ~OnCycle(r, e)
  PROVE  \E f : Solution(f, r, V, base, D, G)
  <1> DEFINE Low(n) == {e \in V : Height(r, e) < n}
             Solves(f, W) == f \in [W -> D] /\ \A e \in W : f[e] = G[<<e, Above(r, f, e, base)>>]
             bad == {n \in Nat : \A f : ~Solves(f, Low(n))}
  <1>0. G \in [V \X (D \cup {base}) -> D]
    BY DEF IsStep
  <1>1. \A e \in V : Height(r, e) \in Nat
    BY HeightFalls
  <1>2. bad = {}
    <2> SUFFICES ASSUME bad # {}
                 PROVE  FALSE
      OBVIOUS
    <2>1. PICK n \in bad : \A m \in bad : n <= m
      BY LeastOf
    <2>2. CASE n = 0
      <3>1. Low(n) = {}
        BY <1>1, <2>2
      <3>2. Solves([e \in {} |-> base], {})
        OBVIOUS
      <3> QED
        BY <2>1, <3>1, <3>2
    <2>3. CASE n # 0
      <3>1. n - 1 \in Nat /\ n - 1 \notin bad
        BY <2>1, <2>3
      <3>2. PICK f : Solves(f, Low(n - 1))
        BY <3>1
      <3> DEFINE g == [e \in Low(n) |-> G[<<e, Above(r, f, e, base)>>]]
      <3>3. ASSUME NEW e \in Low(n), ParentOf(r, e) # NoId
            PROVE  ParentOf(r, e) \in Low(n - 1) /\ ParentOf(r, e) \in Low(n)
        <4>1. ParentOf(r, e) \in V
          BY <3>3 DEF ParentClosed
        <4>2. Height(r, ParentOf(r, e)) < Height(r, e)
          BY <3>3, HeightFalls
        <4>3. n \in Nat
          OBVIOUS
        <4> HIDE DEF bad
        <4> QED
          BY <1>1, <2>3, <4>1, <4>2, <4>3
      <3>4. ASSUME NEW e \in Low(n)
            PROVE  Above(r, f, e, base) \in D \cup {base}
        BY <3>2, <3>3 DEF Above
      <3>5. g \in [Low(n) -> D]
        BY <1>0, <3>4
      <3>6. ASSUME NEW e \in Low(n - 1)
            PROVE  e \in Low(n) /\ g[e] = f[e]
        <4>1. e \in Low(n)
          BY <1>1, <2>1
        <4> QED
          BY <3>2, <4>1
      <3>7. ASSUME NEW e \in Low(n)
            PROVE  Above(r, g, e, base) = Above(r, f, e, base)
        BY <3>3, <3>6 DEF Above
      <3>8. Solves(g, Low(n))
        BY <3>5, <3>7
      <3> QED
        BY <2>1, <3>8
    <2> QED
      BY <2>2, <2>3
  <1>3. PICK n \in Nat : \A e \in DOMAIN r : Height(r, e) \in Nat /\ Height(r, e) < n
    BY HeightBound
  <1>4. Low(n) = V
    BY <1>3
  <1>5. PICK f : Solves(f, Low(n))
    BY <1>2
  <1> QED
    BY <1>4, <1>5 DEF Solution

\* G gives the n-th value in D from the one before it.
IsFold(G, N, D) == G \in [(1 .. N) \X D -> D]

Run(f, N, D, base, G) ==
  f \in [0 .. N -> D] /\ f[0] = base /\ \A n \in 1 .. N : f[n] = G[<<n, f[n - 1]>>]

LEMMA SequenceRecursion ==
  ASSUME NEW N \in Nat, NEW D, NEW base \in D, NEW G, IsFold(G, N, D)
  PROVE  \E f : Run(f, N, D, base, G)
  <1> DEFINE Solves(f, m) == /\ f \in [0 .. m -> D]
                             /\ f[0] = base
                             /\ \A n \in 1 .. m : f[n] = G[<<n, f[n - 1]>>]
             bad == {m \in 0 .. N : \A f : ~Solves(f, m)}
  <1>0. G \in [(1 .. N) \X D -> D]
    BY DEF IsFold
  <1>1. bad = {}
    <2> SUFFICES ASSUME bad # {}
                 PROVE  FALSE
      OBVIOUS
    <2>1. PICK m \in bad : \A k \in bad : m <= k
      <3>1. bad \in SUBSET Nat
        OBVIOUS
      <3> HIDE DEF bad
      <3> QED
        BY <3>1, LeastOf
    <2>4. m \in 0 .. N /\ \A f : ~Solves(f, m)
      OBVIOUS
    <2>2. CASE m = 0
      <3>1. Solves([n \in 0 .. 0 |-> base], 0)
        OBVIOUS
      <3> QED
        BY <2>1, <2>2, <3>1
    <2>3. CASE m # 0
      <3>1. m - 1 \in 0 .. N /\ m - 1 \notin bad
        <4> HIDE DEF bad
        <4> QED
          BY <2>1, <2>3, <2>4
      <3>2. PICK f : Solves(f, m - 1)
        <4> HIDE DEF Solves
        <4> QED
          BY <3>1
      <3> DEFINE g == [n \in 0 .. m |-> IF n = m THEN G[<<m, f[m - 1]>>] ELSE f[n]]
      <3>3. m \in 1 .. N /\ f[m - 1] \in D
        BY <2>1, <2>3, <3>2
      <3>4. G[<<m, f[m - 1]>>] \in D
        BY <1>0, <3>3
      <3>5. g \in [0 .. m -> D] /\ g[0] = base
        BY <3>2, <3>3, <3>4
      <3>6. ASSUME NEW n \in 1 .. m
            PROVE  g[n] = G[<<n, g[n - 1]>>]
        <4>1. n - 1 \in 0 .. m /\ n - 1 # m /\ n \in 0 .. m
          BY <3>3
        <4>2. g[n - 1] = f[n - 1]
          BY <4>1
        <4>3. CASE n = m
          BY <4>1, <4>2, <4>3
        <4>4. CASE n # m
          <5>1. n \in 1 .. m - 1
            BY <3>3, <4>4
          <5> QED
            BY <3>2, <4>1, <4>2, <4>4, <5>1
        <4> QED
          BY <4>3, <4>4
      <3>7. Solves(g, m)
        BY <3>5, <3>6
      <3> HIDE DEF Solves, g
      <3> QED
        BY <2>4, <3>7
    <2> QED
      BY <2>2, <2>3
  <1>2. PICK f : Solves(f, N)
    <2> HIDE DEF Solves
    <2> QED
      BY <1>1
  <1> QED
    BY <1>2 DEF Run

Factors == UNION {Range(local) : local \in Locals}

Typed(r) == DOMAIN r \subseteq Ids /\ r \in [DOMAIN r -> Entity]

LEMMA EmptyIsSeq ==
  \A S : <<>> \in Seq(S)
  OBVIOUS

LEMMA Factored ==
  ASSUME NEW world \in Seq(Factors), NEW local \in Locals
  PROVE  world \o local \in Seq(Factors)
  <1>1. Range(local) \subseteq Factors
    BY DEF Factors
  <1>2. local \in Seq(Range(local))
    BY SceneAssumption
  <1>3. local \in Seq(Factors)
    BY <1>1, <1>2
  <1> QED
    BY <1>3

LEMMA TrueWorldIs ==
  ASSUME NEW r, Typed(r), \A e \in DOMAIN r : ~OnCycle(r, e)
  PROVE  \A e \in DOMAIN r :
           TrueWorld(r)[e] = Above(r, TrueWorld(r), e, <<>>) \o r[e].local
  <1> DEFINE G == [x \in (DOMAIN r) \X (Seq(Factors) \cup {<<>>}) |-> x[2] \o r[x[1]].local]
             Means(f) == f = [e \in DOMAIN r |->
                               (IF ParentOf(r, e) = NoId THEN <<>> ELSE f[ParentOf(r, e)]) \o r[e].local]
  <1>1. \A e \in DOMAIN r : r[e].local \in Locals
    BY DEF Typed, Entity
  <1>2. G \in [(DOMAIN r) \X (Seq(Factors) \cup {<<>>}) -> Seq(Factors)]
    <2>1. ASSUME NEW x \in (DOMAIN r) \X (Seq(Factors) \cup {<<>>})
          PROVE  x[2] \o r[x[1]].local \in Seq(Factors)
      <3>1. (x[2] \in Seq(Factors) \/ x[2] = <<>>) /\ x[1] \in DOMAIN r
        OBVIOUS
      <3> QED
        BY <1>1, <3>1, EmptyIsSeq, Factored
    <2> QED
      BY <2>1
  <1>3. ParentClosed(r, DOMAIN r) /\ DOMAIN r \subseteq Ids
    BY DEF ParentClosed, ParentOf, Typed
  <1> HIDE DEF G
  <1>4. PICK f \in [DOMAIN r -> Seq(Factors)] :
          \A e \in DOMAIN r : f[e] = G[<<e, Above(r, f, e, <<>>)>>]
    <2>1. IsStep(G, DOMAIN r, <<>>, Seq(Factors))
      BY <1>2 DEF IsStep
    <2>2. \E f : Solution(f, r, DOMAIN r, <<>>, Seq(Factors), G)
      BY <1>3, <2>1, ForestRecursion
    <2> QED
      BY <2>2 DEF Solution
  <1>5. Means(f)
    <2>1. ASSUME NEW e \in DOMAIN r
          PROVE  f[e] = (IF ParentOf(r, e) = NoId THEN <<>> ELSE f[ParentOf(r, e)]) \o r[e].local
      <3>1. Above(r, f, e, <<>>) \in Seq(Factors)
        BY <1>3, NoIdAbsent DEF Above
      <3>2. G[<<e, Above(r, f, e, <<>>)>>] = Above(r, f, e, <<>>) \o r[e].local
        BY <3>1 DEF G
      <3> QED
        BY <1>4, <3>2 DEF Above
    <2> QED
      BY <2>1
  <1>6. TrueWorld(r) = CHOOSE world : Means(world)
    BY DEF TrueWorld
  <1>7. Means(TrueWorld(r))
    <2> HIDE DEF Means
    <2> QED
      BY <1>5, <1>6
  <1> QED
    BY <1>7 DEF Above

\* A function that adds up the local transforms as TrueWorld does is TrueWorld.
LEMMA TrueWorldUnique ==
  ASSUME NEW r, Typed(r), \A e \in DOMAIN r : ~OnCycle(r, e),
         NEW world, \A e \in DOMAIN r : world[e] = Above(r, world, e, <<>>) \o r[e].local
  PROVE  \A e \in DOMAIN r : TrueWorld(r)[e] = world[e]
  <1> DEFINE same == {e \in DOMAIN r : TrueWorld(r)[e] = world[e]}
  <1>1. DOMAIN r \subseteq Ids
    BY DEF Typed
  <1>2. ASSUME NEW e \in DOMAIN r, ParentOf(r, e) \in DOMAIN r => ParentOf(r, e) \in same
        PROVE  e \in same
    <2>1. Above(r, TrueWorld(r), e, <<>>) = Above(r, world, e, <<>>)
      BY <1>1, <1>2, NoIdAbsent DEF Above
    <2> QED
      BY <2>1, TrueWorldIs
  <1> HIDE DEF same
  <1>3. DOMAIN r \subseteq same
    BY <1>1, <1>2, ForestInduction
  <1> QED
    BY <1>3 DEF same

-----------------------------------------------------------------------------
(* The visit. *)

\* Of what a visit makes of an entity, and what it starts from at a root.
Result == [changed : BOOLEAN, cache : Cache]

NoParent == [changed |-> FALSE, cache |-> [world |-> <<>>]]

VisitFrom(r, e, above) ==
  IF NeedsRefresh(r[e], ParentOf(r, e), above.changed)
  THEN [changed |-> TRUE, cache |-> Refreshed(r[e], ParentOf(r, e), above)]
  ELSE [changed |-> FALSE, cache |-> r[e].cache]

LEMMA VisitingIs ==
  ASSUME NEW r, NEW e, NEW visit
  PROVE  Visiting(r, e, visit) = VisitFrom(r, e, Above(r, visit, e, NoParent))
  BY DEF Visiting, VisitFrom, Above, NoParent

LEMMA CacheFields ==
  /\ \A c \in Cache : c.dirty \in BOOLEAN /\ c.local \in Locals /\ c.parent_id \in Ids \cup {NoId}
                      /\ c.world \in Seq(Factors)
  /\ \A dirty \in BOOLEAN, local \in Locals, parent_id \in Ids \cup {NoId}, world \in Seq(Factors) :
       [dirty |-> dirty, local |-> local, parent_id |-> parent_id, world |-> world] \in Cache
  BY DEF Cache, Factors

LEMMA TypedFields ==
  ASSUME NEW r, Typed(r), NEW e \in DOMAIN r
  PROVE  /\ r[e] \in Entity /\ r[e].local \in Locals /\ r[e].cache \in Cache
         /\ ParentOf(r, e) \in Ids \cup {NoId}
  <1>1. r[e] \in Entity
    BY DEF Typed
  <1>2. r[e].local \in Locals /\ r[e].cache \in Cache
    BY <1>1 DEF Entity
  <1> QED
    BY <1>1, <1>2 DEF ParentOf, Typed

LEMMA VisitFromTyped ==
  ASSUME NEW r, Typed(r), NEW e \in DOMAIN r, NEW above \in Result \cup {NoParent}
  PROVE  VisitFrom(r, e, above) \in Result
  <1>1. r[e].local \in Locals /\ r[e].cache \in Cache /\ ParentOf(r, e) \in Ids \cup {NoId}
    BY TypedFields
  <1>2. above.cache.world \in Seq(Factors)
    <2>1. CASE above \in Result
      <3>1. above.cache \in Cache
        BY <2>1 DEF Result
      <3> QED
        BY <3>1, CacheFields
    <2>2. CASE above = NoParent
      BY <2>2, EmptyIsSeq DEF NoParent
    <2> QED
      BY <2>1, <2>2
  <1>3. above.cache.world \o r[e].local \in Seq(Factors)
    BY <1>1, <1>2, Factored
  <1>4. Refreshed(r[e], ParentOf(r, e), above) \in Cache
    BY <1>1, <1>3, CacheFields DEF Refreshed
  <1> HIDE DEF NoParent
  <1> QED
    BY <1>1, <1>4 DEF VisitFrom, Result

\* A set of entities whose visit is defined.
Visitable(r, V) == V \subseteq DOMAIN r /\ ParentClosed(r, V) /\ \A e \in V : ~OnCycle(r, e)

LEMMA VisitsAre ==
  ASSUME NEW r, NEW V, Typed(r), Visitable(r, V)
  PROVE  \A e \in V : /\ Visits(r, V)[e] \in Result
                      /\ Visits(r, V)[e] = VisitFrom(r, e, Above(r, Visits(r, V), e, NoParent))
  <1> DEFINE G == [x \in V \X (Result \cup {NoParent}) |-> VisitFrom(r, x[1], x[2])]
             Means(visit) == visit = [e \in V |-> Visiting(r, e, visit)]
  <1>1. IsStep(G, V, NoParent, Result)
    <2>1. \A x \in V \X (Result \cup {NoParent}) : VisitFrom(r, x[1], x[2]) \in Result
      BY VisitFromTyped DEF Visitable
    <2> QED
      BY <2>1 DEF IsStep
  <1> HIDE DEF G
  <1>2. PICK f : Solution(f, r, V, NoParent, Result, G)
    BY <1>1, ForestRecursion DEF Typed, Visitable
  <1>3. ASSUME NEW e \in V
        PROVE  f[e] = Visiting(r, e, f)
    <2>1. Above(r, f, e, NoParent) \in Result \cup {NoParent}
      BY <1>2 DEF Above, Solution, Visitable, ParentClosed
    <2>2. G[<<e, Above(r, f, e, NoParent)>>] = VisitFrom(r, e, Above(r, f, e, NoParent))
      BY <2>1 DEF G
    <2> QED
      BY <1>2, <2>2, VisitingIs DEF Solution
  <1>4. f = [e \in V |-> f[e]]
    BY <1>2 DEF Solution
  <1>5. Means(f)
    BY <1>3, <1>4
  <1>6. Visits(r, V) = CHOOSE visit : Means(visit)
    BY DEF Visits
  <1>7. Means(Visits(r, V))
    <2> HIDE DEF Means
    <2> QED
      BY <1>5, <1>6
  <1>8. \A e \in V : Visits(r, V)[e] = VisitFrom(r, e, Above(r, Visits(r, V), e, NoParent))
    BY <1>7, VisitingIs
  \* The result is one, down the forest.
  <1> DEFINE typed == {e \in V : Visits(r, V)[e] \in Result}
  <1>9. ASSUME NEW e \in V, ParentOf(r, e) \in V => ParentOf(r, e) \in typed
        PROVE  e \in typed
    <2>1. Above(r, Visits(r, V), e, NoParent) \in Result \cup {NoParent}
      BY <1>9 DEF Above, Visitable, ParentClosed
    <2> QED
      BY <1>8, <2>1, VisitFromTyped DEF Visitable
  <1> HIDE DEF typed
  <1>10. V \subseteq typed
    BY <1>9, ForestInduction DEF Typed, Visitable
  <1> QED
    BY <1>8, <1>10 DEF typed

RefreshedIn(r, V) == {e \in V : Visits(r, V)[e].changed}

WorldAbove(r, e) == IF ParentOf(r, e) = NoId THEN <<>> ELSE r[ParentOf(r, e)].cache.world

\* A visit changes the caches, those of the refreshed entities only.
LEMMA VisitKeeps ==
  ASSUME NEW r, NEW V, Typed(r), Visitable(r, V)
  PROVE  /\ Typed(Visit(r, V)) /\ SameLinks(Visit(r, V), r)
         /\ \A e \in DOMAIN r : /\ Visit(r, V)[e].local = r[e].local
                                /\ e \in V => Visit(r, V)[e].cache = Visits(r, V)[e].cache
                                /\ e \notin RefreshedIn(r, V) => Visit(r, V)[e].cache = r[e].cache
  <1> DEFINE q == Visit(r, V)
             visit == Visits(r, V)
  <1>1. DOMAIN q = DOMAIN r /\ \A e \in DOMAIN r :
          q[e] = IF e \in V THEN [r[e] EXCEPT !.cache = visit[e].cache] ELSE r[e]
    BY DEF Visit
  <1>2. q = [e \in DOMAIN r |-> q[e]]
    BY DEF Visit
  <1> HIDE DEF q
  <1>3. \A e \in V : visit[e] \in Result /\ visit[e] = VisitFrom(r, e, Above(r, visit, e, NoParent))
    BY VisitsAre
  <1>4. \A e \in V : visit[e].cache \in Cache
    BY <1>3 DEF Result
  <1>5. ASSUME NEW e \in V, e \notin RefreshedIn(r, V)
        PROVE  visit[e].cache = r[e].cache
    <2>1. ~visit[e].changed
      BY <1>5 DEF RefreshedIn
    <2> DEFINE above == Above(r, visit, e, NoParent)
    <2>2. visit[e] = VisitFrom(r, e, above)
      BY <1>3, <1>5
    <2> HIDE DEF visit, above
    <2> QED
      BY <2>1, <2>2 DEF VisitFrom
  <1> HIDE DEF visit
  <1>6. ASSUME NEW e \in DOMAIN r
        PROVE  /\ q[e] \in Entity
               /\ q[e].parent_id = r[e].parent_id
               /\ q[e].local = r[e].local
               /\ e \in V => q[e].cache = visit[e].cache
               /\ e \notin V => q[e].cache = r[e].cache
    <2>1. r[e] \in Entity
      BY <1>6, TypedFields
    <2> QED
      BY <1>1, <1>4, <1>6, <2>1 DEF Entity
  <1>7. Typed(q)
    BY <1>1, <1>2, <1>6 DEF Typed
  <1> QED
    BY <1>1, <1>5, <1>6, <1>7 DEF q, visit, SameLinks

LEMMA VisitRefreshes ==
  ASSUME NEW r, NEW V, Typed(r), Visitable(r, V), NEW e \in RefreshedIn(r, V)
  PROVE  Visit(r, V)[e].cache
           = [dirty |-> FALSE, local |-> r[e].local, parent_id |-> ParentOf(r, e),
              world |-> WorldAbove(Visit(r, V), e) \o r[e].local]
  <1> DEFINE q == Visit(r, V)
             visit == Visits(r, V)
             p == ParentOf(r, e)
             above == Above(r, visit, e, NoParent)
  <1>1. e \in V /\ visit[e].changed
    BY DEF RefreshedIn
  <1>2. visit[e] = VisitFrom(r, e, above)
    BY <1>1, VisitsAre
  <1>3. e \in DOMAIN r /\ q[e].cache = visit[e].cache
    BY <1>1, VisitKeeps DEF Visitable
  <1>4. visit[e].cache = Refreshed(r[e], p, above)
    <2> HIDE DEF visit, above
    <2> QED
      BY <1>1, <1>2 DEF VisitFrom
  <1>5. above.cache.world = WorldAbove(q, e)
    <2>1. ParentOf(q, e) = p
      BY <1>3, VisitKeeps, SameLinksSame
    <2>2. CASE p = NoId
      BY <2>1, <2>2 DEF Above, NoParent, WorldAbove
    <2>3. CASE p # NoId
      <3>1. p \in V
        BY <1>1, <2>3 DEF Visitable, ParentClosed
      <3>2. q[p].cache = visit[p].cache
        BY <3>1, VisitKeeps DEF Visitable
      <3>3. above = visit[p]
        BY <2>3 DEF Above
      <3> QED
        BY <2>1, <2>3, <3>2, <3>3 DEF WorldAbove
    <2> QED
      BY <2>2, <2>3
  <1> HIDE DEF q, visit, above
  <1>6. q[e].cache = [dirty |-> FALSE, local |-> r[e].local, parent_id |-> p,
                      world |-> WorldAbove(q, e) \o r[e].local]
    BY <1>3, <1>4, <1>5 DEF Refreshed
  <1> QED
    BY <1>6 DEF q

\* What was visited and not refreshed was up to date with its parent's cache.
LEMMA VisitSkips ==
  ASSUME NEW r, NEW V, Typed(r), Visitable(r, V), NEW e \in V, e \notin RefreshedIn(r, V)
  PROVE  /\ ~r[e].cache.dirty
         /\ r[e].cache.local = r[e].local
         /\ r[e].cache.parent_id = ParentOf(r, e)
         /\ ParentOf(r, e) \notin RefreshedIn(r, V)
  <1> DEFINE visit == Visits(r, V)
             above == Above(r, visit, e, NoParent)
  <1>1. ~visit[e].changed
    BY DEF RefreshedIn
  <1>2. visit[e] = VisitFrom(r, e, above)
    BY VisitsAre
  <1>3. ~NeedsRefresh(r[e], ParentOf(r, e), above.changed)
    <2> HIDE DEF visit, above
    <2> QED
      BY <1>1, <1>2 DEF VisitFrom
  <1>4. /\ ~r[e].cache.dirty /\ r[e].cache.local = r[e].local
        /\ r[e].cache.parent_id = ParentOf(r, e) /\ ~above.changed
    <2> HIDE DEF above
    <2> QED
      BY <1>3, Zenon DEF NeedsRefresh
  <1>5. ParentOf(r, e) \notin RefreshedIn(r, V)
    <2>1. SUFFICES ASSUME ParentOf(r, e) \in RefreshedIn(r, V)
                   PROVE  FALSE
      OBVIOUS
    <2>2. ParentOf(r, e) \in DOMAIN r /\ visit[ParentOf(r, e)].changed
      BY <2>1 DEF RefreshedIn, Visitable
    <2>3. ParentOf(r, e) # NoId
      BY <2>2, SceneAssumption DEF Typed
    <2>4. above = visit[ParentOf(r, e)]
      BY <2>3 DEF Above
    <2> HIDE DEF above, visit
    <2> QED
      BY <1>4, <2>2, <2>4
  <1> QED
    BY <1>4, <1>5

LEMMA VisitCleans ==
  ASSUME NEW r, NEW V, Typed(r), Visitable(r, V), NEW e \in V
  PROVE  LET cache == Visit(r, V)[e].cache
         IN  ~cache.dirty /\ cache.local = r[e].local /\ cache.parent_id = ParentOf(r, e)
  <1> DEFINE cache == Visit(r, V)[e].cache
  <1>1. CASE e \in RefreshedIn(r, V)
    <2>1. cache = [dirty |-> FALSE, local |-> r[e].local, parent_id |-> ParentOf(r, e),
                   world |-> WorldAbove(Visit(r, V), e) \o r[e].local]
      BY <1>1, VisitRefreshes
    <2> HIDE DEF cache
    <2>2. ~cache.dirty /\ cache.local = r[e].local /\ cache.parent_id = ParentOf(r, e)
      BY <2>1
    <2> QED
      BY <2>2 DEF cache
  <1>2. CASE e \notin RefreshedIn(r, V)
    <2>1. cache = r[e].cache
      BY <1>2, VisitKeeps DEF Visitable
    <2> QED
      BY <1>2, <2>1, VisitSkips
  <1> QED
    BY <1>1, <1>2

\* What CacheInv says of an entity.
Follows(r, e) ==
  ~r[e].cache.dirty /\ r[e].cache.parent_id = ParentOf(r, e) =>
    r[e].cache.world = WorldAbove(r, e) \o r[e].cache.local

LEMMA CacheInvIs ==
  CacheInv <=> \A e \in DOMAIN registry \ stranded : Follows(registry, e)
  BY DEF CacheInv, Follows, WorldAbove

LEMMA StrandedByIs ==
  ASSUME NEW r, NEW V
  PROVE  StrandedBy(r, V) = (stranded \ RefreshedIn(r, V))
                              \cup {e \in DOMAIN r \ V : ParentOf(r, e) \in RefreshedIn(r, V)}
  BY DEF StrandedBy, RefreshedIn

LEMMA VisitFollows ==
  ASSUME NEW r, NEW V, Typed(r), Visitable(r, V),
         \A e \in DOMAIN r \ stranded : Follows(r, e)
  PROVE  \A e \in DOMAIN r \ StrandedBy(r, V) : Follows(Visit(r, V), e)
  <1> DEFINE q == Visit(r, V)
             R == RefreshedIn(r, V)
  <1>1. SUFFICES ASSUME NEW e \in DOMAIN r, e \notin StrandedBy(r, V)
                 PROVE  Follows(q, e)
    OBVIOUS
  <1>2. ParentOf(q, e) = ParentOf(r, e)
    BY VisitKeeps, SameLinksSame
  <1>3. CASE e \in R
    <2>1. q[e].cache = [dirty |-> FALSE, local |-> r[e].local, parent_id |-> ParentOf(r, e),
                        world |-> WorldAbove(q, e) \o r[e].local]
      BY <1>3, VisitRefreshes
    <2> DEFINE cache == q[e].cache
    <2> HIDE DEF cache
    <2>2. cache.world = WorldAbove(q, e) \o cache.local
      BY <2>1 DEF cache
    <2> QED
      BY <2>2 DEF Follows, cache
  <1>4. CASE e \notin R
    <2>1. q[e].cache = r[e].cache
      BY <1>4, VisitKeeps
    <2>2. ParentOf(r, e) \notin R
      <3>1. CASE e \in V
        BY <1>4, <3>1, VisitSkips
      <3>2. CASE e \notin V
        BY <1>1, <3>2, StrandedByIs
      <3> QED
        BY <3>1, <3>2
    <2>3. WorldAbove(q, e) = WorldAbove(r, e)
      <3>1. CASE ParentOf(r, e) = NoId
        BY <1>2, <3>1 DEF WorldAbove
      <3>2. CASE ParentOf(r, e) # NoId
        <4>1. ParentOf(r, e) \in DOMAIN r
          BY <3>2, NoIdAbsent DEF Typed
        <4>2. q[ParentOf(r, e)].cache = r[ParentOf(r, e)].cache
          BY <2>2, <4>1, VisitKeeps
        <4> QED
          BY <1>2, <3>2, <4>2 DEF WorldAbove
      <3> QED
        BY <3>1, <3>2
    <2>4. Follows(r, e)
      BY <1>1, <1>4, StrandedByIs
    <2> HIDE DEF q
    <2> QED
      BY <1>2, <2>1, <2>3, <2>4 DEF Follows
  <1> QED
    BY <1>3, <1>4

\* Entities that follow their parents all the way up are current.
LEMMA FollowingIsCurrent ==
  ASSUME NEW r, Typed(r), \A e \in DOMAIN r : ~OnCycle(r, e),
         NEW S, \A e \in DOMAIN r \ S : Follows(r, e),
         \A e \in DOMAIN r : /\ ~r[e].cache.dirty /\ r[e].cache.local = r[e].local
                             /\ r[e].cache.parent_id = ParentOf(r, e)
  PROVE  \A e \in DOMAIN r : AncestorsOrSelf(r, e) \cap S = {} => r[e].cache.world = TrueWorld(r)[e]
  <1> DEFINE V == {e \in DOMAIN r : AncestorsOrSelf(r, e) \cap S = {}}
             current == {e \in DOMAIN r : r[e].cache.world = TrueWorld(r)[e]}
  <1>0. DOMAIN r \subseteq Ids
    BY DEF Typed
  <1>1. ASSUME NEW e \in V, ParentOf(r, e) # NoId
        PROVE  ParentOf(r, e) \in V
    BY <1>0, <1>1, AncestorsStep
  <1>2. ASSUME NEW e \in V, ParentOf(r, e) \in V => ParentOf(r, e) \in current
        PROVE  e \in current
    <2>1. e \in DOMAIN r \ S
      BY <1>0, AncestorsAre
    <2>2. r[e].cache.world = WorldAbove(r, e) \o r[e].local
      BY <2>1 DEF Follows
    <2>3. WorldAbove(r, e) = Above(r, TrueWorld(r), e, <<>>)
      BY <1>1, <1>2 DEF WorldAbove, Above
    <2> QED
      BY <2>1, <2>2, <2>3, TrueWorldIs
  <1>3. V \subseteq DOMAIN r
    OBVIOUS
  <1> HIDE DEF V, current
  <1>4. V \subseteq current
    BY <1>0, <1>2, <1>3, ForestInduction
  <1> QED
    BY <1>4 DEF V, current

\* A visit does not spoil a registry whose clean caches hold the given worlds.
Holds(r, world) == \A e \in DOMAIN r : ~r[e].cache.dirty => r[e].cache.world = world[e]

LEMMA VisitHolds ==
  ASSUME NEW r, NEW V, Typed(r), Visitable(r, V), NEW world, Holds(r, world),
         \A e \in DOMAIN r : world[e] = Above(r, world, e, <<>>) \o r[e].local
  PROVE  Holds(Visit(r, V), world)
  <1> DEFINE q == Visit(r, V)
             right == {e \in V : q[e].cache.world = world[e]}
  <1>1. ASSUME NEW e \in V, ParentOf(r, e) \in V => ParentOf(r, e) \in right
        PROVE  e \in right
    <2>1. e \in DOMAIN r /\ ParentOf(q, e) = ParentOf(r, e)
      BY VisitKeeps, SameLinksSame DEF Visitable
    <2>2. CASE e \in RefreshedIn(r, V)
      <3>1. q[e].cache.world = WorldAbove(q, e) \o r[e].local
        <4>1. q[e].cache = [dirty |-> FALSE, local |-> r[e].local, parent_id |-> ParentOf(r, e),
                            world |-> WorldAbove(q, e) \o r[e].local]
          BY <2>2, VisitRefreshes
        <4> HIDE DEF q
        <4> QED
          BY <4>1
      <3>2. WorldAbove(q, e) = Above(r, world, e, <<>>)
        BY <1>1, <2>1 DEF WorldAbove, Above, Visitable, ParentClosed
      <3> QED
        BY <2>1, <3>1, <3>2
    <2>3. CASE e \notin RefreshedIn(r, V)
      <3>1. ~r[e].cache.dirty /\ q[e].cache = r[e].cache
        BY <2>1, <2>3, VisitSkips, VisitKeeps
      <3> QED
        BY <2>1, <3>1 DEF Holds
    <2> QED
      BY <2>2, <2>3
  <1> HIDE DEF right
  <1>2. V \subseteq right
    BY <1>1, ForestInduction DEF Typed, Visitable
  <1>3. DOMAIN q = DOMAIN r
    BY VisitKeeps DEF SameLinks
  <1>4. ASSUME NEW e \in DOMAIN r, ~q[e].cache.dirty
        PROVE  q[e].cache.world = world[e]
    <2>1. CASE e \in V
      BY <1>2, <2>1 DEF right
    <2>2. CASE e \notin V
      <3>1. q[e].cache = r[e].cache
        BY <2>2, VisitKeeps DEF RefreshedIn
      <3> QED
        BY <1>4, <3>1 DEF Holds
    <2> QED
      BY <2>1, <2>2
  <1> QED
    BY <1>3, <1>4 DEF Holds

-----------------------------------------------------------------------------
(* The steps. *)

LEMMA VisitedVisitable ==
  ASSUME NEW r, DOMAIN r \subseteq Ids, NEW e \in DOMAIN r
  PROVE  Visitable(r, Visited(r, e))
  <1>1. AncestorsOrSelf(r, e) \subseteq DOMAIN r /\ ParentClosed(r, AncestorsOrSelf(r, e))
    BY AncestorsAre
  <1>2. CASE \E b \in AncestorsOrSelf(r, e) : OnCycle(r, b)
    <2>1. Visited(r, e) = {}
      BY <1>2 DEF Visited
    <2> QED
      BY <2>1 DEF Visitable, ParentClosed
  <1>3. CASE \A b \in AncestorsOrSelf(r, e) : ~OnCycle(r, b)
    <2>1. Visited(r, e) = AncestorsOrSelf(r, e)
      BY <1>3 DEF Visited
    <2> QED
      BY <1>1, <1>3, <2>1 DEF Visitable
  <1> QED
    BY <1>2, <1>3

LEMMA LinkedIs ==
  ASSUME NEW r, Typed(r), NEW c \in DOMAIN r, NEW p \in Ids \cup {NoId}
  PROVE  /\ Typed(Linked(r, c, p)) /\ DOMAIN Linked(r, c, p) = DOMAIN r
         /\ Linked(r, c, p)[c].parent_id = p
         /\ Linked(r, c, p)[c].cache.dirty
         /\ \A e \in DOMAIN r : /\ Linked(r, c, p)[e].local = r[e].local
                                /\ Linked(r, c, p)[e].cache.world = r[e].cache.world
         /\ \A e \in DOMAIN r \ {c} : Linked(r, c, p)[e] = r[e]
  <1> DEFINE q == Linked(r, c, p)
             linked == [[r[c] EXCEPT !.parent_id = p] EXCEPT !.cache = [r[c].cache EXCEPT !.dirty = TRUE]]
  <1>1. r[c] \in Entity /\ r[c].cache \in Cache
    BY TypedFields
  <1>2. q = [r EXCEPT ![c] = linked]
    BY <1>1 DEF Linked, Typed, Entity
  <1>3. /\ [r[c].cache EXCEPT !.dirty = TRUE] \in Cache
        /\ [r[c].cache EXCEPT !.dirty = TRUE].dirty = TRUE
        /\ [r[c].cache EXCEPT !.dirty = TRUE].world = r[c].cache.world
    BY <1>1 DEF Cache
  <1>4. /\ linked \in Entity /\ linked.parent_id = p /\ linked.local = r[c].local
        /\ linked.cache = [r[c].cache EXCEPT !.dirty = TRUE]
    BY <1>1, <1>3 DEF Entity
  <1> HIDE DEF linked, q
  <1>5. DOMAIN q = DOMAIN r /\ q[c] = linked /\ \A e \in DOMAIN r \ {c} : q[e] = r[e]
    BY <1>2 DEF Typed
  <1>6. Typed(q)
    BY <1>2, <1>4 DEF Typed
  <1>7. q[c].cache.dirty /\ q[c].cache.world = r[c].cache.world
    BY <1>3, <1>4, <1>5
  <1> QED
    BY <1>4, <1>5, <1>6, <1>7 DEF q

LEMMA FollowsAlike ==
  ASSUME NEW q, NEW r, NEW e, Follows(r, e),
         q[e].cache = r[e].cache, ParentOf(q, e) = ParentOf(r, e),
         ParentOf(r, e) # NoId => q[ParentOf(r, e)].cache.world = r[ParentOf(r, e)].cache.world
  PROVE  Follows(q, e)
  <1>1. WorldAbove(q, e) = WorldAbove(r, e)
    BY DEF WorldAbove
  <1> QED
    BY <1>1 DEF Follows

LEMMA CacheInvNext ==
  CacheInv' <=> \A e \in DOMAIN registry' \ stranded' : Follows(registry', e)
  BY DEF CacheInv, Follows, WorldAbove

\* The part of the invariant that is kept step by step.
CoreInv == SceneTypeOK /\ HierarchyIsForest /\ CacheInv

LEMMA CoreIs ==
  ASSUME CoreInv
  PROVE  /\ Typed(registry) /\ DOMAIN registry \subseteq Ids /\ IsForest(registry)
         /\ stranded \subseteq DOMAIN registry
         /\ \A e \in DOMAIN registry : ~OnCycle(registry, e)
         /\ \A e \in DOMAIN registry : registry[e].parent_id \in DOMAIN registry \cup {NoId}
         /\ \A e \in DOMAIN registry \ stranded : Follows(registry, e)
  BY CacheInvIs DEF CoreInv, SceneTypeOK, HierarchyIsForest, IsForest, Typed

LEMMA CoreNext ==
  ASSUME Typed(registry'), IsForest(registry'), last' \in {"edit", "copy", "update", "load"},
         stranded' \subseteq DOMAIN registry',
         \A e \in DOMAIN registry' \ stranded' : Follows(registry', e)
  PROVE  CoreInv'
  BY CacheInvNext DEF CoreInv, SceneTypeOK, HierarchyIsForest, Typed

LEMMA CreateStep ==
  ASSUME CoreInv, NEW id \in Ids \cup {NoId}, CreateEntity(id)
  PROVE  CoreInv'
  <1> DEFINE q == [e \in DOMAIN registry \cup {id} |->
                     IF e = id THEN NewEntity(<<>>, NoId) ELSE registry[e]]
  <1>1. /\ id \in Ids /\ id \notin DOMAIN registry /\ registry' = q
        /\ last' = "edit" /\ stranded' = stranded
    BY DEF CreateEntity
  <1>2. NewEntity(<<>>, NoId) \in Entity /\ NewEntity(<<>>, NoId).cache.dirty
    <2>1. [dirty |-> TRUE, local |-> <<>>, parent_id |-> NoId, world |-> <<>>] \in Cache
      BY SceneAssumption, EmptyIsSeq, CacheFields
    <2> QED
      BY <2>1, SceneAssumption DEF NewEntity, Entity
  <1>3. /\ DOMAIN q = DOMAIN registry \cup {id} /\ q[id] = NewEntity(<<>>, NoId)
        /\ \A e \in DOMAIN registry : q[e] = registry[e]
    BY <1>1
  <1>4. Typed(q)
    BY <1>1, <1>2, CoreIs DEF Typed
  <1> HIDE DEF q
  <1>5. q[id].parent_id = NoId /\ q[id].cache.dirty
    BY <1>2, <1>3 DEF NewEntity
  <1>6. IsForest(q)
    BY <1>3, <1>4, <1>5, CoreIs, ExtendedForest DEF Typed
  <1>7. ASSUME NEW e \in DOMAIN q \ stranded
        PROVE  Follows(q, e)
    <2>1. CASE e = id
      BY <1>5, <2>1 DEF Follows
    <2>2. CASE e # id
      <3>1. e \in DOMAIN registry \ stranded /\ q[e] = registry[e]
        BY <1>3, <2>2
      <3>2. ParentOf(q, e) = ParentOf(registry, e) /\ ParentOf(registry, e) \in DOMAIN registry \cup {NoId}
        BY <1>3, <3>1, CoreIs DEF ParentOf
      <3> QED
        BY <1>3, <3>1, <3>2, CoreIs, FollowsAlike
    <2> QED
      BY <2>1, <2>2
  <1> QED
    BY <1>1, <1>3, <1>4, <1>6, <1>7, CoreIs, CoreNext

LEMMA DestroyStep ==
  ASSUME CoreInv, NEW x, DestroyEntity(x)
  PROVE  CoreInv'
  <1> DEFINE below == Subtree(registry, x)
             q == Restrict(registry, DOMAIN registry \ below)
  <1>1. registry' = q /\ last' = "edit" /\ stranded' = stranded \ below
    BY DEF DestroyEntity
  <1>2. DOMAIN q = DOMAIN registry \ below /\ \A e \in DOMAIN q : q[e] = registry[e]
    BY DEF Restrict
  <1>3. Typed(q)
    BY CoreIs DEF Typed, Restrict
  <1>4. IsForest(q)
    BY CoreIs, DestroyedForest
  <1>5. ParentClosed(registry, DOMAIN registry \ below)
    BY CoreIs, SubtreeOf
  <1> HIDE DEF q
  <1>6. ASSUME NEW e \in DOMAIN q \ stranded'
        PROVE  Follows(q, e)
    <2>1. e \in DOMAIN registry \ stranded /\ q[e] = registry[e]
      BY <1>1, <1>2
    <2>2. ParentOf(registry, e) \in DOMAIN q \cup {NoId}
      BY <1>2, <1>5 DEF ParentClosed
    <2>3. ParentOf(q, e) = ParentOf(registry, e)
      BY <2>1, <2>2, CoreIs, NoIdAbsent DEF ParentOf
    <2> QED
      BY <1>2, <2>1, <2>2, <2>3, CoreIs, FollowsAlike
  <1> QED
    BY <1>1, <1>2, <1>3, <1>4, <1>6, CoreIs, CoreNext

LEMMA VisitStep ==
  ASSUME NEW r, NEW V, Typed(r), IsForest(r), Visitable(r, V), stranded \subseteq DOMAIN r,
         \A e \in DOMAIN r \ stranded : Follows(r, e),
         registry' = Visit(r, V), stranded' = StrandedBy(r, V), last' \in {"edit", "update"}
  PROVE  CoreInv'
  <1> DEFINE q == Visit(r, V)
  <1>1. Typed(q) /\ SameLinks(q, r)
    BY VisitKeeps
  <1>2. DOMAIN q = DOMAIN r
    BY <1>1 DEF SameLinks
  <1>3. IsForest(q)
    BY <1>1, SameLinksForest DEF Typed
  <1>4. \A e \in DOMAIN q \ stranded' : Follows(q, e)
    BY <1>2, VisitFollows
  <1>5. stranded' \subseteq DOMAIN q
    BY <1>2, StrandedByIs
  <1> HIDE DEF q
  <1>6. registry' = q
    BY DEF q
  <1> QED
    BY <1>1, <1>3, <1>4, <1>5, <1>6, CoreNext

LEMMA ChangeParentStep ==
  ASSUME CoreInv, NEW c \in DOMAIN registry, NEW p \in DOMAIN registry \cup {NoId},
         p # NoId => c \notin AncestorsOrSelf(registry, p), ChangeParent(c, p)
  PROVE  CoreInv' /\ last' = "edit"
  <1> DEFINE linked == Linked(registry, c, p)
             V == Visited(linked, c)
  <1>1. registry' = Visit(linked, V) /\ stranded' = StrandedBy(linked, V) /\ last' = "edit"
    BY DEF ChangeParent, Relink, UpdateWorldTransform
  <1>2. Typed(registry) /\ p \in Ids \cup {NoId} /\ IsForest(registry) /\ DOMAIN registry \subseteq Ids
    BY CoreIs
  <1>3. /\ Typed(linked) /\ DOMAIN linked = DOMAIN registry /\ linked[c].parent_id = p
        /\ linked[c].cache.dirty
        /\ \A e \in DOMAIN registry : linked[e].cache.world = registry[e].cache.world
        /\ \A e \in DOMAIN registry \ {c} : linked[e] = registry[e]
    <2>1. Typed(linked) /\ DOMAIN linked = DOMAIN registry
      BY <1>2, LinkedIs
    <2>2. linked[c].parent_id = p /\ linked[c].cache.dirty
      BY <1>2, LinkedIs
    <2>3. \A e \in DOMAIN registry : linked[e].cache.world = registry[e].cache.world
      BY <1>2, LinkedIs
    <2>4. \A e \in DOMAIN registry \ {c} : linked[e] = registry[e]
      BY <1>2, LinkedIs
    <2> QED
      BY <2>1, <2>2, <2>3, <2>4
  <1> HIDE DEF linked
  <1>4. IsForest(linked)
    BY <1>2, <1>3, RelinkedForest
  <1>5. Visitable(linked, V)
    BY <1>2, <1>3, VisitedVisitable
  <1>6. ASSUME NEW e \in DOMAIN linked \ stranded
        PROVE  Follows(linked, e)
    <2>1. CASE e = c
      BY <1>3, <2>1 DEF Follows
    <2>2. CASE e # c
      <3>1. linked[e] = registry[e] /\ e \in DOMAIN registry \ stranded
        BY <1>3, <2>2
      <3>2. ParentOf(linked, e) = ParentOf(registry, e)
        BY <1>3, <3>1 DEF ParentOf
      <3>3. ParentOf(registry, e) \in DOMAIN registry \cup {NoId}
        BY <1>2, NoIdAbsent
      <3> QED
        BY <1>3, <3>1, <3>2, <3>3, CoreIs, FollowsAlike
    <2> QED
      BY <2>1, <2>2
  <1>7. stranded \subseteq DOMAIN linked
    BY <1>3, CoreIs
  <1> HIDE DEF V
  <1> QED
    BY <1>1, <1>3, <1>4, <1>5, <1>6, <1>7, VisitStep

LEMMA SetLocalStep ==
  ASSUME CoreInv, NEW c, NEW local \in Locals, SetLocal(c, local)
  PROVE  CoreInv'
  <1> DEFINE q == [registry EXCEPT ![c] = [registry[c] EXCEPT !.local = local]]
  <1>1. registry' = q /\ c \in DOMAIN registry /\ last' = "edit" /\ stranded' = stranded
    BY DEF SetLocal
  <1>2. registry[c] \in Entity
    BY <1>1, CoreIs, TypedFields
  <1>3. [registry[c] EXCEPT !.local = local] \in Entity
    BY <1>2 DEF Entity
  <1>4. Typed(q) /\ DOMAIN q = DOMAIN registry
    BY <1>1, <1>3, CoreIs DEF Typed
  <1>5. ASSUME NEW e \in DOMAIN registry
        PROVE  q[e].parent_id = registry[e].parent_id /\ q[e].cache = registry[e].cache
    BY <1>1, <1>2, CoreIs DEF Typed, Entity
  <1> HIDE DEF q
  <1>6. SameLinks(q, registry)
    BY <1>4, <1>5 DEF SameLinks
  <1>7. IsForest(q)
    BY <1>6, SameLinksForest, CoreIs
  <1>8. ASSUME NEW e \in DOMAIN q \ stranded
        PROVE  Follows(q, e)
    <2>1. ParentOf(q, e) = ParentOf(registry, e) /\ ParentOf(registry, e) \in DOMAIN registry \cup {NoId}
      BY <1>4, <1>6, SameLinksSame, CoreIs, NoIdAbsent
    <2> QED
      BY <1>4, <1>5, <2>1, CoreIs, FollowsAlike
  <1> QED
    BY <1>1, <1>4, <1>7, <1>8, CoreIs, CoreNext

LEMMA ClearStep ==
  ASSUME ClearEntities
  PROVE  CoreInv'
  <1> DEFINE q == [e \in {} |-> <<>>]
  <1>1. registry' = q /\ last' = "edit" /\ stranded' = {}
    BY DEF ClearEntities, NoEntities
  <1>2. Typed(q) /\ IsForest(q) /\ DOMAIN q = {}
    BY DEF Typed, IsForest
  <1> HIDE DEF q
  <1> QED
    BY <1>1, <1>2, CoreNext

\* The registry with copies in it: the old entities are as before, the copies dirty.
LEMMA CopiesStep ==
  ASSUME CoreInv, NEW sources, sources \subseteq DOMAIN registry, NEW copyOf \in Copying(sources),
         NEW redirected, registry' = WithCopies(copyOf, redirected), stranded' = stranded,
         last' \in {"edit", "copy"},
         \A s \in sources : RemappedParent(redirected, registry[s].parent_id) \in Ids \cup {NoId},
         IsForest(registry')
  PROVE  CoreInv'
  <1> DEFINE q == WithCopies(copyOf, redirected)
  <1>1. /\ DOMAIN q = DOMAIN registry \cup {copyOf[s] : s \in sources}
        /\ \A e \in DOMAIN registry : q[e] = registry[e]
        /\ \A s \in sources : copyOf[s] \in Ids \ DOMAIN registry
    BY CopiesDomain, CopiesKeep, CopyingAre
  <1>2. q = [e \in DOMAIN q |-> q[e]]
    BY DEF WithCopies
  <1>3. \A s \in sources : q[copyOf[s]] = Copied(registry[s], redirected)
    BY CopiesAre
  <1> HIDE DEF q
  <1>4. ASSUME NEW s \in sources
        PROVE  q[copyOf[s]] \in Entity /\ q[copyOf[s]].cache.dirty = TRUE
    <2>1. registry[s] \in Entity
      BY CoreIs, TypedFields
    <2>2. LET copy == Copied(registry[s], redirected)
          IN  /\ copy.parent_id = RemappedParent(redirected, registry[s].parent_id)
              /\ copy.cache.dirty = TRUE
              /\ copy.parent_id \in Ids \cup {NoId} => copy \in Entity
      BY <2>1, CopiedIs
    <2> QED
      BY <1>3, <2>2
  <1>5. \A e \in DOMAIN q : q[e] \in Entity
    BY <1>1, <1>4, CoreIs, TypedFields
  <1>6. Typed(q)
    BY <1>1, <1>2, <1>5, CoreIs DEF Typed
  <1>7. ASSUME NEW e \in DOMAIN q \ stranded
        PROVE  Follows(q, e)
    <2>1. CASE e \in DOMAIN registry
      <3>1. e \in DOMAIN registry \ stranded /\ q[e] = registry[e]
        BY <1>1, <2>1
      <3>2. ParentOf(q, e) = ParentOf(registry, e) /\ ParentOf(registry, e) \in DOMAIN registry \cup {NoId}
        BY <1>1, <3>1, CoreIs DEF ParentOf
      <3> QED
        BY <1>1, <3>1, <3>2, CoreIs, FollowsAlike
    <2>2. CASE e \notin DOMAIN registry
      BY <1>1, <1>4, <2>2 DEF Follows
    <2> QED
      BY <2>1, <2>2
  <1>8. registry' = q
    BY DEF q
  <1> QED
    BY <1>1, <1>6, <1>7, <1>8, CoreIs, CoreNext

LEMMA DuplicateStep ==
  ASSUME CoreInv, NEW root, DuplicateEntity(root)
  PROVE  CoreInv'
  <1>1. root \in DOMAIN registry /\ last' = "copy" /\ stranded' = stranded
    BY DEF DuplicateEntity
  <1> DEFINE sources == Subtree(registry, root)
  <1>2. PICK copyOf \in Copying(sources) : registry' = WithCopies(copyOf, copyOf)
    BY DEF DuplicateEntity
  <1>3. IsForest(registry')
    BY <1>1, <1>2, CopiedLinks DEF CoreInv
  <1>4. sources \subseteq DOMAIN registry
    BY DEF Subtree
  <1> HIDE DEF sources
  <1>5. ASSUME NEW s \in sources
        PROVE  RemappedParent(copyOf, registry[s].parent_id) \in Ids \cup {NoId}
    BY <1>2, <1>4, CopyingAre, CoreIs DEF RemappedParent
  <1> QED
    BY <1>1, <1>2, <1>3, <1>4, <1>5, CopiesStep

LEMMA DuplicateFailsStep ==
  ASSUME CoreInv, NEW root, DuplicateFails(root)
  PROVE  CoreInv'
  <1> DEFINE none == [id \in {} |-> NoId]
  <1>1. last' = "edit" /\ stranded' = stranded
    BY DEF DuplicateFails
  <1>2. PICK prefix \in SUBSET Subtree(registry, root) :
          \E copyOf \in Copying(prefix) : registry' = WithCopies(copyOf, none)
    BY DEF DuplicateFails
  <1>8. PICK copyOf \in Copying(prefix) : registry' = WithCopies(copyOf, none)
    BY <1>2
  <1>3. prefix \subseteq DOMAIN registry
    BY DEF Subtree
  <1>4. \A id : RemappedParent(none, id) = id
    BY DEF RemappedParent
  <1> HIDE DEF none
  <1>5. ASSUME NEW s \in prefix
        PROVE  /\ RemappedParent(none, registry[s].parent_id) \in Ids \cup {NoId}
               /\ registry'[copyOf[s]].parent_id \in DOMAIN registry \cup {NoId}
    <2>1. registry[s] \in Entity /\ registry[s].parent_id \in DOMAIN registry \cup {NoId}
      BY <1>3, CoreIs, TypedFields
    <2>2. Copied(registry[s], none).parent_id = registry[s].parent_id
      BY <1>4, <2>1, CopiedIs
    <2> QED
      BY <1>8, <1>4, <2>1, <2>2, CopiesAre, CoreIs
  <1>6. /\ DOMAIN registry' = DOMAIN registry \cup {copyOf[s] : s \in prefix}
        /\ \A e \in DOMAIN registry : registry'[e] = registry[e]
        /\ \A s \in prefix : copyOf[s] \in Ids \ DOMAIN registry
    <2>1. DOMAIN WithCopies(copyOf, none) = DOMAIN registry \cup {copyOf[s] : s \in prefix}
      BY CopiesDomain
    <2>2. \A e \in DOMAIN registry : WithCopies(copyOf, none)[e] = registry[e]
      BY CopiesKeep
    <2> QED
      BY <1>8, <2>1, <2>2, CopyingAre
  <1>7. IsForest(registry')
    <2>1. DOMAIN registry' \subseteq Ids /\ DOMAIN registry \subseteq DOMAIN registry'
      BY <1>6, CoreIs
    <2>2. \A e \in DOMAIN registry' \ DOMAIN registry : registry'[e].parent_id \in DOMAIN registry \cup {NoId}
      BY <1>5, <1>6
    <2> QED
      BY <1>6, <2>1, <2>2, CoreIs, ExtendedForest
  <1> QED
    BY <1>1, <1>8, <1>3, <1>5, <1>7, CopiesStep

LEMMA AllVisitable ==
  ASSUME NEW r, Typed(r), IsForest(r)
  PROVE  Visitable(r, DOMAIN r)
  BY NoIdAbsent DEF Visitable, ParentClosed, IsForest, Typed

LEMMA UpdateStep ==
  ASSUME CoreInv, UpdateWorldTransforms
  PROVE  CoreInv' /\ LocalEditsPropagate' /\ last' = "update"
  <1> DEFINE V == DOMAIN registry
  <1>1. registry' = Visit(registry, V) /\ last' = "update" /\ stranded' = StrandedBy(registry, V)
    BY DEF UpdateWorldTransforms
  <1>2. Typed(registry) /\ IsForest(registry) /\ Visitable(registry, V)
    BY CoreIs, AllVisitable
  <1>3. CoreInv'
    BY <1>1, <1>2, CoreIs, VisitStep
  <1>4. /\ Typed(registry') /\ IsForest(registry')
        /\ \A e \in DOMAIN registry' \ stranded' : Follows(registry', e)
    BY <1>3, CacheInvNext DEF CoreInv, SceneTypeOK, Typed, HierarchyIsForest
  <1>5. SameLinks(registry', registry)
    BY <1>1, <1>2, VisitKeeps
  <1>6. DOMAIN registry' = DOMAIN registry
    BY <1>5 DEF SameLinks
  <1>7. ASSUME NEW e \in DOMAIN registry
        PROVE  /\ ~registry'[e].cache.dirty
               /\ registry'[e].cache.local = registry'[e].local
               /\ registry'[e].cache.parent_id = ParentOf(registry', e)
    <2>1. ParentOf(registry', e) = ParentOf(registry, e)
      BY <1>5, SameLinksSame
    <2>2. Visit(registry, V)[e].local = registry[e].local
      BY <1>2, VisitKeeps
    <2>3. LET cache == Visit(registry, V)[e].cache
          IN  ~cache.dirty /\ cache.local = registry[e].local /\ cache.parent_id = ParentOf(registry, e)
      BY <1>2, VisitCleans
    <2> QED
      BY <1>1, <2>1, <2>2, <2>3
  <1>8. \A e \in DOMAIN registry' : AncestorsOrSelf(registry', e) \cap stranded' = {} =>
          registry'[e].cache.world = TrueWorld(registry')[e]
    <2>1. \A e \in DOMAIN registry' : ~OnCycle(registry', e)
      BY <1>4 DEF IsForest
    <2> QED
      BY <1>4, <1>6, <1>7, <2>1, FollowingIsCurrent
  <1>9. LocalEditsPropagate'
    BY <1>8 DEF LocalEditsPropagate, Current
  <1> QED
    BY <1>1, <1>3, <1>9

-----------------------------------------------------------------------------
(* Loading. *)

LEMMA DocumentIs ==
  ASSUME NEW doc \in Documents
  PROVE  /\ doc \in Seq(PendingEntity) /\ Len(doc) \in Nat /\ DOMAIN doc = 1 .. Len(doc)
         /\ IdsOf(doc) \subseteq Ids
         /\ \A i \in 1 .. Len(doc) : /\ doc[i].id \in IdsOf(doc) /\ doc[i].local \in Locals
                                     /\ doc[i].parent_id \in Ids \cup {NoId}
  <1>1. doc \in Seq(PendingEntity) /\ Len(doc) \in Nat /\ DOMAIN doc = 1 .. Len(doc)
    BY SceneAssumption
  <1>2. \A i \in 1 .. Len(doc) : doc[i] \in PendingEntity
    BY <1>1
  <1>3. \A i \in 1 .. Len(doc) : /\ doc[i].id \in Ids /\ doc[i].local \in Locals
                                 /\ doc[i].parent_id \in Ids \cup {NoId}
    BY <1>2 DEF PendingEntity
  <1> QED
    BY <1>1, <1>3 DEF IdsOf

\* The staging scene before the links are made.
LEMMA WrittenIs ==
  ASSUME NEW doc \in Documents, AcceptsDocument(doc)
  PROVE  /\ Typed(Written(doc)) /\ DOMAIN Written(doc) = IdsOf(doc)
         /\ IsForest(Written(doc))
         /\ \A e \in IdsOf(doc) : Written(doc)[e].cache.dirty
         /\ \A i \in 1 .. Len(doc) : Written(doc)[doc[i].id].parent_id = doc[i].parent_id
  <1> DEFINE w == Written(doc)
             pending(e) == doc[CHOOSE i \in DOMAIN doc : doc[i].id = e]
  <1>1. DOMAIN w = IdsOf(doc) /\ w = [e \in IdsOf(doc) |-> w[e]]
        /\ \A e \in IdsOf(doc) : w[e] = NewEntity(pending(e).local, pending(e).parent_id)
    BY DEF Written
  <1> HIDE DEF w
  <1>2. ASSUME NEW e \in IdsOf(doc)
        PROVE  \E i \in 1 .. Len(doc) : doc[i].id = e /\ pending(e) = doc[i]
    <2>1. \E i \in DOMAIN doc : doc[i].id = e
      BY DEF IdsOf
    <2> QED
      BY <2>1, DocumentIs
  <1> HIDE DEF pending
  <1>3. \A local \in Locals, parent_id \in Ids \cup {NoId} :
          LET new == NewEntity(local, parent_id)
          IN  new \in Entity /\ new.cache.dirty /\ new.parent_id = parent_id
    <2>1. [dirty |-> TRUE, local |-> <<>>, parent_id |-> NoId, world |-> <<>>] \in Cache
      BY SceneAssumption, EmptyIsSeq, CacheFields
    <2> QED
      BY <2>1 DEF NewEntity, Entity
  <1>4. \A e \in IdsOf(doc) : /\ w[e] \in Entity /\ w[e].cache.dirty
                              /\ w[e].parent_id = pending(e).parent_id
    <2>1. \A e \in IdsOf(doc) : pending(e).local \in Locals /\ pending(e).parent_id \in Ids \cup {NoId}
      BY <1>2, DocumentIs
    <2> QED
      BY <1>1, <1>3, <2>1
  <1>5. Typed(w)
    BY <1>1, <1>4, DocumentIs DEF Typed
  <1>6. \A i \in 1 .. Len(doc) : w[doc[i].id].parent_id = doc[i].parent_id
    <2>1. ASSUME NEW i \in 1 .. Len(doc)
          PROVE  pending(doc[i].id) = doc[i]
      <3>1. PICK j \in 1 .. Len(doc) : doc[j].id = doc[i].id /\ pending(doc[i].id) = doc[j]
        BY <1>2, DocumentIs
      <3> QED
        BY <3>1, DocumentIs DEF AcceptsDocument
    <2> QED
      BY <1>4, <2>1, DocumentIs
  <1>7. \A e \in IdsOf(doc) : w[e].parent_id \in IdsOf(doc) \cup {NoId}
    <2>1. \A i \in 1 .. Len(doc) : doc[i].parent_id \in IdsOf(doc) \cup {NoId}
      BY DocumentIs DEF AcceptsDocument
    <2> QED
      BY <1>2, <1>4, <2>1
  <1>8. IsForest(w)
    BY <1>1, <1>7 DEF IsForest, AcceptsDocument, w
  <1> QED
    BY <1>1, <1>4, <1>5, <1>6, <1>8 DEF w

LinkParent(r, pending) ==
  IF pending.parent_id = NoId THEN r ELSE Relink(r, pending.id, pending.parent_id)

LEMMA RelinkTyped ==
  ASSUME NEW r, Typed(r), NEW c \in DOMAIN r, NEW p \in Ids \cup {NoId}
  PROVE  /\ Visitable(Linked(r, c, p), Visited(Linked(r, c, p), c))
         /\ Typed(Relink(r, c, p)) /\ DOMAIN Relink(r, c, p) = DOMAIN r
  <1> DEFINE linked == Linked(r, c, p)
  <1>1. Typed(linked) /\ DOMAIN linked = DOMAIN r
    BY LinkedIs
  <1>2. Relink(r, c, p) = Visit(linked, Visited(linked, c))
    BY DEF Relink, UpdateWorldTransform
  <1> HIDE DEF linked
  <1>3. Visitable(linked, Visited(linked, c))
    BY <1>1, VisitedVisitable DEF Typed
  <1>4. Typed(Visit(linked, Visited(linked, c))) /\ SameLinks(Visit(linked, Visited(linked, c)), linked)
    BY <1>1, <1>3, VisitKeeps
  <1> QED
    BY <1>1, <1>2, <1>3, <1>4 DEF SameLinks, linked

\* The links made so far are those of the document.
LEMMA LinkParentsRun ==
  ASSUME NEW doc \in Documents, NEW staging, Typed(staging), DOMAIN staging = IdsOf(doc)
  PROVE  \E f : /\ f[0] = staging
                /\ \A n \in 1 .. Len(doc) : f[n] = LinkParent(f[n - 1], doc[n])
                /\ LinkParents(doc, staging) = f[Len(doc)]
  <1> DEFINE D == [IdsOf(doc) -> Entity]
             N == Len(doc)
             G == [x \in (1 .. N) \X D |-> LinkParent(x[2], doc[x[1]])]
             Means(f) == f = [n \in 0 .. N |->
                               IF n = 0 THEN staging
                               ELSE IF doc[n].parent_id = NoId THEN f[n - 1]
                               ELSE Relink(f[n - 1], doc[n].id, doc[n].parent_id)]
  <1>1. IsFold(G, N, D)
    <2>1. ASSUME NEW r \in D, NEW n \in 1 .. N
          PROVE  LinkParent(r, doc[n]) \in D
      <3>1. Typed(r) /\ DOMAIN r = IdsOf(doc) /\ doc[n].id \in DOMAIN r /\ doc[n].parent_id \in Ids \cup {NoId}
        BY DocumentIs DEF Typed
      <3>2. Typed(Relink(r, doc[n].id, doc[n].parent_id))
            /\ DOMAIN Relink(r, doc[n].id, doc[n].parent_id) = DOMAIN r
        BY <3>1, RelinkTyped
      <3> QED
        BY <3>1, <3>2 DEF LinkParent, Typed
    <2> HIDE DEF D
    <2>2. \A x \in (1 .. N) \X D : LinkParent(x[2], doc[x[1]]) \in D
      BY <2>1
    <2> QED
      BY <2>2 DEF IsFold
  <1>2. staging \in D /\ N \in Nat
    BY DocumentIs DEF Typed
  <1> HIDE DEF D
  <1>3. \A n \in 1 .. N, r \in D : G[<<n, r>>] = LinkParent(r, doc[n])
    OBVIOUS
  <1> HIDE DEF G
  <1>4. PICK f : Run(f, N, D, staging, G)
    BY <1>1, <1>2, SequenceRecursion
  <1>5. f[0] = staging /\ \A n \in 1 .. N : f[n] = LinkParent(f[n - 1], doc[n])
    <2>1. \A n \in 1 .. N : n - 1 \in 0 .. N
      BY <1>2
    <2> QED
      BY <1>3, <1>4, <2>1 DEF Run
  <1>6. Means(f)
    <2>1. f = [n \in 0 .. N |-> f[n]]
      BY <1>4 DEF Run
    <2>2. ASSUME NEW n \in 0 .. N
          PROVE  f[n] = IF n = 0 THEN staging
                        ELSE IF doc[n].parent_id = NoId THEN f[n - 1]
                        ELSE Relink(f[n - 1], doc[n].id, doc[n].parent_id)
      <3>1. n # 0 => n \in 1 .. N
        BY <1>2
      <3> QED
        BY <1>5, <3>1 DEF LinkParent
    <2> QED
      BY <2>1, <2>2
  <1>7. LinkParents(doc, staging) = (CHOOSE linked : Means(linked))[N]
    BY DEF LinkParents
  <1>8. Means(CHOOSE linked : Means(linked))
    <2> HIDE DEF Means
    <2> QED
      BY <1>6
  <1> DEFINE linked == CHOOSE linked : Means(linked)
  <1> HIDE DEF linked
  <1>9. Means(linked)
    BY <1>8 DEF linked
  <1>10. linked[0] = staging
    BY <1>2, <1>9
  <1>11. ASSUME NEW n \in 1 .. N
         PROVE  linked[n] = LinkParent(linked[n - 1], doc[n])
    <2>1. n \in 0 .. N /\ n # 0
      BY <1>2
    <2> QED
      BY <1>9, <2>1 DEF LinkParent
  <1>12. LinkParents(doc, staging) = linked[N]
    BY <1>7 DEF linked
  <1> QED
    BY <1>10, <1>11, <1>12

\* What holds of the staging scene between two links: its clean caches hold
\* the worlds of the links written at first.
Staging(r, w) ==
  /\ Typed(r) /\ SameLinks(r, w) /\ \A e \in DOMAIN w : r[e].local = w[e].local
  /\ Holds(r, TrueWorld(w))

LEMMA StagingWorlds ==
  ASSUME NEW r, NEW w, Typed(w), IsForest(w), Staging(r, w)
  PROVE  /\ DOMAIN r = DOMAIN w /\ IsForest(r)
         /\ \A e \in DOMAIN r : TrueWorld(w)[e] = Above(r, TrueWorld(w), e, <<>>) \o r[e].local
  <1>1. SameLinks(r, w) /\ DOMAIN r = DOMAIN w
    BY DEF Staging, SameLinks
  <1>2. IsForest(r)
    BY <1>1, SameLinksForest DEF Typed
  <1>3. ASSUME NEW e \in DOMAIN r
        PROVE  TrueWorld(w)[e] = Above(r, TrueWorld(w), e, <<>>) \o r[e].local
    <2>1. TrueWorld(w)[e] = Above(w, TrueWorld(w), e, <<>>) \o w[e].local
      BY <1>1, TrueWorldIs DEF IsForest
    <2>2. ParentOf(r, e) = ParentOf(w, e)
      BY <1>1, SameLinksSame
    <2>3. r[e].local = w[e].local
      BY <1>1 DEF Staging
    <2> QED
      BY <2>1, <2>2, <2>3 DEF Above
  <1> QED
    BY <1>1, <1>2, <1>3

LEMMA StagingVisit ==
  ASSUME NEW r, NEW w, NEW V, Typed(w), IsForest(w), Staging(r, w), Visitable(r, V)
  PROVE  Staging(Visit(r, V), w)
  <1> DEFINE q == Visit(r, V)
  <1>1. Typed(r) /\ SameLinks(r, w) /\ Holds(r, TrueWorld(w)) /\ DOMAIN r = DOMAIN w
    BY DEF Staging, SameLinks
  <1>2. Typed(q) /\ SameLinks(q, r) /\ \A e \in DOMAIN r : q[e].local = r[e].local
    BY <1>1, VisitKeeps
  <1>3. Holds(q, TrueWorld(w))
    BY <1>1, StagingWorlds, VisitHolds
  <1> HIDE DEF q
  <1>4. SameLinks(q, w)
    BY <1>1, <1>2 DEF SameLinks
  <1>5. \A e \in DOMAIN w : q[e].local = w[e].local
    BY <1>1, <1>2 DEF Staging
  <1>6. Staging(q, w)
    BY <1>2, <1>3, <1>4, <1>5 DEF Staging
  <1> QED
    BY <1>6 DEF q

LEMMA StagingLink ==
  ASSUME NEW r, NEW w, Typed(w), IsForest(w), Staging(r, w),
         NEW c \in DOMAIN r, NEW p, p = w[c].parent_id
  PROVE  Staging(Relink(r, c, p), w)
  <1> DEFINE linked == Linked(r, c, p)
  <1>1. /\ Typed(r) /\ SameLinks(r, w) /\ Holds(r, TrueWorld(w)) /\ DOMAIN r = DOMAIN w
        /\ p \in Ids \cup {NoId}
    BY DEF Staging, SameLinks, IsForest, Typed
  <1>2. Typed(linked) /\ DOMAIN linked = DOMAIN r
    BY <1>1, LinkedIs
  <1>3. linked[c].parent_id = p /\ linked[c].cache.dirty
    BY <1>1, LinkedIs
  <1>4. \A e \in DOMAIN r : linked[e].local = r[e].local
    BY <1>1, LinkedIs
  <1>5. \A e \in DOMAIN r \ {c} : linked[e] = r[e]
    BY <1>1, LinkedIs
  <1>6. Visitable(linked, Visited(linked, c))
    BY <1>1, RelinkTyped
  <1>7. Relink(r, c, p) = Visit(linked, Visited(linked, c))
    BY DEF Relink, UpdateWorldTransform
  <1> HIDE DEF linked
  <1>8. SameLinks(linked, w)
    BY <1>1, <1>2, <1>3, <1>5 DEF SameLinks
  <1>9. Holds(linked, TrueWorld(w))
    BY <1>1, <1>2, <1>3, <1>5 DEF Holds
  <1>10. Staging(linked, w)
    BY <1>1, <1>2, <1>4, <1>8, <1>9 DEF Staging
  <1> QED
    BY <1>6, <1>7, <1>10, StagingVisit

LEMMA StagedIs ==
  ASSUME NEW doc \in Documents, AcceptsDocument(doc)
  PROVE  Staging(Staged(doc), Written(doc))
  <1> DEFINE w == Written(doc)
             N == Len(doc)
  <1>1. /\ Typed(w) /\ DOMAIN w = IdsOf(doc) /\ IsForest(w)
        /\ \A e \in IdsOf(doc) : w[e].cache.dirty
        /\ \A i \in 1 .. N : w[doc[i].id].parent_id = doc[i].parent_id
    BY WrittenIs
  <1>2. PICK f : /\ f[0] = w
                 /\ \A n \in 1 .. N : f[n] = LinkParent(f[n - 1], doc[n])
                 /\ LinkParents(doc, w) = f[N]
    BY <1>1, LinkParentsRun
  <1> HIDE DEF w
  <1>3. Staging(w, w)
    BY <1>1 DEF Staging, SameLinks, Holds
  <1>4. N \in Nat
    BY DocumentIs
  <1> DEFINE bad == {n \in 0 .. N : ~Staging(f[n], w)}
  <1>5. bad = {}
    <2> SUFFICES ASSUME bad # {}
                 PROVE  FALSE
      OBVIOUS
    <2>1. PICK n \in bad : \A m \in bad : n <= m
      <3>1. bad \in SUBSET Nat
        OBVIOUS
      <3> HIDE DEF bad
      <3> QED
        BY <3>1, LeastOf
    <2>2. n \in 1 .. N
      BY <1>2, <1>3
    <2>3. n - 1 \in 0 .. N /\ n - 1 < n
      BY <2>2
    <2>4. Staging(f[n - 1], w)
      BY <2>1, <2>3
    <2>5. Staging(LinkParent(f[n - 1], doc[n]), w)
      <3>1. CASE doc[n].parent_id = NoId
        BY <2>4, <3>1 DEF LinkParent
      <3>2. CASE doc[n].parent_id # NoId
        <4>1. doc[n].id \in DOMAIN f[n - 1] /\ doc[n].parent_id = w[doc[n].id].parent_id
          BY <1>1, <2>2, <2>4, DocumentIs DEF Staging, SameLinks
        <4> QED
          BY <1>1, <2>4, <3>2, <4>1, StagingLink DEF LinkParent
      <3> QED
        BY <3>1, <3>2
    <2> QED
      BY <1>2, <2>2, <2>5
  <1>6. Staging(f[N], w)
    BY <1>4, <1>5
  <1> QED
    BY <1>2, <1>6 DEF Staged, w

LEMMA LoadStep ==
  ASSUME NEW doc \in Documents, Load(doc)
  PROVE  CoreInv' /\ LoadedIsCurrent' /\ last' = "load"
  <1> DEFINE w == Written(doc)
             staged == Staged(doc)
             V == IdsOf(doc)
  <1>1. AcceptsDocument(doc) /\ registry' = Visit(staged, V) /\ last' = "load" /\ stranded' = {}
    BY DEF Load
  <1>2. Typed(w) /\ IsForest(w) /\ DOMAIN w = V
    BY <1>1, WrittenIs
  <1>3. Staging(staged, w)
    BY <1>1, StagedIs
  <1> HIDE DEF w, staged
  <1>4. DOMAIN staged = V /\ IsForest(staged) /\ Typed(staged)
    BY <1>2, <1>3, StagingWorlds DEF Staging
  <1>5. Visitable(staged, V)
    BY <1>4, AllVisitable
  <1> HIDE DEF V
  <1>6. Staging(registry', w)
    BY <1>1, <1>2, <1>3, <1>5, StagingVisit
  <1>7. /\ DOMAIN registry' = DOMAIN w /\ IsForest(registry') /\ Typed(registry')
        /\ \A e \in DOMAIN registry' :
             TrueWorld(w)[e] = Above(registry', TrueWorld(w), e, <<>>) \o registry'[e].local
    BY <1>2, <1>6, StagingWorlds DEF Staging
  <1>8. ASSUME NEW e \in DOMAIN registry'
        PROVE  ~registry'[e].cache.dirty /\ registry'[e].cache.local = registry'[e].local
    <2>1. e \in V /\ e \in DOMAIN staged
      BY <1>2, <1>4, <1>7
    <2>2. LET cache == Visit(staged, V)[e].cache
          IN  ~cache.dirty /\ cache.local = staged[e].local /\ cache.parent_id = ParentOf(staged, e)
      BY <1>4, <1>5, <2>1, VisitCleans
    <2>3. Visit(staged, V)[e].local = staged[e].local
      BY <1>4, <1>5, <2>1, VisitKeeps
    <2> QED
      BY <1>1, <2>2, <2>3
  <1>9. \A e \in DOMAIN registry' : registry'[e].cache.world = TrueWorld(w)[e]
    BY <1>6, <1>8 DEF Staging, Holds
  <1>10. \A e \in DOMAIN registry' : TrueWorld(registry')[e] = TrueWorld(w)[e]
    BY <1>7, TrueWorldUnique DEF IsForest
  <1>11. ASSUME NEW e \in DOMAIN registry'
         PROVE  Follows(registry', e)
    <2>1. WorldAbove(registry', e) = Above(registry', TrueWorld(w), e, <<>>)
      BY <1>7, <1>9, NoIdAbsent DEF WorldAbove, Above, Typed
    <2> QED
      BY <1>7, <1>8, <1>9, <2>1 DEF Follows
  <1>12. CoreInv'
    BY <1>1, <1>7, <1>11, CoreNext
  <1>13. LoadedIsCurrent'
    BY <1>9, <1>10 DEF LoadedIsCurrent, Current
  <1> QED
    BY <1>1, <1>12, <1>13

-----------------------------------------------------------------------------
LEMMA Quiet ==
  last' \in {"edit", "copy"} => LocalEditsPropagate' /\ LoadedIsCurrent'
  BY DEF LocalEditsPropagate, LoadedIsCurrent

LEMMA SceneInvNext ==
  ASSUME SceneInv, [SceneNext]_sceneVars
  PROVE  SceneInv'
  <1>1. CoreInv
    BY DEF SceneInv, CoreInv
  <1>2. ASSUME CoreInv', last' \in {"edit", "copy"}
        PROVE  SceneInv'
    BY <1>2, Quiet DEF SceneInv, CoreInv
  <1>3. ASSUME NEW id \in Ids \cup {NoId}, CreateEntity(id)
        PROVE  SceneInv'
    BY <1>1, <1>2, <1>3, CreateStep DEF CreateEntity
  <1>4. ASSUME NEW e \in Ids, DestroyEntity(e)
        PROVE  SceneInv'
    BY <1>1, <1>2, <1>4, DestroyStep DEF DestroyEntity
  <1>5. ASSUME NEW e \in Ids, DetachFromParent(e)
        PROVE  SceneInv'
    BY <1>1, <1>2, <1>5, ChangeParentStep DEF DetachFromParent
  <1>6. ASSUME NEW e \in Ids, NEW parent \in Ids, SetParent(e, parent)
        PROVE  SceneInv'
    BY <1>1, <1>2, <1>6, ChangeParentStep DEF SetParent, WouldCycle
  <1>7. ASSUME NEW e \in Ids, DuplicateEntity(e)
        PROVE  SceneInv'
    BY <1>1, <1>2, <1>7, DuplicateStep DEF DuplicateEntity
  <1>8. ASSUME NEW e \in Ids, DuplicateFails(e)
        PROVE  SceneInv'
    BY <1>1, <1>2, <1>8, DuplicateFailsStep DEF DuplicateFails
  <1>9. ASSUME NEW e \in Ids, NEW local \in Locals, SetLocal(e, local)
        PROVE  SceneInv'
    BY <1>1, <1>2, <1>9, SetLocalStep DEF SetLocal
  <1>10. CASE UpdateWorldTransforms
    BY <1>1, <1>10, UpdateStep DEF SceneInv, CoreInv, LoadedIsCurrent
  <1>11. CASE ClearEntities
    BY <1>2, <1>11, ClearStep DEF ClearEntities
  <1>12. ASSUME NEW doc \in Documents, Load(doc)
         PROVE  SceneInv'
    BY <1>12, LoadStep DEF SceneInv, CoreInv, LocalEditsPropagate
  <1>13. CASE UNCHANGED sceneVars
    <2>1. registry' = registry /\ last' = last /\ stranded' = stranded
      BY <1>13 DEF sceneVars
    <2> QED
      BY <2>1 DEF SceneInv, SceneTypeOK, HierarchyIsForest, CacheInv, LocalEditsPropagate,
                  LoadedIsCurrent, Current
  <1> QED
    BY <1>3, <1>4, <1>5, <1>6, <1>7, <1>8, <1>9, <1>10, <1>11, <1>12, <1>13 DEF SceneNext

(***************************************************************************)
(* The inductive invariant, from the empty scene on.                        *)
(***************************************************************************)
THEOREM SceneInvariance == SceneSpec => []SceneInv
  <1>1. SceneInit => SceneInv
    <2> SUFFICES ASSUME SceneInit
                 PROVE  SceneInv
      OBVIOUS
    <2>1. registry = NoEntities /\ DOMAIN registry = {} /\ last = "edit" /\ stranded = {}
      BY DEF SceneInit, NoEntities
    <2>2. registry \in [DOMAIN registry -> Entity]
      BY <2>1 DEF NoEntities
    <2> QED
      BY <2>1, <2>2 DEF SceneInv, SceneTypeOK, HierarchyIsForest, IsForest, CacheInv,
                        LocalEditsPropagate, LoadedIsCurrent
  <1>2. SceneInv /\ [SceneNext]_sceneVars => SceneInv'
    BY SceneInvNext
  <1> QED
    BY <1>1, <1>2, PTL DEF SceneSpec

(***************************************************************************)
(* The registry and its caches keep their types: a world transform is a     *)
(* product of local transforms.                                             *)
(***************************************************************************)
THEOREM SceneTyping == SceneSpec => []SceneTypeOK
  <1>1. SceneInv => SceneTypeOK
    BY DEF SceneInv
  <1> QED
    BY <1>1, SceneInvariance, PTL

(***************************************************************************)
(* setParent's check, the subtree destroyEntity takes, the parents of the   *)
(* copies duplicateEntity makes (all of them, or those before it failed) and *)
(* the document checks of deserialize keep the links a forest of live       *)
(* entities.                                                                *)
(***************************************************************************)
THEOREM Forest == SceneSpec => []HierarchyIsForest
  <1>1. SceneInv => HierarchyIsForest
    BY DEF SceneInv
  <1> QED
    BY <1>1, SceneInvariance, PTL

(***************************************************************************)
(* After updateWorldTransforms every cached world transform is the product  *)
(* of the local transforms above it, except under an entity whose parent    *)
(* setParent or detachFromParent refreshed without it.                      *)
(***************************************************************************)
THEOREM Propagation == SceneSpec => []LocalEditsPropagate
  <1>1. SceneInv => LocalEditsPropagate
    BY DEF SceneInv
  <1> QED
    BY <1>1, SceneInvariance, PTL

(***************************************************************************)
(* deserialize leaves every world transform current, in whatever order the  *)
(* document lists the entities.                                             *)
(***************************************************************************)
THEOREM Loading == SceneSpec => []LoadedIsCurrent
  <1>1. SceneInv => LoadedIsCurrent
    BY DEF SceneInv
  <1> QED
    BY <1>1, SceneInvariance, PTL

(***************************************************************************)
(* duplicateEntity adds exactly a copy of the subtree, linked among itself  *)
(* as its sources are, beside the old root.                                 *)
(***************************************************************************)
THEOREM Duplication == SceneSpec => DuplicateIsSibling
  <1> DEFINE IsCopy ==
        last' = "copy" =>
          /\ Restrict(registry', DOMAIN registry) = registry
          /\ \E root \in DOMAIN registry : \E copyOf \in Copying(Subtree(registry, root)) :
               Range(copyOf) = DOMAIN registry' \ DOMAIN registry /\ IsCopyOf(copyOf, root)
  <1>1. ASSUME SceneInv, SceneNext, last' = "copy"
        PROVE  /\ Restrict(registry', DOMAIN registry) = registry
               /\ \E root \in DOMAIN registry : \E copyOf \in Copying(Subtree(registry, root)) :
                    Range(copyOf) = DOMAIN registry' \ DOMAIN registry /\ IsCopyOf(copyOf, root)
    <2>0. CoreInv
      BY <1>1 DEF SceneInv, CoreInv
    <2>1. PICK root \in Ids : DuplicateEntity(root)
      BY <1>1 DEF SceneNext, CreateEntity, DestroyEntity, DetachFromParent, SetParent, ChangeParent,
                  DuplicateFails, SetLocal, UpdateWorldTransforms, ClearEntities, Load
    <2>2. root \in DOMAIN registry
      BY <2>1 DEF DuplicateEntity
    <2> DEFINE sources == Subtree(registry, root)
    <2>3. PICK copyOf \in Copying(sources) : registry' = WithCopies(copyOf, copyOf)
      BY <2>1 DEF DuplicateEntity
    <2>4. sources \subseteq DOMAIN registry /\ root \in sources
      BY <2>0, <2>2, CoreIs, SubtreeOf
    <2>5. /\ registry'[copyOf[root]].parent_id = registry[root].parent_id
          /\ \A s \in sources :
               /\ s # root => registry'[copyOf[s]].parent_id = copyOf[registry[s].parent_id]
               /\ Subtree(registry', copyOf[s]) = {copyOf[t] : t \in Subtree(registry, s)}
      <3>1. SceneTypeOK /\ HierarchyIsForest
        BY <2>0 DEF CoreInv
      <3>2. registry'[copyOf[root]].parent_id = registry[root].parent_id
        BY <2>2, <2>3, <3>1, CopiedLinks
      <3>3. \A s \in sources : s # root =>
              registry'[copyOf[s]].parent_id = copyOf[registry[s].parent_id]
        BY <2>2, <2>3, <3>1, CopiedLinks
      <3>4. \A s \in sources : Subtree(registry', copyOf[s]) = {copyOf[t] : t \in Subtree(registry, s)}
        BY <2>2, <2>3, <3>1, CopiedLinks
      <3> QED
        BY <3>2, <3>3, <3>4
    <2>6. DOMAIN WithCopies(copyOf, copyOf) = DOMAIN registry \cup {copyOf[s] : s \in sources}
      BY CopiesDomain
    <2>7. \A e \in DOMAIN registry : WithCopies(copyOf, copyOf)[e] = registry[e]
      BY CopiesKeep
    <2> HIDE DEF sources
    <2>8. DOMAIN copyOf = sources /\ \A s \in sources : copyOf[s] \in Ids \ DOMAIN registry
      BY CopyingAre
    <2>9. Range(copyOf) = DOMAIN registry' \ DOMAIN registry
      BY <2>3, <2>6, <2>8 DEF Range
    <2>10. Restrict(registry', DOMAIN registry) = registry
      BY <2>0, <2>3, <2>6, <2>7, CoreIs DEF Restrict, Typed
    <2>11. \A s \in sources : registry'[copyOf[s]].local = registry[s].local
      <3>1. ASSUME NEW s \in sources
            PROVE  WithCopies(copyOf, copyOf)[copyOf[s]].local = registry[s].local
        <4>1. registry[s] \in Entity
          BY <2>0, <2>4, CoreIs, TypedFields
        <4>2. Copied(registry[s], copyOf).local = registry[s].local
          BY <4>1, CopiedIs
        <4> QED
          BY <4>2, CopiesAre
      <3> QED
        BY <2>3, <3>1
    <2>12. IsCopyOf(copyOf, root)
      BY <2>5, <2>11 DEF IsCopyOf, sources
    <2> QED
      BY <2>2, <2>3, <2>9, <2>10, <2>12 DEF sources
  <1>2. SceneInv /\ [SceneNext]_sceneVars => [IsCopy]_sceneVars
    BY <1>1
  <1> QED
    BY <1>2, SceneInvariance, PTL DEF SceneSpec, DuplicateIsSibling

-----------------------------------------------------------------------------
(***************************************************************************)
(*                              SceneSystems                                *)
(***************************************************************************)

(* Sequences with one element less or more. *)

LEMMA FrontOf ==
  ASSUME NEW S, NEW s \in Seq(S), s # <<>>
  PROVE  /\ Front(s) \in Seq(S)
         /\ Len(Front(s)) = Len(s) - 1
         /\ \A i \in 1 .. Len(s) - 1 : Front(s)[i] = s[i]
  <1> DEFINE n == Len(s) - 1
  <1>1. Len(s) \in Nat /\ Len(s) > 0
    OBVIOUS
  <1>2. n \in Nat /\ \A i \in 1 .. n : i \in 1 .. Len(s)
    BY <1>1
  <1>3. /\ SubSeq(s, 1, n) \in Seq(S)
        /\ Len(SubSeq(s, 1, n)) = n
        /\ \A i \in 1 .. n : SubSeq(s, 1, n)[i] = s[1 + i - 1]
    <2>1. \A i \in 1 .. n : s[i] \in S
      BY <1>2
    <2> HIDE DEF n
    <2> QED
      BY <1>2, <2>1, SubSeqProperties
  <1>4. \A i \in 1 .. n : 1 + i - 1 = i
    BY <1>2
  <1> QED
    BY <1>3, <1>4 DEF Front

LEMMA RemoveAtOf ==
  ASSUME NEW S, NEW s \in Seq(S), NEW at \in 1 .. Len(s)
  PROVE  /\ RemoveAt(s, at) \in Seq(S)
         /\ Len(RemoveAt(s, at)) = Len(s) - 1
         /\ \A i \in 1 .. Len(s) - 1 : RemoveAt(s, at)[i] = IF i < at THEN s[i] ELSE s[i + 1]
  <1> DEFINE a == SubSeq(s, 1, at - 1)
  <1> DEFINE b == SubSeq(s, at + 1, Len(s))
  <1>1. /\ a \in Seq(S) /\ Len(a) = at - 1
        /\ \A i \in 1 .. at - 1 : a[i] = s[i]
    BY SubSeqProperties
  <1>2. /\ b \in Seq(S) /\ Len(b) = Len(s) - at
        /\ \A i \in 1 .. Len(s) - at : b[i] = s[at + i]
    BY SubSeqProperties
  <1>3. RemoveAt(s, at) = a \o b
    BY DEF RemoveAt
  <1> HIDE DEF a, b
  <1>4. /\ a \o b \in Seq(S) /\ Len(a \o b) = Len(s) - 1
        /\ \A i \in 1 .. Len(s) - 1 : (a \o b)[i] = IF i < at THEN a[i] ELSE b[i - (at - 1)]
    <2>1. Len(s) \in Nat /\ (at - 1) + (Len(s) - at) = Len(s) - 1
      OBVIOUS
    <2>2. /\ a \o b \in Seq(S) /\ Len(a \o b) = Len(a) + Len(b)
          /\ \A i \in 1 .. Len(a) + Len(b) : (a \o b)[i] = IF i <= Len(a) THEN a[i] ELSE b[i - Len(a)]
      BY <1>1, <1>2, ConcatProperties
    <2>3. \A i \in 1 .. Len(s) - 1 : i <= at - 1 <=> i < at
      OBVIOUS
    <2> QED
      BY <1>1, <1>2, <2>1, <2>2, <2>3
  <1>5. ASSUME NEW i \in 1 .. Len(s) - 1
        PROVE  (a \o b)[i] = IF i < at THEN s[i] ELSE s[i + 1]
    <2>1. CASE i < at
      BY <1>1, <1>4, <2>1
    <2>2. CASE ~(i < at)
      <3>1. i - (at - 1) \in 1 .. Len(s) - at /\ at + (i - (at - 1)) = i + 1
        BY <2>2
      <3> QED
        BY <1>2, <1>4, <2>2, <3>1
    <2> QED
      BY <2>1, <2>2
  <1> QED
    BY <1>3, <1>4, <1>5

\* At most one call is in progress; leaving it leaves none.
LEMMA OneCall ==
  ASSUME IInv, calls # <<>>
  PROVE  /\ Len(calls) = 1
         /\ Last(calls) = calls[1] /\ calls[1] \in Call
         /\ Front(calls) = <<>>
         /\ calls[1].at \in DOMAIN entries
         /\ entries[calls[1].at].type = calls[1].type
         /\ calls[1].type \in Types
  <1>1. calls \in Seq(Call) /\ Len(calls) <= 1
    BY DEF IInv, TypeOK, FlagInv
  <1>2. Len(calls) = 1 /\ calls[1] \in Call
    <2>1. Len(calls) \in Nat /\ Len(calls) # 0
      BY <1>1, EmptyIsSeq
    <2>2. Len(calls) = 1
      <3>1. Len(calls) <= 1
        BY <1>1
      <3> QED
        BY <2>1, <3>1
    <2> QED
      BY <1>1, <2>2
  <1>3. Front(calls) = <<>>
    BY <1>1, <1>2, FrontOf, EmptyIsSeq
  <1>4. 1 \in DOMAIN calls
    BY <1>1, <1>2
  <1> QED
    BY <1>2, <1>3, <1>4 DEF IInv, HeldEntryStays, Last, Call

\* A call that begins is the only one.
LEMMA Entered ==
  ASSUME IInv, calls = <<>>,
         NEW callback \in Callbacks, NEW type \in Types, NEW at \in Nat, NEW stage \in Stages,
         Enter(callback, type, at, stage)
  PROVE  /\ calls' \in Seq(Call) /\ Len(calls') = 1 /\ Len(calls') <= MaxDepth
         /\ calls' # <<>> /\ DOMAIN calls' = {1}
         /\ calls'[1].in = callback /\ calls'[1].type = type /\ calls'[1].at = at
  <1> DEFINE c == [in |-> callback, type |-> type, at |-> at, stage |-> stage]
  <1>1. c \in Call /\ c.in = callback /\ c.type = type /\ c.at = at
    BY DEF Call
  <1>2. calls' = Append(calls, c) /\ Len(calls) < MaxDepth
    BY DEF Enter
  <1> HIDE DEF c
  <1>3. calls' = <<c>>
    BY <1>2
  <1>4. Len(calls') <= MaxDepth
    BY <1>3, SystemsAssumption
  <1> QED
    BY <1>1, <1>3, <1>4

\* Nothing is called from inside a callback but setSystemEnabled.
LEMMA Idle ==
  ASSUME IInv, Callable, Accepts
  PROVE  calls = <<>> /\ alive
  <1>1. CASE calls = <<>>
    BY <1>1 DEF Callable
  <1>2. CASE calls # <<>>
    <2>1. calls[1].in \in Callbacks
      BY <1>2, OneCall DEF Call
    <2> QED
      BY <1>2, <2>1 DEF IInv, FlagInv, Accepts, Running, Callbacks
  <1> QED
    BY <1>1, <1>2

LEMMA FoundEntry ==
  ASSUME NEW type \in Registered
  PROVE  Found(type) \in DOMAIN entries /\ entries[Found(type)].type = type
  BY DEF Found, Registered

\* The entries of a removed type's neighbours keep their types, each once.
LEMMA EntryTypes ==
  ASSUME IInv
  PROVE  /\ DOMAIN entries = 1 .. Len(entries) /\ Len(entries) \in Nat
         /\ \A i \in DOMAIN entries : /\ entries[i] \in Entry
                                      /\ entries[i].type \in Types /\ entries[i].stage \in Stages
  <1>1. entries \in Seq(Entry)
    BY DEF IInv, TypeOK
  <1>2. DOMAIN entries = 1 .. Len(entries) /\ Len(entries) \in Nat
    BY <1>1
  <1>3. \A i \in DOMAIN entries : entries[i] \in Entry
    BY <1>1
  <1> QED
    BY <1>2, <1>3 DEF Entry

-----------------------------------------------------------------------------
(* Each action. *)

LEMMA AddStep ==
  ASSUME IInv, NEW type \in Types, NEW stage \in Stages, AddSystem(type, stage)
  PROVE  IInv'
  <1> DEFINE e == [type |-> type, stage |-> stage, enabled |-> TRUE]
  <1> DEFINE n == Len(entries) + 1
  <1>1. calls = <<>> /\ alive /\ alive' /\ attached' = attached /\ reluctant' = reluctant
        /\ inLifecycleCallback' = TRUE /\ executing' = executing /\ ~executing
    BY Idle DEF AddSystem, Accepts
  <1>2. /\ calls' \in Seq(Call) /\ Len(calls') = 1 /\ Len(calls') <= MaxDepth
        /\ calls' # <<>> /\ DOMAIN calls' = {1}
        /\ calls'[1].in = "onAttach" /\ calls'[1].type = type /\ calls'[1].at = n
    <2>1. Enter("onAttach", type, n, stage) /\ "onAttach" \in Callbacks /\ n \in Nat
      BY EntryTypes DEF AddSystem, Callbacks
    <2> HIDE DEF n
    <2> QED
      BY <1>1, <2>1, Entered
  <1>3. e \in Entry /\ e.type = type
    BY DEF Entry
  <1>4. entries' = Append(entries, e)
    BY DEF AddSystem
  <1> HIDE DEF e
  <1>5. /\ entries' \in Seq(Entry) /\ Len(entries') = n /\ DOMAIN entries' = 1 .. n
        /\ DOMAIN entries = 1 .. n - 1 /\ n \in Nat \ {0}
        /\ \A i \in 1 .. n - 1 : entries'[i] = entries[i]
        /\ entries'[n].type = type
    BY <1>3, <1>4 DEF IInv, TypeOK
  <1> HIDE DEF n
  <1>6. \A i \in 1 .. n - 1 : entries[i].type # type
    BY <1>5 DEF AddSystem, Registered
  <1>7. TypeOK'
    BY <1>1, <1>2, <1>5 DEF IInv, TypeOK
  <1>8. FlagInv'
    BY <1>1, <1>2 DEF FlagInv, Running
  <1>9. UniqueInv'
    BY <1>5, <1>6 DEF IInv, UniqueInv
  <1>10. HeldEntryStays'
    BY <1>2, <1>5 DEF HeldEntryStays
  <1>11. PairInv'
    <2>1. Registered' = Registered \cup {type}
      BY <1>5 DEF Registered
    <2>2. Pending' = {type} /\ Pending = {}
      BY <1>1, <1>2 DEF Pending, Running
    <2>3. type \notin Registered
      BY DEF AddSystem
    <2> QED
      BY <1>1, <2>1, <2>2, <2>3 DEF IInv, PairInv
  <1> QED
    BY <1>7, <1>8, <1>9, <1>10, <1>11 DEF IInv

\* A callback of the manager ends and no other is running.
LEMMA Left ==
  ASSUME IInv, calls # <<>>, calls' = Front(calls),
         executing' = FALSE, inLifecycleCallback' = FALSE, alive, alive'
  PROVE  calls' = <<>> /\ calls' \in Seq(Call) /\ Len(calls') <= MaxDepth /\ FlagInv' /\ HeldEntryStays'
         /\ Pending' = {}
  <1>1. calls' = <<>>
    BY OneCall
  <1> QED
    BY <1>1, SystemsAssumption DEF FlagInv, HeldEntryStays, Running, Pending

\* A callback that is not onUpdate runs in a manager that is alive.
LEMMA Lifecycle ==
  ASSUME IInv, Inside("onAttach") \/ Inside("onDetach")
  PROVE  /\ calls # <<>> /\ alive /\ executing = FALSE
         /\ Last(calls) = calls[1] /\ Pending = {calls[1].type}
  BY OneCall DEF IInv, TypeOK, FlagInv, Running, Inside, Pending

LEMMA AttachReturnsStep ==
  ASSUME IInv, AttachReturns
  PROVE  IInv'
  <1>1. calls # <<>> /\ alive /\ executing = FALSE /\ Last(calls) = calls[1] /\ Pending = {calls[1].type}
    BY Lifecycle DEF AttachReturns
  <1>2. entries' = entries /\ alive' = alive /\ reluctant' = reluctant /\ executing' = executing
        /\ attached' = attached \cup {calls[1].type} /\ inLifecycleCallback' = FALSE
    BY <1>1 DEF AttachReturns
  <1>3. calls' = <<>> /\ calls' \in Seq(Call) /\ Len(calls') <= MaxDepth /\ FlagInv' /\ HeldEntryStays'
        /\ Pending' = {}
    <2>1. executing' = FALSE /\ alive' /\ calls' = Front(calls) /\ inLifecycleCallback' = FALSE
      BY <1>1, <1>2 DEF AttachReturns
    <2> QED
      BY <1>1, <2>1, Left
  <1>4. calls[1].type \in Registered /\ calls[1].type \in Types
    BY <1>1, OneCall DEF Registered
  <1>5. TypeOK'
    BY <1>2, <1>3, <1>4 DEF IInv, TypeOK
  <1>6. UniqueInv'
    BY <1>2 DEF IInv, UniqueInv
  <1>7. PairInv'
    BY <1>1, <1>2, <1>3, <1>4 DEF IInv, PairInv, Registered
  <1> QED
    BY <1>3, <1>5, <1>6, <1>7 DEF IInv

LEMMA AttachThrowsStep ==
  ASSUME IInv, AttachThrows
  PROVE  IInv'
  <1>1. calls # <<>> /\ alive /\ executing = FALSE /\ Last(calls) = calls[1] /\ Pending = {calls[1].type}
    BY Lifecycle DEF AttachThrows
  <1>2. alive' = alive /\ reluctant' = reluctant /\ executing' = executing
        /\ attached' = attached /\ inLifecycleCallback' = FALSE
    BY DEF AttachThrows
  <1>3. calls' = <<>> /\ calls' \in Seq(Call) /\ Len(calls') <= MaxDepth /\ FlagInv' /\ HeldEntryStays'
        /\ Pending' = {}
    <2>1. executing' = FALSE /\ alive' /\ calls' = Front(calls) /\ inLifecycleCallback' = FALSE
      BY <1>1, <1>2 DEF AttachThrows
    <2> QED
      BY <1>1, <2>1, Left
  <1> DEFINE n == Len(entries)
  <1>4. calls[1].at = n /\ n \in DOMAIN entries /\ entries[n].type = calls[1].type
    BY <1>1, OneCall DEF IInv, HeldEntryStays, AttachThrows, Inside
  <1>5. entries \in Seq(Entry) /\ entries # <<>> /\ n \in Nat /\ DOMAIN entries = 1 .. n
    BY <1>4 DEF IInv, TypeOK
  <1>6. /\ entries' \in Seq(Entry) /\ Len(entries') = n - 1
        /\ \A i \in 1 .. n - 1 : entries'[i] = entries[i]
    BY <1>5, FrontOf DEF AttachThrows
  <1> HIDE DEF n
  <1>7. DOMAIN entries' = 1 .. n - 1
    BY <1>6
  <1>8. TypeOK'
    BY <1>2, <1>3, <1>6 DEF IInv, TypeOK
  <1>9. UniqueInv'
    BY <1>5, <1>6, <1>7 DEF IInv, UniqueInv
  <1>10. PairInv'
    <2>1. Registered' = Registered \ {calls[1].type}
      <3>1. \A i \in 1 .. n - 1 : entries[i].type # entries[n].type
        BY <1>5 DEF IInv, UniqueInv
      <3> QED
        BY <1>4, <1>5, <1>6, <1>7, <3>1 DEF Registered
    <2> QED
      BY <1>1, <1>2, <1>3, <2>1 DEF IInv, PairInv
  <1> QED
    BY <1>3, <1>8, <1>9, <1>10 DEF IInv

LEMMA RemoveStep ==
  ASSUME IInv, NEW type \in Types, RemoveSystem(type)
  PROVE  IInv'
  <1> DEFINE n == Found(type)
  <1>1. calls = <<>> /\ alive /\ alive' /\ attached' = attached \ {type} /\ reluctant' = reluctant
        /\ inLifecycleCallback' = TRUE /\ executing' = executing /\ ~executing /\ entries' = entries
    BY Idle DEF RemoveSystem, Accepts
  <1>2. n \in DOMAIN entries /\ entries[n].type = type /\ n \in Nat /\ entries[n].stage \in Stages
    BY FoundEntry, EntryTypes DEF RemoveSystem
  <1>3. /\ calls' \in Seq(Call) /\ Len(calls') = 1 /\ Len(calls') <= MaxDepth
        /\ calls' # <<>> /\ DOMAIN calls' = {1}
        /\ calls'[1].in = "onDetach" /\ calls'[1].type = type /\ calls'[1].at = n
    <2>1. /\ Enter("onDetach", type, n, entries[n].stage)
          /\ "onDetach" \in Callbacks /\ entries[n].stage \in Stages
      BY <1>2 DEF RemoveSystem, Callbacks
    <2> HIDE DEF n
    <2> QED
      BY <1>1, <1>2, <2>1, Entered
  <1>4. TypeOK'
    BY <1>1, <1>3 DEF IInv, TypeOK
  <1>5. FlagInv'
    BY <1>1, <1>3 DEF FlagInv, Running
  <1>6. UniqueInv'
    BY <1>1 DEF IInv, UniqueInv
  <1>7. HeldEntryStays'
    BY <1>1, <1>2, <1>3 DEF HeldEntryStays
  <1>8. PairInv'
    <2>1. Pending' = {type} /\ Pending = {} /\ Registered' = Registered
      BY <1>1, <1>3 DEF Pending, Running, Registered
    <2> QED
      BY <1>1, <2>1 DEF IInv, PairInv
  <1> QED
    BY <1>4, <1>5, <1>6, <1>7, <1>8 DEF IInv

LEMMA DetachReturnsStep ==
  ASSUME IInv, DetachReturns
  PROVE  IInv'
  <1> DEFINE at == calls[1].at
  <1> DEFINE n == Len(entries)
  <1>1. calls # <<>> /\ alive /\ executing = FALSE /\ Last(calls) = calls[1] /\ Pending = {calls[1].type}
    BY Lifecycle DEF DetachReturns
  <1>2. alive' = alive /\ reluctant' = reluctant \ {calls[1].type} /\ executing' = executing
        /\ attached' = attached /\ inLifecycleCallback' = FALSE /\ entries' = RemoveAt(entries, at)
    BY <1>1 DEF DetachReturns
  <1>3. calls' = <<>> /\ calls' \in Seq(Call) /\ Len(calls') <= MaxDepth /\ FlagInv' /\ HeldEntryStays'
        /\ Pending' = {}
    <2>1. executing' = FALSE /\ alive' /\ calls' = Front(calls) /\ inLifecycleCallback' = FALSE
      BY <1>1, <1>2 DEF DetachReturns
    <2> QED
      BY <1>1, <2>1, Left
  <1>4. /\ entries \in Seq(Entry) /\ n \in Nat /\ DOMAIN entries = 1 .. n
        /\ at \in 1 .. n /\ entries[at].type = calls[1].type
    BY <1>1, OneCall DEF IInv, TypeOK
  <1>5. /\ entries' \in Seq(Entry) /\ Len(entries') = n - 1
        /\ \A i \in 1 .. n - 1 : entries'[i] = IF i < at THEN entries[i] ELSE entries[i + 1]
    BY <1>2, <1>4, RemoveAtOf
  <1> HIDE DEF n, at
  <1> DEFINE was == [i \in 1 .. n - 1 |-> IF i < at THEN i ELSE i + 1]
  <1>6. /\ DOMAIN entries' = 1 .. n - 1
        /\ \A i \in 1 .. n - 1 : was[i] \in 1 .. n /\ was[i] # at
        /\ \A i, j \in 1 .. n - 1 : was[i] = was[j] => i = j
        /\ \A k \in 1 .. n : k = at \/ \E i \in 1 .. n - 1 : was[i] = k
    <2>1. DOMAIN entries' = 1 .. n - 1
      BY <1>5
    <2>2. \A i \in 1 .. n - 1 : was[i] \in 1 .. n /\ was[i] # at
      BY <1>4
    <2>3. \A i, j \in 1 .. n - 1 : was[i] = was[j] => i = j
      BY <1>4
    <2>4. ASSUME NEW k \in 1 .. n, k # at
          PROVE  \E i \in 1 .. n - 1 : was[i] = k
      <3>1. CASE k < at
        <4>1. k \in 1 .. n - 1 /\ was[k] = k
          BY <1>4, <3>1
        <4> QED
          BY <4>1
      <3>2. CASE ~(k < at)
        <4>1. k - 1 \in 1 .. n - 1 /\ ~(k - 1 < at) /\ (k - 1) + 1 = k
          BY <1>4, <2>4, <3>2
        <4> QED
          BY <4>1
      <3> QED
        BY <3>1, <3>2
    <2> HIDE DEF was
    <2> QED
      BY <2>1, <2>2, <2>3, <2>4
  <1>7. \A i \in 1 .. n - 1 : entries'[i] = entries[was[i]]
    BY <1>5
  <1> HIDE DEF was
  <1>8. TypeOK'
    BY <1>2, <1>3, <1>5 DEF IInv, TypeOK
  <1>9. UniqueInv'
    BY <1>4, <1>6, <1>7 DEF IInv, UniqueInv
  <1>10. PairInv'
    <2>1. Registered' = Registered \ {calls[1].type}
      <3>1. \A i \in 1 .. n : entries[i].type = calls[1].type <=> i = at
        BY <1>4 DEF IInv, UniqueInv
      <3>2. Registered' = {entries[was[i]].type : i \in 1 .. n - 1}
        BY <1>6, <1>7 DEF Registered
      <3>3. Registered = {entries[k].type : k \in 1 .. n}
        BY <1>4 DEF Registered
      <3>4. \A t \in Registered' : t \in Registered /\ t # calls[1].type
        BY <1>6, <3>1, <3>2, <3>3
      <3>5. \A t \in Registered : t # calls[1].type => t \in Registered'
        BY <1>6, <3>1, <3>2, <3>3
      <3> QED
        BY <3>4, <3>5
    <2> QED
      BY <1>1, <1>2, <1>3, <2>1 DEF IInv, PairInv
  <1> QED
    BY <1>3, <1>8, <1>9, <1>10 DEF IInv

LEMMA DetachThrowsStep ==
  ASSUME IInv, DetachThrows
  PROVE  IInv'
  <1>1. calls # <<>> /\ alive /\ executing = FALSE /\ Last(calls) = calls[1] /\ Pending = {calls[1].type}
    BY Lifecycle DEF DetachThrows
  <1>2. entries' = entries /\ alive' = alive /\ reluctant' = reluctant \cup {calls[1].type}
        /\ executing' = executing /\ attached' = attached /\ inLifecycleCallback' = FALSE
    BY <1>1 DEF DetachThrows
  <1>3. calls' = <<>> /\ calls' \in Seq(Call) /\ Len(calls') <= MaxDepth /\ FlagInv' /\ HeldEntryStays'
        /\ Pending' = {}
    <2>1. executing' = FALSE /\ alive' /\ calls' = Front(calls) /\ inLifecycleCallback' = FALSE
      BY <1>1, <1>2 DEF DetachThrows
    <2> QED
      BY <1>1, <2>1, Left
  <1>4. calls[1].type \in Types
    BY <1>1, OneCall
  <1>5. TypeOK'
    BY <1>2, <1>3, <1>4 DEF IInv, TypeOK
  <1>6. UniqueInv'
    BY <1>2 DEF IInv, UniqueInv
  <1>7. PairInv'
    BY <1>1, <1>2, <1>3 DEF IInv, PairInv, Registered
  <1> QED
    BY <1>3, <1>5, <1>6, <1>7 DEF IInv

LEMMA EnableStep ==
  ASSUME IInv, NEW type \in Types, NEW enabled \in BOOLEAN, SetSystemEnabled(type, enabled)
  PROVE  IInv'
  <1> DEFINE n == Found(type)
  <1>1. n \in DOMAIN entries
    BY FoundEntry DEF SetSystemEnabled
  <1>2. [entries[n] EXCEPT !.enabled = enabled] \in Entry
        /\ [entries[n] EXCEPT !.enabled = enabled].type = entries[n].type
    BY <1>1, EntryTypes DEF Entry
  <1>3. entries' = [entries EXCEPT ![n] = [entries[n] EXCEPT !.enabled = enabled]]
    BY DEF SetSystemEnabled
  <1> HIDE DEF n
  <1>4. entries' \in Seq(Entry) /\ Len(entries') = Len(entries) /\ DOMAIN entries' = DOMAIN entries
    BY <1>1, <1>2, <1>3 DEF IInv, TypeOK
  <1>5. \A i \in DOMAIN entries : entries'[i].type = entries[i].type
    BY <1>2, <1>3
  <1>6. UNCHANGED <<executing, inLifecycleCallback, calls, alive, attached, reluctant>>
    BY DEF SetSystemEnabled
  <1>7. TypeOK'
    BY <1>4, <1>6 DEF IInv, TypeOK
  <1>8. FlagInv'
    BY <1>6 DEF IInv, FlagInv, Running
  <1>9. UniqueInv'
    BY <1>4, <1>5 DEF IInv, UniqueInv
  <1>10. HeldEntryStays'
    BY <1>4, <1>5, <1>6 DEF IInv, HeldEntryStays
  <1>11. PairInv'
    <2>1. Registered' = Registered
      BY <1>4, <1>5 DEF Registered
    <2>2. Pending' = Pending
      BY <1>6 DEF Pending, Running
    <2>3. \A t \in attached : (\E i \in DOMAIN entries : i < calls[1].at /\ entries[i].type = t)
             => \E i \in DOMAIN entries' : i < calls[1].at /\ entries'[i].type = t
      BY <1>4, <1>5
    <2> QED
      BY <1>6, <2>1, <2>2, <2>3 DEF IInv, PairInv
  <1> QED
    BY <1>7, <1>8, <1>9, <1>10, <1>11 DEF IInv

\* The next entry that runs is an entry.
LEMMA NextRunEntry ==
  ASSUME IInv, NEW stage \in Stages, NEW i \in Nat, NextRun(stage, i) # 0
  PROVE  NextRun(stage, i) \in DOMAIN entries
  <1> DEFINE later == {j \in DOMAIN entries : j >= i /\ Runs(stage, j)}
  <1>1. later # {} /\ later \subseteq Nat /\ later \subseteq DOMAIN entries
    BY EntryTypes DEF NextRun
  <1>2. NextRun(stage, i) = CHOOSE j \in later : \A k \in later : j <= k
    BY <1>1 DEF NextRun
  <1> HIDE DEF later
  <1>3. \E j \in later : \A k \in later : j <= k
    BY <1>1, LeastOf
  <1> QED
    BY <1>1, <1>2, <1>3

LEMMA RunStep ==
  ASSUME IInv, NEW stage \in Stages, RunSystems(stage)
  PROVE  IInv'
  <1> DEFINE n == NextRun(stage, 1)
  <1>1. calls = <<>> /\ alive /\ UNCHANGED <<entries, inLifecycleCallback, alive, attached, reluctant>>
        /\ executing' = TRUE /\ inLifecycleCallback = FALSE /\ n # 0
    BY Idle DEF RunSystems, Accepts, IInv, TypeOK
  <1>2. n \in DOMAIN entries /\ n \in Nat /\ entries[n].type \in Types
    BY <1>1, NextRunEntry, EntryTypes
  <1>3. /\ calls' \in Seq(Call) /\ Len(calls') = 1 /\ Len(calls') <= MaxDepth
        /\ calls' # <<>> /\ DOMAIN calls' = {1}
        /\ calls'[1].in = "onUpdate" /\ calls'[1].type = entries[n].type /\ calls'[1].at = n
    <2>1. Enter("onUpdate", entries[n].type, n, stage) /\ "onUpdate" \in Callbacks
      BY <1>1 DEF RunSystems, Callbacks
    <2> HIDE DEF n
    <2> QED
      BY <1>1, <1>2, <2>1, Entered
  <1> HIDE DEF n
  <1>4. TypeOK'
    BY <1>1, <1>3 DEF IInv, TypeOK
  <1>5. FlagInv'
    BY <1>1, <1>3 DEF FlagInv, Running
  <1>6. UniqueInv'
    BY <1>1 DEF IInv, UniqueInv
  <1>7. HeldEntryStays'
    BY <1>1, <1>2, <1>3 DEF HeldEntryStays
  <1>8. PairInv'
    <2>1. Pending' = {} /\ Pending = {} /\ Registered' = Registered
      BY <1>1, <1>3 DEF Pending, Running, Registered
    <2> QED
      BY <1>1, <2>1 DEF IInv, PairInv
  <1> QED
    BY <1>4, <1>5, <1>6, <1>7, <1>8 DEF IInv

\* onUpdate runs in a manager that is alive, and nothing is pending.
LEMMA Updating ==
  ASSUME IInv, Inside("onUpdate")
  PROVE  /\ calls # <<>> /\ alive /\ executing = TRUE /\ inLifecycleCallback = FALSE
         /\ Last(calls) = calls[1] /\ calls[1].in = "onUpdate" /\ Pending = {}
  <1>1. calls # <<>> /\ Last(calls) = calls[1] /\ calls[1].in = "onUpdate"
    BY OneCall DEF Inside
  <1> QED
    BY <1>1 DEF IInv, TypeOK, FlagInv, Running, Pending

LEMMA UpdateEnds ==
  ASSUME IInv, Inside("onUpdate"), executing' = FALSE, calls' = Front(calls),
         UNCHANGED <<entries, inLifecycleCallback, alive, attached, reluctant>>
  PROVE  IInv'
  <1>1. /\ calls # <<>> /\ alive /\ inLifecycleCallback = FALSE /\ Pending = {}
    BY Updating
  <1>2. calls' = <<>> /\ calls' \in Seq(Call) /\ Len(calls') <= MaxDepth /\ FlagInv' /\ HeldEntryStays'
        /\ Pending' = {}
    BY <1>1, Left
  <1>3. TypeOK'
    BY <1>2 DEF IInv, TypeOK
  <1>4. UniqueInv' /\ PairInv'
    BY <1>1, <1>2 DEF IInv, UniqueInv, PairInv, Registered
  <1> QED
    BY <1>2, <1>3, <1>4 DEF IInv

LEMMA UpdateReturnsStep ==
  ASSUME IInv, UpdateReturns
  PROVE  IInv'
  <1> DEFINE n == NextRun(calls[1].stage, calls[1].at + 1)
  <1>1. /\ calls # <<>> /\ alive /\ executing = TRUE /\ inLifecycleCallback = FALSE
        /\ Last(calls) = calls[1] /\ calls[1].in = "onUpdate" /\ Pending = {}
    BY Updating DEF UpdateReturns
  <1>2. UNCHANGED <<entries, inLifecycleCallback, alive, attached, reluctant>>
    BY DEF UpdateReturns
  <1>3. CASE n = 0
    BY <1>1, <1>2, <1>3, UpdateEnds DEF UpdateReturns
  <1>4. CASE n # 0
    <2> DEFINE c == [calls[1] EXCEPT !.type = entries[n].type, !.at = n]
    <2>1. calls[1] \in Call /\ Front(calls) = <<>>
      BY <1>1, OneCall
    <2>2. n \in DOMAIN entries
      BY <1>4, <2>1, NextRunEntry DEF Call
    <2>3. n \in Nat /\ entries[n].type \in Types
      BY <2>2, EntryTypes
    <2>4. calls' = Append(Front(calls), c) /\ executing' = executing
      BY <1>1, <1>4 DEF UpdateReturns
    <2> HIDE DEF n
    <2>5. c \in Call /\ c.in = "onUpdate" /\ c.type = entries[n].type /\ c.at = n
      BY <1>1, <2>1, <2>3 DEF Call
    <2> HIDE DEF c
    <2>6. calls' = <<c>>
      BY <2>1, <2>4
    <2>7. /\ calls' \in Seq(Call) /\ Len(calls') = 1 /\ calls' # <<>> /\ DOMAIN calls' = {1}
          /\ calls'[1] = c
      BY <2>5, <2>6
    <2>8. TypeOK'
      BY <1>2, <2>4, <2>7, SystemsAssumption DEF IInv, TypeOK
    <2>9. FlagInv'
      BY <1>1, <1>2, <2>4, <2>5, <2>7 DEF FlagInv, Running
    <2>10. HeldEntryStays'
      BY <1>2, <2>2, <2>5, <2>7 DEF HeldEntryStays
    <2>11. Pending' = {} /\ Registered' = Registered
      BY <1>2, <2>5, <2>7 DEF Pending, Running, Registered
    <2>12. UniqueInv' /\ PairInv'
      BY <1>1, <1>2, <2>11 DEF IInv, UniqueInv, PairInv
    <2> QED
      BY <2>8, <2>9, <2>10, <2>12 DEF IInv
  <1> QED
    BY <1>3, <1>4

-----------------------------------------------------------------------------
\* The destructor tells entry number at, and those after it are told.
LEMMA ShutdownStep ==
  ASSUME IInv, NEW at \in 0 .. Len(entries), Shutdown(at),
         alive' = FALSE, inLifecycleCallback' = TRUE, UNCHANGED <<executing, reluctant>>, executing = FALSE,
         \A t \in attached : \E i \in DOMAIN entries : i <= at /\ entries[i].type = t
  PROVE  IInv'
  <1>1. CASE at = 0
    <2>1. entries' = <<>> /\ calls' = <<>> /\ attached' = attached
      BY <1>1 DEF Shutdown
    <2>2. attached = {}
      BY <1>1, EntryTypes
    <2>3. entries' \in Seq(Entry) /\ calls' \in Seq(Call) /\ Len(calls') = 0
          /\ DOMAIN entries' = {} /\ DOMAIN calls' = {}
      BY <2>1
    <2>4. TypeOK'
      <3>1. Len(calls') <= MaxDepth
        BY <2>3, SystemsAssumption
      <3> QED
        BY <2>1, <2>2, <2>3, <3>1 DEF IInv, TypeOK
    <2>5. FlagInv'
      BY <2>1, <2>3 DEF FlagInv, Running
    <2>6. UniqueInv' /\ HeldEntryStays' /\ PairInv'
      BY <2>1, <2>2, <2>3 DEF UniqueInv, HeldEntryStays, PairInv
    <2> QED
      BY <2>4, <2>5, <2>6 DEF IInv
  <1>2. CASE at # 0
    <2> DEFINE c == [in |-> "shutdown", type |-> entries[at].type, at |-> at, stage |-> entries[at].stage]
    <2>1. at \in DOMAIN entries /\ at \in Nat
      BY <1>2, EntryTypes
    <2>2. calls' = <<c>> /\ entries' = entries /\ attached' = attached \ {entries[at].type}
      BY <1>2 DEF Shutdown
    <2>3. c \in Call /\ c.in = "shutdown" /\ c.type = entries[at].type /\ c.at = at
      BY <2>1, EntryTypes DEF Call, Callbacks
    <2> HIDE DEF c
    <2>4. /\ calls' \in Seq(Call) /\ Len(calls') = 1 /\ calls' # <<>> /\ DOMAIN calls' = {1}
          /\ calls'[1] = c
      BY <2>2, <2>3
    <2>5. TypeOK'
      <3>1. Len(calls') <= MaxDepth
        BY <2>4, SystemsAssumption
      <3> QED
        BY <2>2, <2>4, <3>1 DEF IInv, TypeOK
    <2>6. FlagInv'
      BY <2>3, <2>4 DEF FlagInv, Running
    <2>7. UniqueInv'
      BY <2>2 DEF IInv, UniqueInv
    <2>8. HeldEntryStays'
      BY <2>1, <2>2, <2>3, <2>4 DEF HeldEntryStays
    <2>9. ASSUME NEW t \in attached'
          PROVE  \E i \in DOMAIN entries : i < at /\ entries[i].type = t
      <3>1. PICK i \in DOMAIN entries : i <= at /\ entries[i].type = t
        BY <2>2
      <3>2. i # at
        BY <2>2, <3>1
      <3> QED
        BY <3>1, <3>2, EntryTypes
    <2>10. PairInv'
      BY <2>2, <2>3, <2>4, <2>9 DEF PairInv
    <2> QED
      BY <2>5, <2>6, <2>7, <2>8, <2>10 DEF IInv
  <1> QED
    BY <1>1, <1>2

LEMMA DestroyManagerStep ==
  ASSUME IInv, Destroy
  PROVE  IInv'
  <1>1. calls = <<>> /\ alive /\ executing = FALSE
    BY DEF Destroy, IInv, TypeOK, FlagInv, Running
  <1>2. ASSUME NEW t \in attached
        PROVE  \E i \in DOMAIN entries : i <= Len(entries) /\ entries[i].type = t
    BY <1>1, EntryTypes DEF IInv, PairInv, Registered
  <1>3. Len(entries) \in 0 .. Len(entries)
    BY EntryTypes
  <1> QED
    BY <1>1, <1>2, <1>3, ShutdownStep DEF Destroy

LEMMA ShutdownNextStep ==
  ASSUME IInv, ShutdownNext
  PROVE  IInv'
  <1> DEFINE at == calls[1].at
  <1>1. calls # <<>> /\ Last(calls) = calls[1] /\ calls[1].in = "shutdown" /\ at \in DOMAIN entries
    BY OneCall DEF ShutdownNext, Inside
  <1>2. alive = FALSE /\ executing = FALSE /\ inLifecycleCallback = TRUE
    BY <1>1 DEF IInv, TypeOK, FlagInv, Running
  <1>3. at \in 1 .. Len(entries) /\ DOMAIN entries = 1 .. Len(entries) /\ Len(entries) \in Nat
    BY <1>1, EntryTypes
  <1>4. \A t \in attached : \E i \in DOMAIN entries : i < at /\ entries[i].type = t
    BY <1>1, <1>2 DEF IInv, PairInv
  <1>5. Shutdown(at - 1) /\ UNCHANGED <<executing, inLifecycleCallback, alive, reluctant>>
    BY <1>1 DEF ShutdownNext
  <1> HIDE DEF at
  <1>6. at - 1 \in 0 .. Len(entries)
    BY <1>3
  <1>7. \A t \in attached : \E i \in DOMAIN entries : i <= at - 1 /\ entries[i].type = t
    BY <1>3, <1>4
  <1> QED
    BY <1>2, <1>5, <1>6, <1>7, ShutdownStep

LEMMA StutterStep ==
  ASSUME IInv, UNCHANGED vars
  PROVE  IInv'
  BY DEF vars, IInv, TypeOK, FlagInv, Running, UniqueInv, HeldEntryStays, PairInv, Registered, Pending

-----------------------------------------------------------------------------
LEMMA InitIInv == Init => IInv
  <1> SUFFICES ASSUME Init PROVE IInv
    OBVIOUS
  <1>1. entries \in Seq(Entry) /\ calls \in Seq(Call) /\ Len(calls) = 0 /\ DOMAIN entries = {} /\ DOMAIN calls = {}
    BY DEF Init
  <1>2. TypeOK
    <2>1. Len(calls) <= MaxDepth
      BY <1>1, SystemsAssumption
    <2> QED
      BY <1>1, <2>1 DEF Init, TypeOK
  <1>3. FlagInv
    BY <1>1 DEF Init, FlagInv, Running
  <1>4. UniqueInv /\ HeldEntryStays /\ PairInv
    BY <1>1 DEF Init, UniqueInv, HeldEntryStays, PairInv, Registered, Pending, Running
  <1> QED
    BY <1>2, <1>3, <1>4 DEF IInv

LEMMA NextIInv == IInv /\ [Next]_vars => IInv'
  <1> SUFFICES ASSUME IInv, [Next]_vars PROVE IInv'
    OBVIOUS
  <1>1. ASSUME NEW type \in Types,
               \/ RemoveSystem(type)
               \/ \E stage \in Stages : AddSystem(type, stage)
               \/ \E enabled \in BOOLEAN : SetSystemEnabled(type, enabled)
        PROVE  IInv'
    BY <1>1, RemoveStep, AddStep, EnableStep
  <1>2. CASE \E stage \in Stages : RunSystems(stage)
    BY <1>2, RunStep
  <1>3. CASE AttachReturns \/ AttachThrows \/ DetachReturns \/ DetachThrows
    BY <1>3, AttachReturnsStep, AttachThrowsStep, DetachReturnsStep, DetachThrowsStep
  <1>4. CASE UpdateReturns
    BY <1>4, UpdateReturnsStep
  <1>5. CASE UpdateThrows
    BY <1>5, UpdateEnds DEF UpdateThrows
  <1>6. CASE Destroy \/ ShutdownNext
    BY <1>6, DestroyManagerStep, ShutdownNextStep
  <1>7. CASE Destroyed \/ UNCHANGED vars
    BY <1>7, StutterStep DEF Destroyed
  <1> QED
    BY <1>1, <1>2, <1>3, <1>4, <1>5, <1>6, <1>7 DEF Next

\* The inductive invariant.
THEOREM Invariance == Spec => []IInv
  BY InitIInv, NextIInv, PTL DEF Spec

(***************************************************************************)
(* The entry a call in progress holds on to is still there and still that    *)
(* system's, whatever the callbacks call.                                    *)
(***************************************************************************)
THEOREM EntrySafety == Spec => []HeldEntryStays
  <1>1. IInv => HeldEntryStays
    BY DEF IInv
  <1> QED
    BY <1>1, Invariance, PTL

(***************************************************************************)
(* The registered systems are those that were attached and not told to       *)
(* detach, but for the pending one and the reluctant; in the end all were.   *)
(***************************************************************************)
THEOREM PairingSafety == Spec => []AttachDetachPaired
  <1>1. IInv => AttachDetachPaired
    <2> SUFFICES ASSUME IInv PROVE AttachDetachPaired
      OBVIOUS
    <2>1. Pending \subseteq {calls[i].type : i \in DOMAIN calls}
      <3>1. calls # <<>> => 1 \in DOMAIN calls
        BY DEF IInv, TypeOK
      <3> QED
        BY <3>1 DEF Pending, Running
    <2> QED
      BY <2>1 DEF IInv, PairInv, AttachDetachPaired
  <1> QED
    BY <1>1, Invariance, PTL

================================================================================
