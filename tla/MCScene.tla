-------------------------------- MODULE MCScene --------------------------------
(* Scene for TLC.  The documents, under all names: a chain listed from its     *)
(* leaf to its root, and three that must be refused (a missing parent, two    *)
(* entities of one UUID, a cycle).                                            *)
EXTENDS Scene, TLC

CONSTANTS i1, i2, i3, i4

MCLocals == {<<>>, <<"a">>}

Symmetric == Permutations(Ids)

Entry(id, parent_id, local) == [id |-> id, parent_id |-> parent_id, local |-> local]

MCDocuments ==
  UNION {{<<Entry(p[i3], p[i2], <<"a">>), Entry(p[i2], p[i1], <<>>), Entry(p[i1], NoId, <<"a">>)>>,
          <<Entry(p[i1], NoId, <<>>), Entry(p[i2], p[i3], <<>>)>>,
          <<Entry(p[i1], NoId, <<>>), Entry(p[i1], NoId, <<"a">>)>>,
          <<Entry(p[i1], p[i2], <<>>), Entry(p[i2], p[i1], <<>>)>>} :
         p \in Symmetric}

\* bound: with all UUIDs in use the transforms are identities.
Few == \/ DOMAIN registry # Ids
       \/ \A e \in Ids : LET entity == registry[e]
                         IN  <<entity.local, entity.cache.local, entity.cache.world>> = <<<<>>, <<>>, <<>>>>
================================================================================
