---------------------------- MODULE MCAssetDatabase ----------------------------
(* A texture that may come to depend on a box's material, and whose importer  *)
(* may give it a local id twice; the box may also have a prefab made of the   *)
(* material, which then depends on the texture.  The cube is an Engine asset. *)
EXTENDS AssetDatabase
Output(local, refs) == [local |-> local, refs |-> refs]
MCProducts ==
  [tex |-> {<<Output("", <<>>)>>, <<Output("", <<<<"box", "mat">>>>)>>,
            <<Output("", <<>>), Output("", <<>>)>>},
   box |-> {<<Output("mat", <<>>)>>,
            <<Output("mat", <<<<"tex", "">>>>),
              Output("prefab", <<<<"box", "mat">>>>)>>}]
MCEngineSource == 4 :> "cube"
Record1(handle, local, dependencies) ==
  [handle |-> handle, local |-> local, dependencies |-> dependencies]
\* What an earlier session imported.
MCRecorded ==
  [tex |-> {Record1(1, "", <<>>)}, box |-> {Record1(2, "mat", <<>>)}]
================================================================================
