--------------------------- MODULE MCAssetReconcile ---------------------------
(* A container and a texture: either content of the first suggests another   *)
(* value for the setting of the second; without the first there is none.  The *)
(* user may write an allowed value, or one the importer does not know.        *)
EXTENDS AssetReconcile

\* Both are there, or neither.
MCStart == {[p \in {} |-> 0], [p \in Paths |-> 1]}

MCSuggestions ==
  {[publisher |-> 1, content |-> 1, target |-> 2, value |-> "linear"],
   [publisher |-> 1, content |-> 2, target |-> 2, value |-> "srgb"]}
===============================================================================
