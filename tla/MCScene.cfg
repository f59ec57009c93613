CONSTANTS
  i1 = i1
  i2 = i2
  i3 = i3
  i4 = i4
  Ids = {i1, i2, i3, i4}
  NoId = NoId
  Locals <- MCLocals
  Documents <- MCDocuments
  MaxWorld = 3
SPECIFICATION SceneSpec
SYMMETRY Symmetric
CONSTRAINT Few
INVARIANTS HierarchyIsForest LocalEditsPropagate LoadedIsCurrent
PROPERTIES DuplicateIsSibling
