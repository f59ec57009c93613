SPECIFICATION ReconcileSpec
CONSTANTS
  Paths = {1, 2}
  Contents = {1, 2}
  Values = {"srgb", "linear"}
  Authored = {"linear", "gamma"}
  Default = "srgb"
  Suggestions <- MCSuggestions
  Start <- MCStart
  MaxHandles = 2
  MaxEdits = 2
  MaxFailures = 1
INVARIANTS CatalogIsMetadata LibraryCurrent InferredConverges
PROPERTIES IdentityKept
