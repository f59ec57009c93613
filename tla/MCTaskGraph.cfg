SPECIFICATION FairSpec
CONSTANT MaxNodes = 4
CHECK_DEADLOCK FALSE
INVARIANTS DependenciesRespected StorageAlive
PROPERTIES GraphFutureSpec GraphCompletes
