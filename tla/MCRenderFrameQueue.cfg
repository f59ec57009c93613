SPECIFICATION FairSpec
CONSTANTS
  SlotCount = 2
  MaxFrames = 5
CHECK_DEADLOCK FALSE
INVARIANTS NoSharedSlot NoLostWakeup
PROPERTIES ChannelSpec PublishedFramesArrive ShutdownReleases
