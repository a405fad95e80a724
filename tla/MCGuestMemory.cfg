SPECIFICATION ContractSpec
CONSTANTS
  Frames = {0, 1, 2, 3}
  MaxMaps = 3
  GuestFrames = {0, 1}
  Ranges <- MCRanges
  NoRange = NoRange
INVARIANTS
  NoForbiddenMapping
  FramesHaveOneOwner
  FreedFramesUnreachable
PROPERTY
  TranslationKept
CHECK_DEADLOCK FALSE
