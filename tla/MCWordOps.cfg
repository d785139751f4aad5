CONSTANTS
  W = 3
  DIR_MAP_AREA = 4
  MaxFrames = 2
  Amounts <- MC_Amounts
SPECIFICATION Spec
INVARIANT TypeOK
INVARIANT InUserSpaceIffBelowMapArea
PROPERTY FramesNeverWrap
