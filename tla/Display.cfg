SPECIFICATION Spec
CHECK_DEADLOCK FALSE
CONSTANTS
  Width = 3
  Height = 8
  GlyphW = 1
  GlyphH = 2
  Modes <- MCModes
  Inset = 1
  TabStop = 2
  Texts <- MCTexts
  BarTexts <- MCBarTexts
  Image = "a"
  IdxWrap = 4
  MaxFrames = 3
  MaxFailures = 2
INVARIANTS TypeOK ScreenIsCurrent
PROPERTY ImplementsTerminal
