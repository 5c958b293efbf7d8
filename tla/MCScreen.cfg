SPECIFICATION Spec
CONSTANTS
  ENTRIES = 2
  MMIO_PAGES = 1
  el0_start <- MCEl0Start
  el0_end <- MCEl0End
  COLS = 2
  ROWS = 3
  Glyphs = {"a", ".", "%", "?"}
  OtherChars = {"tab"}
  CMD_MAX_LEN = 6
  Banner <- MCBanner
  Prompt <- MCPrompt
  Unknown <- MCUnknown
  ClearLine <- MCClear
  Texts <- MCTexts
  Displays <- MCDisplays
  fb_phys <- MCFbPhys
  MaxKeys = 6
INVARIANTS
  Confined
  DrawsOnScreen
  ScreenShowsOutput
  LineShown
CHECK_DEADLOCK FALSE
