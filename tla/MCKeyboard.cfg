SPECIFICATION KeyboardSpec
CONSTANTS
  keymap_us_lower <- MCLower
  keymap_us_upper <- MCUpper
  Codes = {28, 30, 330}
  QUEUE_SIZE = 4
INVARIANTS
  ReadAsTyped
