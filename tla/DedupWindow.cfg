\* Numbers wrap three times in a model of 16; slow restarts only.
SPECIFICATION Spec
CONSTANTS
  Window = 4
  Modulus = 16
  MaxSent = 50
  MaxLag = 3
  MaxJump = 9
  MaxRestarts = 1
  QuickRestart = FALSE
INVARIANTS TypeOK JudgesExactly BitmapIsWindow
