\* The sender starts again while its numbers are still inside the first window.
SPECIFICATION Spec
CONSTANTS
  Window = 4
  Modulus = 16
  MaxSent = 50
  MaxLag = 3
  MaxJump = 9
  MaxRestarts = 1
  QuickRestart = TRUE
INVARIANTS RestartAccepted
