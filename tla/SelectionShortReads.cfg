\* Valid visitors of the server program.
SPECIFICATION Spec
CONSTANTS
  Hellos <- ValidHellos
  Configs <- OpenSocks
  ByteMod = 8
CHECK_DEADLOCK FALSE
INVARIANTS ResetOnlyIfClosed
