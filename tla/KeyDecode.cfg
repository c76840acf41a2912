CONSTANTS
  MaxHeld = 3
  MaxCodes = 2
SPECIFICATION Spec
INVARIANTS
  FlagsFollowKeys
  KeysAsPressed
