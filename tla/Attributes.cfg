\* A rune, a torch and a vial: an attribute that is set is there.
CONSTANTS
  Samples = {rune, torch, vial}
  Charged = {rune}
  Timed = {torch}
  Liquid = {vial}
  Numbers = {0, 1}
SPECIFICATION AttributesSpec
INVARIANT SetIsKept
CHECK_DEADLOCK FALSE
