SPECIFICATION Spec
CONSTANTS
  a = a  b = b  other = other  edit = edit  edit2 = edit2  page = page  transient = transient  none = none
  Hosts = {a, b}
  Outside = other
  Edits = {edit, edit2}
  Pages = {page}
  Transients = {transient}
  NoDoc = none
  MaxSwitches = 4
  MaxFocus = 3
  MaxKeys = 2
  MaxStarts = 2
  Faults = {}
  Banded = {a, b}
SYMMETRY FocusSymmetry
INVARIANTS  FocusedIsServed ToolbarOnlyServed NoMixing InputKept
CHECK_DEADLOCK FALSE
