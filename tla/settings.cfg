SPECIFICATION MCSpec
CONSTANTS
  Setters = {p1, p2}
  Patches <- MCPatches
  IdPatches <- MCIdPatches
  Stored <- MCStored
  UndoChoices = {5, 10}
  OptChoices = {"default", "a"}
  MaxLabels = 2
  MaxFolders = 2
  MaxItems = 1
  MaxBytes = 1
  MinDepth = 2
  MaxDepth = 4
  DefaultUndo = 10
  MaxPuts = 2
  Addr = {a1}
  Handlers = {h1, h2}
  Users = {"u1"}
  MaxSets <- MCMaxSets
  MaxEdits = 2
  maxForwardingAddresses = 2
  NoAddr = NoAddr
SYMMETRY SettingsSymmetry
INVARIANTS
  PrefsSafe
  SieveSafe
PROPERTIES
  SettingsSteps
CHECK_DEADLOCK FALSE
