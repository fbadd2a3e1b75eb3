\* Values in and above the range of a control; two plugins of either kind.
SPECIFICATION ControlsSpec
CONSTANTS
  plain = plain
  model = model
  missing = missing
  Kinds <- TwoKinds
  Ports <- SomePorts
  Library <- SomePresets
  Lo = 0
  Hi = 1
  Default = 1
  FileValues = {0, 2}
  NoName = NoName
  Nothing = Nothing
  Garbage = {"value", "ATOM"}
  MaxPlugins = 2
INVARIANTS
  ControlsTypeOK
  ShownIsPlayed
  LoadedIsPlayed
CHECK_DEADLOCK FALSE
