\* As in MCControls.cfg, for what is saved and loaded again.
SPECIFICATION ControlsSpec
CONSTANTS
  plain = plain
  model = model
  missing = missing
  Kinds <- TwoKinds
  Ports <- SomePorts
  Library <- SomePresets
  Lo = 0
  Hi = 1
  Default = 1
  FileValues = {0, 2}
  NoName = NoName
  Nothing = Nothing
  Garbage = {"value", "LV2_ATOM"}
  MaxPlugins = 2
PROPERTY
  SavedIsRestored
CHECK_DEADLOCK FALSE
