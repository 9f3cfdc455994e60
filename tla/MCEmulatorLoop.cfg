SPECIFICATION Spec
CONSTANTS
  Users = {ui, net}
  Frontend = ui
  Emu = emu
  Ops = {"lock", "load", "stop", "pause", "resume", "advance", "action"}
INVARIANTS
  UsersExcludeFrames
  ReleasesHeldLock
  FrameHasConsole
  FramesOverrun
CHECK_DEADLOCK FALSE
