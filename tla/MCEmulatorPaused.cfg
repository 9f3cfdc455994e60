SPECIFICATION Spec
CONSTANTS
  Users = {ui, net}
  Frontend = ui
  Emu = emu
  Ops = {"load", "action"}
INVARIANT
  ThreadPausedTruly
