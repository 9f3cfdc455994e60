SPECIFICATION RunningSpec
CONSTANTS
  Users = {ui, net}
  Frontend = ui
  Emu = emu
  Ops = {"lock", "pause", "resume", "advance", "action"}
PROPERTIES
  LockGranted
  PauseTakesEffect
  ResumeTakesEffect
