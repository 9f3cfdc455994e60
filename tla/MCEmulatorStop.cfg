SPECIFICATION FairSpec
CONSTANTS
  Users = {ui, net}
  Frontend = ui
  Emu = emu
  Ops = {"lock", "load", "stop"}
PROPERTY
  StopReturns
CHECK_DEADLOCK FALSE
