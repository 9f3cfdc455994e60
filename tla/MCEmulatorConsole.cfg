SPECIFICATION Spec
CONSTANTS
  Users = {ui, net}
  Frontend = ui
  Emu = emu
  Ops = {"lock", "load", "stop"}
PROPERTY
  ConsoleStaysInside
CHECK_DEADLOCK FALSE
