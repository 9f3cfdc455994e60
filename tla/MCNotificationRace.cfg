SPECIFICATION Spec
CONSTANTS
  Threads = {emu, ui}
  NoThread = none
  Listeners = {a, b, c}
  NoListener = nil
  MaxNesting = 1
INVARIANT
  SendDelivers
