SPECIFICATION Spec
CONSTANTS
  Threads = {emu, ui}
  NoThread = none
  Listeners = {a, b}
  NoListener = nil
  MaxNesting = 2
INVARIANTS
  TypeOK
  LoneSendDelivers
  LoneCallbackAlive
PROPERTY
  RegistrationKept
