\* Two writers of a one-byte and a two-byte command, a buffer of three bytes.
SPECIFICATION FairSpec
CONSTANTS
  Clients = {"a", "b"}
  Bytes = {"solenoid", "switch", "off"}
  Strings <- MCStrings
  CAPACITY = 3
INVARIANTS ControllerNotOverrun WaitingIsFresh
PROPERTIES ImplementsTrainLine OutputGoesOn
