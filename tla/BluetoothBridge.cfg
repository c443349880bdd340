CONSTANTS
  Callers = {c1, c2}
  Devices = {d1}
  Methods = {"register", "unregister", "discovery-start", "connect"}
  MaxRequests = 3
  MaxInbox = 1
SPECIFICATION Spec
INVARIANTS
  AnswersAreFresh
  BridgesAgree
PROPERTIES
  ConfirmedByRadio
SYMMETRY Symmetry
