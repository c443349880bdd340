CONSTANTS
  MaxInbox = 1
  Asked = {"start", "stop", "launch-app", "developer-on", "developer-off"}
SPECIFICATION FairSpec
INVARIANTS
  DesktopsApart
  ListenersPause
PROPERTIES
  HeadsetReturns
