CONSTANTS
  MaxInbox = 1
  Asked = {"start", "stop"}
SPECIFICATION FairSpec
PROPERTIES
  LogoutReturnsToSteam
