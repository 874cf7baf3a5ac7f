SPECIFICATION Spec
CONSTANTS
  Hosts = {0, 1}
  NULL = NULL
  Users = {"test", "chat"}
  numBoxes = 3
  Reliable = TRUE
  SendFormat = "SOCKET_%d"
  ChatHosts = {}
  MaxChat = 0
PROPERTY ReliableTestEnds
CHECK_DEADLOCK FALSE
