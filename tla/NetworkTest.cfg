SPECIFICATION Spec
CONSTANTS
  Hosts = {0, 1}
  NULL = NULL
  Users = {"test", "chat"}
  numBoxes = 3
  Reliable = FALSE
  SendFormat = "%d_0"
  ChatHosts = {0}
  MaxChat = 2
INVARIANTS MailExact OrderKept WakeupsExact AckMeansReceived
PROPERTY TestCompletes
CHECK_DEADLOCK FALSE
