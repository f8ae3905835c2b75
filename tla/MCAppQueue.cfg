CONSTANTS
  Senders = {timer, stack}
  Msgs = {mainloop, unprov}
  NoMsg = NoMsg
  IoSize = 3
  GapSize = 2
  MeshSize = 1
SPECIFICATION FairSpec
INVARIANTS
  TokensMatchMessages
PROPERTIES
  MessageHandled
