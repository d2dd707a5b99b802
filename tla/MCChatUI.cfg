CONSTANTS
  earlier = earlier
  other = other
  gateway = gateway
  added = added
  another = another
  auto = auto
  big = big
  None = None
  Chats <- MCChats
  Earlier = earlier
  MaxTasks = 3
  MaxRuns = 2
  MaxTokens = 1
  MaxNow = 3
  Gateway = gateway
  Added = {added, another}
  ModelNames = {auto, big}
  AutoModel = auto
  Scenes <- MCScenes
SPECIFICATION PageSpec
INVARIANTS
  TypeOK
  StopReachesTheRun
  WhatStreamedInIsKept
  SidebarShowsWhatIsStored
  ScreenIsKept
  ActiveIsConfigured
  PickerIsServed
