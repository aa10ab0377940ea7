SPECIFICATION Spec
CONSTANTS
  Windows <- TwoWindows
  ClassOf <- TwoClasses
  Desktops = {"d1", "d2"}
  Configs <- SomeConfigs
  Foreign <- OtherLists
  Fresh <- AnyLists
  MaxTurns = 2
  MaxEvents <- FewEvents
INVARIANT KeyboardTypeOK
INVARIANT BackToTheSameLayout
INVARIANT ListensFollowPolicy
ACTION_CONSTRAINT Relevant
CHECK_DEADLOCK FALSE
