\* One command, dialling or answering, against everything outside it.
SPECIFICATION FairSpec
INVARIANTS
  TypeInv
  TalkIsHungUp
PROPERTIES
  HangupIsNoticed
  CtrlCEndsCommand
CHECK_DEADLOCK FALSE
