SPECIFICATION Spec
CONSTANTS
  BlockSlots = 4
  Granularity = 8
  MaxRange = 16
  MinApp = 4
  MaxApp = 70
  Taken <- MCTaken
  Refused <- MCRefused
  Main = main
  main = main
  other = other
  third = third
  Threads = {main, other, third}
  Uses <- MCUses
  Crowd <- MCCrowd
  NoThread = nobody
  Fns <- MCFns
  NoFn = none
  FnCode <- MCFnCode
  Address <- MCAddress
  Executable = {"free", "unload", "exit"}
  InitialCapacity = 1
  MaxFails = 1
  Heap <- MCHeap
  Modules <- MCModules
  Exit <- MCExit
  MaxCalls = 3
CHECK_DEADLOCK FALSE
INVARIANTS HooksTypeOK SlotsMatchHooks PatchedIffEnabled ExitCanBeCalled RecordingIntercepts UnhookRestores
PROPERTIES NobodyInPatchedBytes ReleasedToStragglersOnly Thawed
