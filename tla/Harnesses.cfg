SPECIFICATION BermSpec
CONSTANTS
  w1 = w1
  w2 = w2
  a1 = a1
  none = none
  in = in
  out = out
  Workers <- TwoWorkers
  Agents <- OneAgent
  Configs <- TwoConfigs
  Sessions <- ThreeRoots
  NoRoot <- none
  Inside <- OneInside
  Manifest <- TwoImages
  MaxChanges = 1
  MaxSiblings <- TwoDeep
CHECK_DEADLOCK FALSE
INVARIANTS ImagesFit GuestsActForTheirRun
PROPERTIES ToolCallsReturn
