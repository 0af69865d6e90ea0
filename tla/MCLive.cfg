\* What must happen in the end; one component a behaviour.
SPECIFICATION SumSpec
CONSTANTS
  Explored = {"udp", "ann", "krpc", "meta", "mag", "up", "swarm", "wire", "session", "feed", "web", "desk", "window"}
  NoEngine = NoEngine
PROPERTIES
  EveryQuestionEnds
  NoPeerIsForgotten
  WhatWasBegunEnds
CHECK_DEADLOCK FALSE
