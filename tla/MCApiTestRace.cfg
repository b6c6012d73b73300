SPECIFICATION Spec
CONSTANTS
  c1 = c1
  c2 = c2
  p1 = p1
  NoToken = NoToken
  Calls <- MCCalls
  Asks <- MCAsks
  Setups <- MCSetups
  Answers <- MCAnswers
CHECK_DEADLOCK FALSE
INVARIANT TokenAttached
