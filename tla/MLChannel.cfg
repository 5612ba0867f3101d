SPECIFICATION ChannelSpec
CHECK_DEADLOCK FALSE
CONSTANTS
  Backends = {b1, b2}
  Kinds = {facts, hammer}
  Forked = {hammer}
  Definitional = {hammer}
  MaxVersion = 2
  MaxSends = 3
  Nothing = Nothing
INVARIANTS
  AnswerFresh
  NothingUnderWay
