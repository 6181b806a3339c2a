SPECIFICATION DnsSpec
CONSTANTS
  Looks = {l1, l2}
  NServers = 2
  Setups <- SomeSetups
  Answers <- SomeAnswers
  Default = 2
  Timeout = 1
SYMMETRY Symmetry
INVARIANTS AnswerIsCurrent EveryServerAsked
