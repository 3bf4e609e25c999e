SPECIFICATION FairSpec
CONSTANTS
  Addrs = {a1}
  Ports <- TwoPorts
  Requests = 4
  Conns = {c1}
INVARIANTS CancelReleases OpenAnnounced AnswersInOrder EveryListenerTracked
PROPERTIES EveryRequestAnswered
CHECK_DEADLOCK FALSE
