CONSTANTS
  Channels = 2
  Groups = 1
SPECIFICATION TopicsSpec
PROPERTY
  Resubscribes
CHECK_DEADLOCK FALSE
