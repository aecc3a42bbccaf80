SPECIFICATION Spec
CONSTANTS
  Polls = {poller, refresh}
  Poller = poller
  Checks = {"web", "postgres"}
PROPERTIES
  NoneHoldsUpTheOthers
