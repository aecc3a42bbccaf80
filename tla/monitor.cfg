SPECIFICATION Spec
CONSTANTS
  Polls = {poller, refresh}
  Poller = poller
  Checks = {"web", "postgres", "neo4j"}
PROPERTIES
  LastingStateIsShown
