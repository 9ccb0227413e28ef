\* One socket, two agents: rosters, deletes, refusals, and the watcher's repair
\* with a registry that answers.
CONSTANTS
  c1 = c1
  c2 = c2
  k1 = k1
  Connections = {c1}
  Keys = {k1}
  KeyOf <- OneIdentity
  Names = {1, 2}
  None = None
  DbMayFail = FALSE
  MaxOutbound = 1
SPECIFICATION FairSpec
INVARIANTS
  TypeOK
  PublishedIsServed
PROPERTIES
  CardsFollowTheRoster
  NoRosterStaysInvisible
CHECK_DEADLOCK FALSE
