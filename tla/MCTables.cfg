SPECIFICATION Spec
CONSTANTS
  PatBodies <- MCPatBodies
  PmtPids = {50, 51}
  PcrPids = {60}
  VctIds = {200, 201}
  VctBodies = {"a", "b"}
  FirstVersions = {6}
  MaxChanges = 2
INVARIANT TypeOK
INVARIANT PatFits
INVARIANT TablesFollow
