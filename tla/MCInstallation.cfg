SPECIFICATION InstallSpec
CONSTANTS
  i1 = i1
  i2 = i2
  v1 = v1
  v2 = v2
  Installer = {i1, i2}
  Release = {v1, v2}
  ReleaseOf <- MCReleaseOf
  NamesServer = {v2}
  Overlapping = {"access", "mcp"}
  Retries = 2
  MaxRuns = 2
  MaxFaults = 1
INVARIANTS
  SoloRunWins
  DoneMeansInstalled
PROPERTY
  InstallCompletes
