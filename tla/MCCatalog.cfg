SPECIFICATION Spec
CONSTANTS
  c1 = c1
  c2 = c2
  n1 = n1
  n2 = n2
  Home = Home
  NoCluster = NoCluster
  Cluster <- MCCluster
  Namespace <- MCNamespace
  PathOf <- MCPathOf
  Producer = {"p"}
  Claims = {"none", "secrets"}
  MaxChanges = 1
  MaxRestarts = 1
INVARIANTS
  CatalogInv
  
PROPERTIES
  CatalogSettles
CHECK_DEADLOCK FALSE
