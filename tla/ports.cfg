SPECIFICATION Spec
CONSTANTS
  Run <- MCRun
  Impls <- MCImpls
  Parents <- MCParents
  BasePort = 2
  DefaultStart = 2
  DefaultEnd = 3
  MaxPort = 4
INVARIANTS
  TypeOK
  BootstrapReachesPeer
PROPERTY NoContention
