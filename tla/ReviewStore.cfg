SPECIFICATION Spec
CONSTANTS
  NPages = 2
  Catalogues <- MCCatalogues
  ClassOf <- MCClassOf
  MaxImages = 1
  MaxTakes = 2
  MaxDecisions = 2
  MaxFaults = 2
INVARIANTS ReleaseIsPermitted
PROPERTIES StepsArePermitted PublishedGetsRegistered
CHECK_DEADLOCK FALSE
