\* Every kind of step, both modes, with and without a role; anything may disappear at any time.
SPECIFICATION FairProvisioning
CONSTANT Tables <- MCTables
PROPERTIES SuccessMeansEach Recreated StartServes
