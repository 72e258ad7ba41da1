SPECIFICATION Spec
CONSTANTS
  u1 = u1
  u2 = u2
  u3 = u3
  o1 = o1
  o2 = o2
  Users <- ThreeUsers
  Objects <- TwoObjects
  ObjectOwner <- TwoOwners
  AddRoles = {"member"}
  SyncLimit = 1
  MaxVersion = 3
  MaxInFlight = 1
INVARIANTS
  LabelsAreTrue
  RemovedLostTheMaster
  OwnerIsMember
PROPERTIES
  RotationIsComplete
  RemovedRowsAreFrozen
  ImplementsEpochs
