SPECIFICATION FairSpec
CONSTANTS
  Stream = {"commands"}
  Consumer = {"cell"}
  StreamOf <- MCStreamOf
  Order <- MCOrder
  Missing = Missing
  Replicas = 3
  Limit = 2
  Provisioner = {"old", "new"}
  Drifted <- Bounded
PROPERTIES
  RefusesTheWholeMutation
  NeverDecreases
  ConvergedMeansBindable
  EventuallyConverged
