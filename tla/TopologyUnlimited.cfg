SPECIFICATION Spec
CONSTANTS
  Stream = {"commands"}
  Consumer = {"cell"}
  StreamOf <- MCStreamOf
  Order <- MCOrder
  Missing = Missing
  Replicas = 3
  Limit = 2
  Provisioner = {"new"}
  Drifted <- Unbounded
PROPERTY NeverDecreases
