CONSTANTS
  Components = {"strings", "lists", "hashes", "sets", "keyspace", "scan"}
  StringKey = {k1, k2}
  Off = Off
SPECIFICATION Spec
SYMMETRY Symmetry
INVARIANTS ReplicasAgree ObjectsRight
PROPERTIES ImplementsLists CommandsExact
