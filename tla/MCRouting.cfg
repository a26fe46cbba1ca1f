CONSTANT Models = {1, 2, 3}
CONSTANT Registries <- AllRegistries
CONSTANT NoModel = NoModel
SPECIFICATION RoutingSpec
INVARIANT RoutingTypeOK
INVARIANT SecondSelectionNeverRaises
INVARIANT ClimbsUnderCeiling
CHECK_DEADLOCK FALSE
