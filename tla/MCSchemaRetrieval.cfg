CONSTANT Runs = {1, 2}
CONSTANT Versions <- TwoVersions
CONSTANT Types = {"old", "new"}
CONSTANT Provides <- MCProvides
CONSTANT Contexts = {"f", "g"}
CONSTANT Checkouts <- MCCheckouts
CONSTANT MaxArtifacts = 2
CONSTANT MaxTime = 2
CONSTANT Free = Free
CONSTANT NoContext = NoContext
CONSTANT Damaged = Damaged
SPECIFICATION Spec
INVARIANT TypeOK
INVARIANT SchemaFitsCheckout
INVARIANT SlicesFitSchema
CHECK_DEADLOCK FALSE
