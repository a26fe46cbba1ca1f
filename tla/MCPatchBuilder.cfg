CONSTANT Characters = {"x", "y"}
CONSTANT Parts <- AllParts
CONSTANT TerraformDir <- Infra
CONSTANT TerraformNames = {"main.tf", "vars.tf", "other.tf"}
CONSTANT Inputs <- AllInputs
CONSTANT MaxEdits = 3
CONSTANT Binary = Binary
SPECIFICATION Spec
INVARIANT TypeOK
INVARIANT BuiltAsReplaced
INVARIANT OnlyCleanEditsAreBuilt
CHECK_DEADLOCK FALSE
