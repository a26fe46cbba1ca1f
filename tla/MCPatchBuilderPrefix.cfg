CONSTANT Characters = {"x", "y"}
CONSTANT Parts <- AllParts
CONSTANT TerraformDir <- PrefixDir
CONSTANT TerraformNames = {"main.tf", "vars.tf", "other.tf"}
CONSTANT Inputs <- PrefixInputs
CONSTANT MaxEdits = 3
CONSTANT Binary = Binary
SPECIFICATION Spec
INVARIANT EditsSeeTheirOwnFile
CHECK_DEADLOCK FALSE
