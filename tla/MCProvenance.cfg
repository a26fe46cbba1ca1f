CONSTANT main = main
CONSTANT override = override
CONSTANT shared = shared
CONSTANT c1 = c1
CONSTANT c2 = c2
CONSTANT c3 = c3
CONSTANT old = old
CONSTANT new = new
CONSTANT Absent = Absent
CONSTANT NoCommit = NoCommit
CONSTANT NoAttempt = NoAttempt
CONSTANT Files = {main, override, shared}
CONSTANT Ignored = {override}
CONSTANT Linked = {shared}
CONSTANT Contents = {old, new}
CONSTANT Commits = {c1, c2, c3}
CONSTANT Trees <- MCTrees
CONSTANT MaxChanges = 2
CONSTANT MaxCandidates = 2
SPECIFICATION Spec
INVARIANT TypeOK
 
 
CHECK_DEADLOCK FALSE
