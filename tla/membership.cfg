SPECIFICATION Spec
CONSTANTS
    Users = {u1, u2}
    SysAdmins = {u2}
    Creator = u1
    Courses = {c1}
    Calls = {r1}
    RPCs <- AllRPCs
INVARIANTS TypeOK LastOwnerKept
PROPERTIES RemovalRevokesCourses OwnersRuleOwners
