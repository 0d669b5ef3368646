SPECIFICATION Spec
CONSTANTS
    Users = {u1, u2}
    SysAdmins = {}
    Creator = u1
    Courses = {c1}
    Calls = {r1, r2}
    RPCs <- OrgRPCs
INVARIANT LastOwnerKept
