SPECIFICATION Spec
CONSTANTS
  admin = admin  inventory = inventory  cashier = cashier
  Admin = Admin  Cashier = Cashier
  Actors = {admin, inventory, cashier}
  Roles = {Admin, Cashier}
  FirstRoles <- DefaultRoles
  p1 = p1
  Procs = {p1}
  Absent = Absent
  Cut = Cut
  NoJob = NoJob
INVARIANTS TypeOK AdminRemains
PROPERTIES StaysReadable OthersKeepTheirRoles AuditTruthful
