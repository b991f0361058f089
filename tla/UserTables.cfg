\* Three users at once, two of which may be logged in.
SPECIFICATION Spec
CONSTANTS
  u1 = u1
  u2 = u2
  u3 = u3
  u4 = u4
  Users <- ThreeUsers
  Names <- SomeNames
  Sockets <- ThreeSockets
  Keys <- SomeKeys
  Hash <- SomeHash
  MaxClients = 2
  MaxLate = 0
  MIN_CAPACITY = 2
  MAX_PRIME_IN_RANGE = 65521
  NoUser = NoUser
SYMMETRY UserSymmetry
INVARIANTS
  TypeOK
  StoredUsersAreLive
  InBothWhileMoving
  ClientsWithinLimit
CHECK_DEADLOCK FALSE
