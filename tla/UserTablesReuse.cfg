\* Four users in turn on two sockets: the new users table grows.
SPECIFICATION Spec
CONSTANTS
  u1 = u1
  u2 = u2
  u3 = u3
  u4 = u4
  Users <- FourUsers
  Names <- SomeNames
  Sockets <- TwoSockets
  Keys <- SomeKeys
  Hash <- SomeHash
  MaxClients = 2
  MaxLate = 1
  MIN_CAPACITY = 2
  MAX_PRIME_IN_RANGE = 65521
  NoUser = NoUser
SYMMETRY UserSymmetry
INVARIANTS
  TablesKeepTheirSlots
  EntriesAreFound
CHECK_DEADLOCK FALSE
