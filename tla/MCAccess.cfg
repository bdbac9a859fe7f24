SPECIFICATION AccessSpec
CONSTANTS
  b1 = b1
  b2 = b2
  b3 = b3
  h1 = h1
  h2 = h2
  Boots = {b1, b2, b3}
  HostOf <- MCHostOf
  NoBoot = NoBoot
  TTL = 9
  Period = 3
  MaxRecover = 1
  Grace = 1
  MayMiss = {b1, b2, b3}
  MaxClock = 18
  UserIds = {u1, u2, u3}
  Names = {n1, n2}
  Passwords = {p1}
  SessionIds = {s1}
  InviteIds = {i1}
  Requests = {r1, r2}
  MaxBoots = 2
  Nobody = Nobody
  Viewers = {v1}
  Servers = {w1}
  Sockets = {c1}
  Topics = {"job"}
  PermSets <- RawEditing
  MaxLogins = 1
  MaxRevisions = 2
SYMMETRY Symmetry
INVARIANTS
  
  
  AccessKept
  PermissionsHonoured
PROPERTY
  RefusedAtMostTTL
CHECK_DEADLOCK FALSE
