SPECIFICATION MCSpec
CONSTANTS
  s1 = s1
  s2 = s2
  s3 = s3
  i1 = i1
  i2 = i2
  r1 = r1
  r2 = r2
  p = p
  q = q
  h = h
  k = k
  Socket = {s1, s2, s3}
  Ip = {i1, i2}
  IpOf <- MCIpOf
  RoomId = {r1, r2}
  PeerId = {p, q}
  Hash = {h, k}
  Limits <- MCLimits
  MaxUnauth = 2
  MaxUnauthPerIp = 1
  None = None
  Minute = 3
  RateLimit = 2
  MaxViolations = 2
  MaxNow = 11
  NoBucket = NoBucket
  Request = {a, b}
  State = {t, u}
  Flow = {f}
  Key = {key}
INVARIANTS SocketsAccounted RosterExact WindowLimit SignInOnce
CHECK_DEADLOCK FALSE
SYMMETRY MCSymmetry
PROPERTIES ImplementsRooms RevocationHolds
