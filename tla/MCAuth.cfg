SPECIFICATION Spec
CONSTANTS
  Requests = {r1, r2, r3, r4}
  Passwords = {p1, p2}
  Subjects = {s1, s2}
  Limit = 2
  None = None
SYMMETRY Interchangeable
INVARIANTS
  SessionsFollowPassword
PROPERTIES
  LinksWorkOnce
  GoogleLinkStays
CHECK_DEADLOCK FALSE
