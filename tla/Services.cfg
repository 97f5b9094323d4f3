SPECIFICATION Spec
CONSTANTS
    e1 = e1  e2 = e2  unreadable = unreadable  manual = manual  o1 = o1  o2 = o2  f = f
    g = g  u1 = u1  u2 = u2  u3 = u3  u4 = u4  w1 = w1  w2 = w2
    c1 = c1  n1 = n1  t1 = t1  t2 = t2  daemon = daemon  command = command  Torn = Torn
    a1 = a1  a2 = a2  x = x  y = y  Daemon = Daemon  Local = Local  None = None
SYMMETRY Symmetry
CHECK_DEADLOCK FALSE
INVARIANTS CredentialsAreGood RollupsAreRight ReleasesAreWhole
PROPERTY AtLeastOnceSpec
