SPECIFICATION AccountsSpec
CONSTANTS
  f1 = f1
  f2 = f2
  u1 = u1
  u2 = u2
  u3 = u3
  h1 = h1
  h2 = h2
  t1 = t1
  t2 = t2
  Fid = {f1, f2}
  Uid = {u1, u2, u3}
  Handle = {h1, h2}
  NoUid = NoUid
  NoHandle = NoHandle
  NoFid = NoFid
  Task = {t1, t2}
  Careful = TRUE
SYMMETRY Symmetry
INVARIANTS
  OneUserPerFid
  HandleRegistered
  CacheAgrees
