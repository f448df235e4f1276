SPECIFICATION Spec
CONSTANTS
  p1 = p1
  p2 = p2
  k1 = k1
  k2 = k2
  Proc = {p1}
  Key = {k1}
  Decoded = {k1}
  Uses <- Sharing
  TTL <- TTLs
  Latency = 1
  MaxTime = 4
  Faulty = {p1}
INVARIANT ServedWhole
