CONSTANTS
  Threads = {w1, w2, w3}
  Keys = {k1, k2}
  None = None
SPECIFICATION Spec
PROPERTIES
  OneManagerPerKey
