CONSTANTS
  r1 = r1
  r2 = r2
  r3 = r3
  w1 = w1
  w2 = w2
  w3 = w3
  Readers = {r1, r2, r3}
  Writers = {w1, w2}
  MaxReaders = 2
  Impatient = {r1, r2, w1, w2}
SPECIFICATION FairSpec
INVARIANTS DoorHasOneCloser
PROPERTY DoorReopens
