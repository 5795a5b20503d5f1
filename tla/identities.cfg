SPECIFICATION Spec
CONSTANTS
  i1 = i1
  i2 = i2
  Id = {i1, i2}
  Broken = Broken
  Bogus = Bogus
  MaxIds = 3
INVARIANTS
  TypeOK
  MemoryAhead
  AckedKept
  AdvertisedKept
