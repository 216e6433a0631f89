SPECIFICATION MintSpec
CONSTANTS
  c1 = c1
  c2 = c2
  k1 = k1
  k2 = k2
  long = long
  Creators = {c1, c2}
  MintKey = MintKey
  None = None
  Elsewhere = Elsewhere
  OtherAddresses = {Elsewhere}
  Keys = {k1, k2, long}
  KeyLen <- MCKeyLen
  ValueLens = {1, 150, 2000}
  NameLens = {10, 60}
  Requests <- MCRequests
  MaxRemembered = 1
  MaxKeptKey = 64
  Overhead = 128
CONSTRAINT Bounded
INVARIANTS
  MintTypeOK
  AuthoritiesHeld
  RentNeverStops
  FieldsAsRequested
CHECK_DEADLOCK FALSE
