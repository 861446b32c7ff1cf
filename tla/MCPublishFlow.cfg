CONSTANTS
  plain = plain
  raw = raw
  loose = loose
  tight = tight
  Client = {c1, c2}
  Text = {plain, raw, loose, tight}
  Input = {plain, raw}
  Searchable = {plain, loose}
  normal <- MCNormal
  Finds <- MCFinds
  MaxCards = 2
  MaxVersions = 3
  None = None
SYMMETRY MCSymmetry
SPECIFICATION Spec
INVARIANTS NoSilentTwin StoredAsApproved SurfacesAgree ApiPurgeIsThorough
PROPERTY WithdrawnIsFinal
CHECK_DEADLOCK FALSE
