SPECIFICATION Spec
CONSTANTS
  w1 = w1
  w2 = w2
  small = small
  large = large
  Workers = {w1, w2}
  Tags = {t1}
  Digests = {small, large}
  NoDigest = NoDigest
  Keys = {k1, k2, k3}
  Size <- Sizes
  Limit <- Limits
  MaxRetags = 2
  MaxFailures = 1
INVARIANT
  ViewsAreTemporary
PROPERTY DeletesOnlyTooLarge
SYMMETRY KeySymmetry
