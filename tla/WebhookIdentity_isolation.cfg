CONSTANTS
  a1 = a1
  a2 = a2
  John = John
  john = john
  team = team
  y1 = y1
  y2 = y2
  v1 = v1
  s1 = s1
  s2 = s2
  i1 = i1
  i2 = i2
  i3 = i3
  Accounts = {a1, a2}
  Aliases = {John, john, team}
  Normalize <- MCNormalize
  Slug <- MCSlug
  Values = {v1}
  Types = {y1, y2}
  TypeAccount <- MCTypeAccount
  SecretIds = {s1, s2}
  IdentityIds = {i1, i2, i3}
SPECIFICATION Spec
SYMMETRY Symmetry
INVARIANT
  ActiveSecretResolves
