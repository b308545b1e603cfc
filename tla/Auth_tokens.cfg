SPECIFICATION Spec
CONSTANTS
  None = None
  x = x
  Account = {a}
  Email = {x}
  Password = {p, q}
  Subject = {g}
  EmailOf <- SameAddress
  Handler = {h1, h2}
  MaxSessions = 1
  MaxTokens = 2
  MaxStates = 1
INVARIANTS
  ResetsUseOwnToken OnlyNewestTokenLives
SYMMETRY Symmetry
