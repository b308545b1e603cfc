SPECIFICATION Spec
CONSTANTS
  None = None
  x = x
  Account = {a}
  Email = {x}
  Password = {p, q}
  Subject = {g}
  EmailOf <- SameAddress
  Handler = {h1, h2}
  MaxSessions = 2
  MaxTokens = 1
  MaxStates = 1
INVARIANTS
  SessionsMatchCredentials ResetRevokesSessions
PROPERTIES
  LinkIsReauthenticated EndedSessionsStayEnded SignInFindsItsAccount
SYMMETRY Symmetry
