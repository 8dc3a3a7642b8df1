\* Two pages of a person whose account is banned or deleted and made again.
SPECIFICATION UsedSpec
CONSTANTS
  Page = {a, b}
  Id = {i, j}
  NoToken = NoToken
INVARIANTS TypeOK SameAccount PastSetupHasProfile
PROPERTIES DeadTokenGoes PatientGetsIn
