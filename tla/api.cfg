CONSTANTS
  u1 = u1
  u2 = u2
  key = key
  keyInUpperCase = keyInUpperCase
  none = none
  c1 = c1
  c2 = c2
  i1 = i1
  i2 = i2
  NoKey = none
  AccountOf <- OwnAccounts
  KeyOf <- Normalize
  User <- Users
  RawKey <- Keys
  Routes <- AllRoutes
  Body <- AllFiles
  UploadRequests <- AllUploads
  Instance <- Instances
  Call <- Calls
  MaxUploads = 2
  MaxSequence = 1
  MaxClock = 2
SPECIFICATION PASpec
SYMMETRY Interchangeable
CONSTRAINT TwoScenarios
INVARIANTS
  SubmissionsJustified
  TokenHostAnswersTrue
