\* Two status requests race on one bot.
SPECIFICATION Spec
CONSTANTS
  b1 = b1
  b2 = b2
  Bots <- OneBot
  Requests = {"r1", "r2"}
  Authorized <- AuthorizedOne
  Initial = 4
  Moves <- Flat
  MaxFree = 4
  MaxCash = 3
  MaxRows = 2
PROPERTIES
  ClaimsOnceReleasesOnce
