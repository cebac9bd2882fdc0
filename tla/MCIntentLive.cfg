CONSTANTS
  Requests = {r1, r2}
  Addresses = {x1, x2}
  a = a
  b = b
  SystemUi = SystemUi
  Apps = {SystemUi, a}
  PackageOf <- MCPackageOf
  ia = ia
  ib = ib
  Intents = {ia}
  Handler <- MCHandler
  Private = {}
  Capable <- MCCapable
  OnlyWhenRunning = {}
  Timed = {"startApplication", "replyFromApplication"}
  Disambiguates = FALSE
  SlotAnswers = {}
  AnyApp = AnyApp
  Broadcast = Broadcast
  None = None
SPECIFICATION FairSpec
INVARIANTS
  NobodyIsForgotten
PROPERTIES
  RequestsEnd
