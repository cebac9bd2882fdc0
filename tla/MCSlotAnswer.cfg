CONSTANTS
  Requests = {r1, r2}
  Addresses = {x1, x2}
  a = a
  b = b
  SystemUi = SystemUi
  Apps = {SystemUi, a, b}
  PackageOf <- MCPackageOf
  ia = ia
  ib = ib
  Intents = {ia, ib}
  Handler <- MCHandler
  Private = {ib}
  Capable <- MCCapable
  OnlyWhenRunning = {ib}
  Timed = {}
  Disambiguates = TRUE
  SlotAnswers = {"reject"}
  AnyApp = AnyApp
  Broadcast = Broadcast
  None = None
SPECIFICATION Spec
PROPERTIES
  RepliedOnce
