CONSTANTS
  Requests = {r1, r2}
  Addresses = {x1}
  a = a
  b = b
  SystemUi = SystemUi
  Apps = {SystemUi, a, b}
  PackageOf <- MCPackageOf
  ia = ia
  ib = ib
  Intents = {ia, ib}
  Handler <- MCHandler
  Private = {ib}
  Capable <- MCCapable
  OnlyWhenRunning = {ib}
  Timed = {"replyFromApplication"}
  Disambiguates = TRUE
  SlotAnswers = {}
  AnyApp = AnyApp
  Broadcast = Broadcast
  None = None
SPECIFICATION Spec
PROPERTIES
  CanceledByItsTimeout
