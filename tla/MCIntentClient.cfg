CONSTANTS
  Requests = {r1}
  Addresses = {x}
  a = a
  SystemUi = SystemUi
  Apps = {SystemUi, a}
  PackageOf <- MCPackageOf
  ia = ia
  is = is
  Intents = {ia, is}
  Handler <- MCHandler
  Private = {}
  Capable <- MCCapable
  OnlyWhenRunning = {}
  Timed = {"disambiguation", "startApplication", "replyFromApplication"}
  Disambiguates = TRUE
  SlotAnswers = {}
  AnyApp = AnyApp
  Broadcast = Broadcast
  None = None
  ClientTimed = {"replyFromSystem", "replyFromApplication"}
  MaxInFlight = 1
SPECIFICATION ClientFairSpec
INVARIANTS
  ClientTypeOK
  AnswerWillCome
  SuccessIsFirstAnswer
PROPERTIES
  SuccessIsFinal
  AsksEnd
