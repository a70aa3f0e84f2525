SPECIFICATION Spec
CONSTANTS
  Piece = 2
  Lookbehind = 2
  Scenes <- MCScenes
INVARIANTS
  PublishedIsCharged
  CreditWasReceived
  BilledIsTheBodySent
  AdvertisedArrives
  StreamedIsWhole
CHECK_DEADLOCK FALSE
