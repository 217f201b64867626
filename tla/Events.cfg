SPECIFICATION FairSpec
CONSTANTS
  p1 = p1
  p2 = p2
  s1 = s1
  Publishers <- MCPublishers
  Subs <- MCSubs
  CallNow <- MCSubs
  MaxVersion = 3
INVARIANTS NoLostWakeup NoSendOnClosed CancelReleases
PROPERTIES Notified CancelEnds ImplementsNotification
CHECK_DEADLOCK FALSE
