SPECIFICATION FairSpec
CONSTANTS
  grab = grab
  main = main
  Proc = {grab, main}
  Grabber = {grab}
  Runner = {main}
  Sessions <- Lines
  Chromium <- ChromiumTags
  V8 <- V8Tags
  Published <- Appears
  Revision <- Revisions
  Pinned <- Pins
  Text <- Texts
  TTL <- TTLs
  Latency = 0
  MaxTime = 2
  Faulty = {grab}
INVARIANTS TypeOK NamedForContents CountsBounded OnlyNewestPassedOver ComparedWithOlder
PROPERTIES TagsFoundInTime ChosenAnew GrabEnds
