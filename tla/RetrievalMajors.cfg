SPECIFICATION Spec
CONSTANTS
  grab = grab
  main = main
  Proc = {grab, main}
  Grabber = {grab}
  Runner = {main}
  Sessions <- MajorLines
  Chromium <- ChromiumTags
  V8 <- V8Tags
  Published <- Appears
  Revision <- Revisions
  Pinned <- Pins
  Text <- Texts
  TTL <- TTLs
  Latency = 0
  MaxTime = 2
  Faulty = {}
INVARIANT MajorsGrabbed
