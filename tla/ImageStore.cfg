SPECIFICATION ImageSpec
CONSTANTS
  busybox = busybox
  alpine = alpine
  v1 = v1
  v2 = v2
  Repos = {busybox, alpine}
  Versions = {v1, v2}
  NoImage = NoImage
  Requests <- AllKinds
  ByHand <- TwoByHand
  Plain = {v1}
  ImageCalls = {c1}
  MaxImages = 2
  ImgFaults = TRUE
INVARIANT ImageTypeOK
PROPERTIES
  StatusFindsPulled
  RemovesOneRequested
