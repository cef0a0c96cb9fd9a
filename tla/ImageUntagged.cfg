SPECIFICATION ImageSpec
CONSTANTS
  busybox = busybox
  alpine = alpine
  v1 = v1
  v2 = v2
  Repos = {busybox}
  Versions = {v1, v2}
  NoImage = NoImage
  Requests <- TaggedRequest
  ByHand <- UntaggedByHand
  Plain = {v1}
  ImageCalls = {c1}
  MaxImages = 2
  ImgFaults = FALSE
PROPERTY UntaggedFetchFound
