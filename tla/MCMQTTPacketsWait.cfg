SPECIFICATION Spec
CONSTANTS
  Streams <- MCStreams
  Readers = {"cpp", "c", "read", "nb"}
  Segments <- MCSegments
  Sizes = {9, 140}
  MaxCount = 2
  MaxTimeouts = 1
  Filters <- MCFilters
INVARIANT WaitsInTime
