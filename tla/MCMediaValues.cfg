CONSTANTS
  VendorLength <- MCVendorLength
  Requests <- MCRequests
  RawRequests <- MCRawRequests
  Ranges <- MCRanges
SPECIFICATION Spec
INVARIANTS TypeOK FailureKeepsOutput ValuesFromTheirOwnBytes
PROPERTY ImplementsRange
