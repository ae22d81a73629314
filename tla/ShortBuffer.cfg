\* Every source, client buffers of at most half the short buffer, a memcpy that
\* copies from the low end.
SPECIFICATION FairSpec
CONSTANTS
  SHORT_BUFFER = 8
  InputLength = 11
  Sources = {"stream", "callback", "buffer"}
  BufferLengths = {0, 3, 4}
  FieldSizes = {1, 2, 4}
  BytesLengths = {6}
  CopyOrders = {"ascending"}
INVARIANTS TypeOK Delivery Accounting WindowIsNext BufferFetchedAtOnce EmptyAtEnd BufferShortReadAtEnd
PROPERTIES BytesReturns ImplementsByteStream
