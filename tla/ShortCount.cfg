\* A descriptor that delivers fewer bytes than asked, as pipes and sockets do.
SPECIFICATION Spec
CONSTANTS
  SHORT_BUFFER = 8
  InputLength = 13
  Sources = {"stream"}
  BufferLengths = {}
  FieldSizes = {1, 2, 4}
  BytesLengths = {6}
  CopyOrders = {"ascending"}
INVARIANT ShortReadAtEnd
