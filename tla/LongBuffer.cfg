\* A client buffer longer than the short buffer: its second refill repeats its first bytes.
SPECIFICATION Spec
CONSTANTS
  SHORT_BUFFER = 8
  InputLength = 13
  Sources = {"buffer"}
  BufferLengths = {9}
  FieldSizes = {1, 2, 4}
  BytesLengths = {6}
  CopyOrders = {"ascending"}
INVARIANT Delivery
