------------------------- MODULE ShortBuffer_proofs -------------------------
(***************************************************************************)
(* Proofs about ShortBuffer, for a short buffer of any size, any input and *)
(* any sequence of calls.                                                  *)
(***************************************************************************)
EXTENDS ShortBuffer, SequenceTheorems, TLAPS

(***************************************************************************)
(* Facts about one call of bert_decoder_read                               *)
(***************************************************************************)

\* The part of TypeOK that is about the decoder alone.
WellFormed(d) ==
  /\ d \in Decoders
  /\ d.short_index <= d.short_length
  /\ d.buffer_index <= d.buffer_length

\* The fields of a decoder whose window is inside the short buffer.
LEMMA Fields ==
  ASSUME NEW d, WellFormed(d)
  PROVE  /\ SHORT_BUFFER \in Nat
         /\ d.mode \in Modes /\ d.total \in Nat
         /\ d.buffer_base \in Nat
         /\ d.buffer_length \in Nat /\ d.buffer_index \in Nat
         /\ d.buffer_index <= d.buffer_length
         /\ d.short_length \in Nat /\ d.short_length <= SHORT_BUFFER
         /\ d.short_index \in Nat /\ d.short_index <= d.short_length
         /\ d.short_buffer \in [Cells -> Int]
         /\ Unread(d) \in Nat /\ EmptySpace(d) \in Nat
<1>1. SHORT_BUFFER \in Nat
  BY ShortBufferAssumption
<1>2. /\ d.mode \in Modes /\ d.total \in Nat
      /\ d.buffer_base \in Nat
      /\ d.buffer_length \in Nat /\ d.buffer_index \in Nat
      /\ d.short_length \in 0 .. SHORT_BUFFER
      /\ d.short_index \in 0 .. SHORT_BUFFER
      /\ d.short_buffer \in [Cells -> Int]
  BY DEF WellFormed, Decoders
<1>3. d.short_index <= d.short_length /\ d.buffer_index <= d.buffer_length
  BY DEF WellFormed
<1> QED
  BY <1>1, <1>2, <1>3 DEF Unread, EmptySpace

\* Half the short buffer, the largest field, is a positive number of bytes.
LEMMA HalfFacts == Half \in Nat /\ Half > 0 /\ 2 * Half <= SHORT_BUFFER
BY ShortBufferAssumption DEF Half

\* A multiple of a divisor below or at a number is at most the number.
LEMMA DivTimes ==
  ASSUME NEW a \in Nat \ {0}, NEW b \in Nat
  PROVE  (b \div a) \in Nat /\ a * (b \div a) <= b
OBVIOUS

\* The shift reads only cells of the window, in either order of copying.
LEMMA CopiedFromInside ==
  ASSUME NEW d, WellFormed(d), d.short_index > 0,
         NEW i \in Cells, i < Unread(d), NEW order
  PROVE  CopiedFrom(d, i, order) \in Cells
<1> DEFINE a == d.short_index
           b == Unread(d) - i + a - 1
<1>0. /\ d.short_length \in Nat /\ d.short_length <= SHORT_BUFFER
      /\ d.short_index \in Nat /\ d.short_index <= d.short_length
      /\ SHORT_BUFFER \in Nat
  BY Fields
<1>1. /\ a \in Nat \ {0} /\ b \in Nat /\ i \in Nat
      /\ i + b = d.short_length - 1
  BY <1>0 DEF Unread, Cells
<1>2. CASE order = "ascending"
  BY <1>0, <1>1, <1>2 DEF CopiedFrom, Cells, Unread
<1>3. CASE order # "ascending"
  <2>1. (b \div a) \in Nat /\ a * (b \div a) <= b
    BY <1>1, DivTimes
  <2> DEFINE m == a * (b \div a)
  <2>2. m \in Nat /\ m <= b
    BY <1>1, <2>1
  <2>3. CopiedFrom(d, i, order) = i + m
    BY <1>3 DEF CopiedFrom
  <2> HIDE DEF m
  <2> QED
    BY <1>0, <1>1, <2>2, <2>3 DEF Cells
<1> QED
  BY <1>2, <1>3

\* When the call reaches fill_short_buffer, at least half of the short buffer is empty and
\* nothing but the place of the window has changed.
LEMMA RoomMade ==
  ASSUME NEW d, WellFormed(d), NEW size \in 1 .. Half, size > Unread(d),
         NEW e \in MadeRoom(d)
  PROVE  /\ WellFormed(e)
         /\ EmptySpace(e) >= Half
         /\ Unread(e) = Unread(d)
         /\ e.mode = d.mode /\ e.total = d.total
         /\ e.buffer_base = d.buffer_base
         /\ e.buffer_length = d.buffer_length /\ e.buffer_index = d.buffer_index
<1>1. CASE EmptySpace(d) >= Half
  BY <1>1 DEF MadeRoom
<1>2. CASE ~(EmptySpace(d) >= Half)
  <2>1. PICK order \in CopyOrders : e = Shifted(d, order)
    BY <1>2 DEF MadeRoom
  <2>2. d.short_index > 0 /\ Unread(d) \in Nat /\ Unread(d) < Half
    BY <1>2, HalfFacts, ShortBufferAssumption
       DEF WellFormed, Decoders, EmptySpace, Unread
  <2>3. \A i \in Cells : i < Unread(d) => CopiedFrom(d, i, order) \in Cells
    BY <2>2, CopiedFromInside
  <2> DEFINE cells == [i \in Cells |-> IF i < Unread(d)
                                         THEN d.short_buffer[CopiedFrom(d, i, order)]
                                         ELSE d.short_buffer[i]]
  <2>4. cells \in [Cells -> Int]
    <3>1. d.short_buffer \in [Cells -> Int]
      BY DEF WellFormed, Decoders
    <3> QED BY <3>1, <2>3
  <2>5. e = [d EXCEPT !.short_buffer = cells, !.short_length = Unread(d), !.short_index = 0]
    BY <2>1 DEF Shifted
  <2> HIDE DEF cells
  <2>6. d \in Decoders /\ Unread(d) \in 0 .. SHORT_BUFFER /\ 0 \in 0 .. SHORT_BUFFER
    BY <2>2, Fields, HalfFacts DEF WellFormed
  <2>7. e \in Decoders
    BY <2>4, <2>5, <2>6 DEF Decoders
  <2>8. /\ e.short_length = Unread(d) /\ e.short_index = 0
        /\ e.mode = d.mode /\ e.total = d.total
        /\ e.buffer_base = d.buffer_base
        /\ e.buffer_length = d.buffer_length /\ e.buffer_index = d.buffer_index
    BY <2>5, <2>6 DEF Decoders
  <2>9. WellFormed(e) /\ Unread(e) = Unread(d)
    BY <2>2, <2>7, <2>8, Fields DEF WellFormed, Unread
  <2>10. EmptySpace(e) >= Half
    BY <2>2, <2>8, HalfFacts, ShortBufferAssumption DEF EmptySpace
  <2> QED
    BY <2>8, <2>9, <2>10
<1> QED
  BY <1>1, <1>2

\* A source never supplies more than it was asked for.
LEMMA SupplyFits ==
  ASSUME NEW e, WellFormed(e), NEW n \in Supplies(e)
  PROVE  /\ n \in Nat /\ n <= EmptySpace(e)
         /\ e.mode = "buffer" => e.buffer_index + n <= e.buffer_length
<1>1. e.mode \in Modes /\ e.total \in Nat /\ EmptySpace(e) \in Nat
      /\ e.buffer_length - e.buffer_index \in Nat
      /\ e.buffer_length \in Nat /\ e.buffer_index \in Nat
  BY ShortBufferAssumption DEF WellFormed, Decoders, EmptySpace
<1>2. CASE e.mode = "stream"
  BY <1>1, <1>2, InputAssumption DEF Supplies, StreamReads, Smaller
<1>3. CASE e.mode = "callback"
  BY <1>1, <1>3, InputAssumption DEF Supplies, Smaller
<1>4. CASE e.mode = "buffer"
  BY <1>1, <1>4 DEF Supplies, Smaller
<1>5. CASE e.mode = "none"
  BY <1>5 DEF Supplies
<1> QED
  BY <1>1, <1>2, <1>3, <1>4, <1>5 DEF Modes

\* A refill of the empty cells keeps the decoder well formed.
LEMMA FilledWellFormed ==
  ASSUME NEW e, WellFormed(e), NEW n \in Supplies(e)
  PROVE  /\ WellFormed(Filled(e, n))
         /\ Unread(Filled(e, n)) = Unread(e) + n
<1>1. n \in Nat /\ n <= EmptySpace(e)
      /\ (e.mode = "buffer" => e.buffer_index + n <= e.buffer_length)
  BY SupplyFits
<1>2. \A i \in Cells : i \in e.short_length .. e.short_length + n - 1 =>
        Supplied(e, i - e.short_length) \in Int
  BY <1>1 DEF WellFormed, Decoders, Supplied, Cells
<1> DEFINE cells == [i \in Cells |->
                       IF i \in e.short_length .. e.short_length + n - 1
                         THEN Supplied(e, i - e.short_length)
                         ELSE e.short_buffer[i]]
           index == IF e.mode = "buffer" THEN e.buffer_index + n ELSE e.buffer_index
<1>3. cells \in [Cells -> Int]
  <2>1. e.short_buffer \in [Cells -> Int]
    BY DEF WellFormed, Decoders
  <2> QED BY <1>2, <2>1
<1>4. Filled(e, n) = [e EXCEPT !.short_buffer = cells, !.buffer_index = index,
                               !.short_length = e.short_length + n,
                               !.total = e.total + n]
  BY DEF Filled, WellFormed, Decoders
<1>5. index \in Nat /\ index <= e.buffer_length
  BY <1>1 DEF WellFormed, Decoders
<1> HIDE DEF cells, index
<1>6. /\ e \in Decoders
      /\ e.total + n \in Nat
      /\ e.short_length + n \in 0 .. SHORT_BUFFER
  BY <1>1, Fields DEF WellFormed, EmptySpace
<1>7. Filled(e, n) \in Decoders
  BY <1>3, <1>4, <1>5, <1>6 DEF Decoders
<1>8. /\ Filled(e, n).short_length = e.short_length + n
      /\ Filled(e, n).short_index = e.short_index
      /\ Filled(e, n).buffer_index = index
      /\ Filled(e, n).buffer_length = e.buffer_length
  BY <1>4, <1>6 DEF Decoders
<1> QED
  BY <1>1, <1>5, <1>7, <1>8, Fields DEF WellFormed, Unread

ResultCodes == {BERT_SUCCESS, BERT_ERRNO_INVALID, BERT_ERRNO_EMPTY,
                BERT_ERRNO_SHORT_READ, BERT_ERRNO_READ}

\* A call of bert_decoder_read leaves a well-formed decoder, and one that succeeds leaves
\* the bytes it was asked for in the window.
LEMMA ReadWellFormed ==
  ASSUME NEW d, WellFormed(d), NEW size \in 1 .. Half, NEW r \in bert_decoder_read(d, size)
  PROVE  /\ WellFormed(r.decoder)
         /\ r.result \in ResultCodes
         /\ r.result = BERT_SUCCESS => size <= Unread(r.decoder)
<1>1. CASE size <= Unread(d)
  BY <1>1 DEF bert_decoder_read, ResultCodes
<1>2. CASE ~(size <= Unread(d))
  <2>0. size \in Nat /\ Unread(d) \in Nat
    BY HalfFacts DEF WellFormed, Decoders, Unread
  <2>1. PICK e \in MadeRoom(d) :
          \/ \E error \in Failures(e) : r = [result |-> error, decoder |-> e]
          \/ \E n \in Supplies(e) :
               r = [result |-> Verdict(Unread(d), n, size), decoder |-> Filled(e, n)]
    BY <1>2 DEF bert_decoder_read
  <2>2. WellFormed(e) /\ Unread(e) = Unread(d)
    BY <1>2, <2>0, RoomMade
  <2>3. CASE \E error \in Failures(e) : r = [result |-> error, decoder |-> e]
    <3>1. \A error \in Failures(e) : error \in ResultCodes /\ error # BERT_SUCCESS
      BY <2>2 DEF Failures, WellFormed, Decoders, Modes, ResultCodes, BERT_SUCCESS,
                  BERT_ERRNO_READ, BERT_ERRNO_INVALID
    <3> QED BY <2>2, <2>3, <3>1
  <2>4. CASE \E n \in Supplies(e) :
               r = [result |-> Verdict(Unread(d), n, size), decoder |-> Filled(e, n)]
    <3>1. PICK n \in Supplies(e) :
               r = [result |-> Verdict(Unread(d), n, size), decoder |-> Filled(e, n)]
      BY <2>4
    <3>2. n \in Nat
      BY <2>2, SupplyFits
    <3>3. WellFormed(r.decoder) /\ Unread(r.decoder) = Unread(d) + n
      BY <2>2, <3>1, FilledWellFormed
    <3>4. r.result = Verdict(Unread(d), n, size)
      BY <3>1
    <3>5. r.result \in ResultCodes /\ (r.result = BERT_SUCCESS => size <= Unread(d) + n)
      BY <2>0, <3>2, <3>4
         DEF Verdict, ResultCodes, BERT_SUCCESS, BERT_ERRNO_EMPTY, BERT_ERRNO_SHORT_READ
    <3> QED BY <3>3, <3>5
  <2> QED BY <2>1, <2>3, <2>4
<1> QED BY <1>1, <1>2

\* The bytes handed out are cells of the window.
LEMMA TakenWellFormed ==
  ASSUME NEW d, WellFormed(d), NEW n \in 1 .. Half, n <= Unread(d)
  PROVE  /\ WellFormed(Step(d, n))
         /\ Pointed(d, n) \in Seq(Int) /\ Len(Pointed(d, n)) = n
<1>1. /\ n \in Nat /\ d \in Decoders
      /\ d.short_index + n \in 0 .. SHORT_BUFFER
      /\ d.short_index + n <= d.short_length
  BY Fields, HalfFacts DEF Unread, WellFormed
<1>2. Step(d, n) = [d EXCEPT !.short_index = d.short_index + n]
  BY <1>1 DEF Step, Decoders
<1>3. Step(d, n) \in Decoders
  BY <1>1, <1>2 DEF Decoders
<1>4. /\ Step(d, n).short_index = d.short_index + n
      /\ Step(d, n).short_length = d.short_length
      /\ Step(d, n).buffer_index = d.buffer_index
      /\ Step(d, n).buffer_length = d.buffer_length
  BY <1>1, <1>2 DEF Decoders
<1>5. WellFormed(Step(d, n))
  BY <1>1, <1>3, <1>4, Fields DEF WellFormed
<1>6. \A k \in 1 .. n : d.short_buffer[d.short_index + k - 1] \in Int
  <2>1. \A k \in 1 .. n : d.short_index + k - 1 \in Cells
    BY <1>1, Fields DEF Cells
  <2> QED BY <2>1, Fields
<1>7. Pointed(d, n) \in Seq(Int)
  BY <1>1, <1>6, IsASeq DEF Pointed
<1>8. Len(Pointed(d, n)) = n
  BY <1>1 DEF Pointed
<1> QED
  BY <1>5, <1>7, <1>8

(***************************************************************************)
(* Type correctness                                                        *)
(***************************************************************************)

\* A read followed by taking its bytes leaves a decoder with its window inside.
LEMMA TakeTypes ==
  ASSUME TypeOK, NEW n \in 1 .. Half, NEW r \in bert_decoder_read(decoder, n), Take(r, n)
  PROVE  /\ WellFormed(decoder') /\ out' \in Seq(Int) /\ result' \in ResultCodes
<1>1. WellFormed(decoder) /\ out \in Seq(Int)
  BY DEF TypeOK, WellFormed
<1>2. /\ WellFormed(r.decoder) /\ r.result \in ResultCodes
      /\ r.result = BERT_SUCCESS => n <= Unread(r.decoder)
  BY <1>1, ReadWellFormed
<1>3. result' \in ResultCodes
  BY <1>2 DEF Take, MacroResult, ResultCodes
<1>4. CASE r.result = BERT_SUCCESS
  <2>1. WellFormed(Step(r.decoder, n)) /\ Pointed(r.decoder, n) \in Seq(Int)
    BY <1>2, <1>4, TakenWellFormed
  <2>2. out \o Pointed(r.decoder, n) \in Seq(Int)
    BY <1>1, <2>1, ConcatProperties
  <2>3. decoder' = Step(r.decoder, n) /\ out' = out \o Pointed(r.decoder, n)
    BY <1>4 DEF Take
  <2> QED
    BY <1>3, <2>1, <2>2, <2>3
<1>5. CASE r.result # BERT_SUCCESS
  BY <1>1, <1>2, <1>3, <1>5 DEF Take
<1> QED
  BY <1>4, <1>5

\* A turn of the loop of bert_decode_bytes asks for at most half the short buffer, and for no more
\* than is missing.
LEMMA ChunkSize ==
  ASSUME TypeOK, InCall
  PROVE  /\ chunk_length \in 1 .. Half
         /\ copying.index \in Nat /\ copying.length \in Nat
         /\ copying.index + chunk_length <= copying.length
<1>1. /\ copying.index \in Nat /\ copying.length \in Nat
      /\ copying.index < copying.length
  BY DEF TypeOK
<1> QED
  BY <1>1, HalfFacts DEF chunk_length, Smaller

\* A new decoder has its window inside the short buffer.
LEMMA InitTypes == Init => TypeOK
<1> SUFFICES ASSUME Init PROVE TypeOK
  OBVIOUS
<1>1. decoder \in Decoders
  BY ShortBufferAssumption DEF Init, Decoders, Modes, NoByte
<1>2. decoder.short_index = 0 /\ decoder.short_length = 0
      /\ decoder.buffer_index = 0 /\ decoder.buffer_length = 0
  BY DEF Init
<1>3. out \in Seq(Int)
  BY DEF Init
<1> QED
  BY <1>1, <1>2, <1>3 DEF Init, TypeOK, Idle, InCall

\* No step leaves the window or the client's buffer.
LEMMA NextTypes == TypeOK /\ [Next]_vars => TypeOK'
<1> SUFFICES ASSUME TypeOK, [Next]_vars PROVE TypeOK'
  OBVIOUS
<1>0. WellFormed(decoder)
  BY DEF TypeOK, WellFormed
<1>1. CASE bert_decoder_stream
  <2>1. decoder \in Decoders /\ decoder' = [decoder EXCEPT !.mode = "stream"]
    BY <1>1 DEF bert_decoder_stream, TypeOK
  <2>2. WellFormed(decoder')
    BY <1>0, <2>1 DEF WellFormed, Decoders, Modes
  <2> QED
    BY <1>1, <2>2 DEF bert_decoder_stream, TypeOK, WellFormed, InCall
<1>2. CASE bert_decoder_callback
  <2>1. decoder \in Decoders /\ decoder' = [decoder EXCEPT !.mode = "callback"]
    BY <1>2 DEF bert_decoder_callback, TypeOK
  <2>2. WellFormed(decoder')
    BY <1>0, <2>1 DEF WellFormed, Decoders, Modes
  <2> QED
    BY <1>2, <2>2 DEF bert_decoder_callback, TypeOK, WellFormed, InCall
<1>3. CASE \E n \in BufferLengths : bert_decoder_buffer(n)
  <2>1. PICK n \in BufferLengths : bert_decoder_buffer(n)
    BY <1>3
  <2>2. n \in Nat /\ decoder \in Decoders /\ decoder.total \in Nat
        /\ decoder' = [decoder EXCEPT !.mode = "buffer", !.buffer_base = decoder.total,
                                      !.buffer_length = n, !.buffer_index = 0]
    BY <1>0, <2>1, Fields, BufferLengthsAssumption DEF bert_decoder_buffer, TypeOK
  <2>3. decoder' \in Decoders
    BY <2>2 DEF Decoders, Modes
  <2>4. /\ decoder'.short_length = decoder.short_length
        /\ decoder'.short_index = decoder.short_index
        /\ decoder'.buffer_length = n /\ decoder'.buffer_index = 0
    BY <2>2 DEF Decoders
  <2>5. WellFormed(decoder')
    BY <1>0, <2>2, <2>3, <2>4 DEF WellFormed
  <2> QED
    BY <2>1, <2>5 DEF bert_decoder_buffer, TypeOK, WellFormed, InCall
<1>4. CASE Probe
  <2>1. PICK r \in bert_decoder_read(decoder, 1) : result' = r.result /\ decoder' = r.decoder
    BY <1>4 DEF Probe
  <2>2. WellFormed(decoder') /\ result' \in ResultCodes
    BY <1>0, <2>1, ReadWellFormed, HalfFacts
  <2> QED
    BY <1>4, <2>2 DEF Probe, TypeOK, WellFormed, InCall, ResultCodes
<1>5. CASE \E n \in FieldSizes : DecodeField(n)
  <2>1. PICK n \in FieldSizes : DecodeField(n)
    BY <1>5
  <2>2. n \in 1 .. Half
    BY FieldSizesAssumption
  <2>3. WellFormed(decoder') /\ out' \in Seq(Int) /\ result' \in ResultCodes
    BY <2>1, <2>2, TakeTypes DEF DecodeField
  <2> QED
    BY <2>1, <2>3 DEF DecodeField, TypeOK, WellFormed, InCall, ResultCodes
<1>6. CASE \E n \in BytesLengths : bert_decode_bytes(n)
  <2>1. PICK n \in BytesLengths : bert_decode_bytes(n)
    BY <1>6
  <2>2. n \in Nat /\ n > 0
    BY BytesLengthsAssumption
  <2> QED
    BY <2>1, <2>2 DEF bert_decode_bytes, TypeOK, InCall
<1>7. CASE BytesChunk
  <2>1. PICK r \in bert_decoder_read(decoder, chunk_length) :
          Take(r, chunk_length) /\ copying' = AfterChunk(r)
    BY <1>7 DEF BytesChunk
  <2>2. InCall
    BY <1>7 DEF BytesChunk
  <2>3. WellFormed(decoder') /\ out' \in Seq(Int) /\ result' \in ResultCodes
    BY <2>1, <2>2, ChunkSize, TakeTypes
  <2>4. copying' \in [index : Nat, length : Nat]
        /\ (copying' # Idle => copying'.index < copying'.length)
    BY <2>1, <2>2, ChunkSize, HalfFacts DEF AfterChunk, Idle, TypeOK
  <2> QED
    BY <2>3, <2>4 DEF TypeOK, WellFormed, InCall, ResultCodes
<1>8. CASE UNCHANGED vars
  BY <1>8 DEF vars, TypeOK, InCall
<1> QED
  BY <1>1, <1>2, <1>3, <1>4, <1>5, <1>6, <1>7, <1>8 DEF Next

\* The window stays inside short_buffer and the client's buffer is never read past its
\* end, whatever the sources deliver and however memcpy copies.
THEOREM TypeCorrect == Spec => []TypeOK
<1>1. Init => TypeOK
  BY InitTypes
<1>2. TypeOK /\ [Next]_vars => TypeOK'
  BY NextTypes
<1> QED
  BY <1>1, <1>2, PTL DEF Spec

(***************************************************************************)
(* The end of the input                                                    *)
(***************************************************************************)

\* A refill that leaves a read of at most half the short buffer short has taken all that
\* is left of the client's buffer, since that much was empty; one that brings nothing has
\* met the end of the descriptor or of the client's buffer.
LEMMA ShortFillExhausts ==
  ASSUME NEW e, WellFormed(e), EmptySpace(e) >= Half, NEW n \in Supplies(e)
  PROVE  /\ e.mode = "buffer" /\ n < Half => Exhausted(Filled(e, n))
         /\ n = 0 => Exhausted(Filled(e, n))
<1>1. /\ n \in Nat /\ e.mode \in Modes
      /\ e.buffer_length \in Nat /\ e.buffer_index \in Nat
      /\ e.buffer_index <= e.buffer_length
      /\ e.total \in Nat /\ EmptySpace(e) \in Nat
  BY SupplyFits, Fields
<1>2. /\ Filled(e, n).mode = e.mode /\ Filled(e, n).total = e.total + n
      /\ Filled(e, n).buffer_length = e.buffer_length
      /\ e.mode = "buffer" => Filled(e, n).buffer_index = e.buffer_index + n
  BY DEF Filled, WellFormed, Decoders
<1>3. CASE e.mode = "buffer"
  <2>1. n = Smaller(e.buffer_length - e.buffer_index, EmptySpace(e))
    BY <1>3 DEF Supplies
  <2>2. n < Half => e.buffer_index + n = e.buffer_length
    BY <1>1, <2>1, HalfFacts DEF Smaller
  <2> QED
    BY <1>2, <1>3, <2>2, HalfFacts DEF Exhausted
<1>4. CASE e.mode = "stream"
  <2>1. n = 0 => e.total = InputLength
    BY <1>4 DEF Supplies, StreamReads
  <2> QED
    BY <1>1, <1>2, <1>4, <2>1 DEF Exhausted
<1>5. CASE e.mode \notin {"stream", "buffer"}
  BY <1>2, <1>5 DEF Exhausted
<1> QED
  BY <1>3, <1>4, <1>5

\* bert_decoder_read says that a source is empty only when nothing is unread and nothing left; a
\* client's buffer that gives a short read is used up.
LEMMA ReadAtEnd ==
  ASSUME NEW d, WellFormed(d), NEW size \in 1 .. Half, NEW r \in bert_decoder_read(d, size)
  PROVE  /\ r.result = BERT_ERRNO_EMPTY => Unread(r.decoder) = 0 /\ Exhausted(r.decoder)
         /\ r.result \in {BERT_ERRNO_EMPTY, BERT_ERRNO_SHORT_READ}
              => (r.decoder.mode = "buffer" => Exhausted(r.decoder))
<1> USE DEF BERT_SUCCESS, BERT_ERRNO_EMPTY, BERT_ERRNO_SHORT_READ, BERT_ERRNO_READ,
            BERT_ERRNO_INVALID
<1>1. CASE size <= Unread(d)
  BY <1>1 DEF bert_decoder_read
<1>2. CASE ~(size <= Unread(d))
  <2>0. size \in Nat /\ size <= Half /\ Half \in Nat /\ Unread(d) \in Nat
    BY HalfFacts, Fields
  <2>1. PICK e \in MadeRoom(d) :
          \/ \E error \in Failures(e) : r = [result |-> error, decoder |-> e]
          \/ \E n \in Supplies(e) :
               r = [result |-> Verdict(Unread(d), n, size), decoder |-> Filled(e, n)]
    BY <1>2 DEF bert_decoder_read
  <2>2. WellFormed(e) /\ EmptySpace(e) >= Half /\ Unread(e) = Unread(d)
    BY <1>2, <2>0, RoomMade
  <2>3. CASE \E error \in Failures(e) : r = [result |-> error, decoder |-> e]
    <3>1. \A error \in Failures(e) : error \notin {BERT_ERRNO_EMPTY, BERT_ERRNO_SHORT_READ}
      BY <2>2 DEF Failures, WellFormed, Decoders, Modes
    <3> QED BY <2>3, <3>1
  <2>4. CASE \E n \in Supplies(e) :
               r = [result |-> Verdict(Unread(d), n, size), decoder |-> Filled(e, n)]
    <3>1. PICK n \in Supplies(e) :
               r = [result |-> Verdict(Unread(d), n, size), decoder |-> Filled(e, n)]
      BY <2>4
    <3>2. /\ n \in Nat /\ Unread(Filled(e, n)) = Unread(d) + n
          /\ r.decoder = Filled(e, n) /\ Filled(e, n).mode = e.mode
      <4>1. n \in Nat /\ Unread(Filled(e, n)) = Unread(d) + n
        BY <2>2, SupplyFits, FilledWellFormed
      <4>2. Filled(e, n).mode = e.mode
        BY <2>2 DEF Filled, WellFormed, Decoders
      <4> QED
        BY <3>1, <4>1, <4>2
    <3>3. /\ r.result = BERT_ERRNO_EMPTY => n = 0 /\ Unread(d) = 0
          /\ r.result \in {BERT_ERRNO_EMPTY, BERT_ERRNO_SHORT_READ} => Unread(d) + n < size
      BY <2>0, <3>1, <3>2 DEF Verdict
    <3>4. /\ e.mode = "buffer" /\ n < Half => Exhausted(Filled(e, n))
          /\ n = 0 => Exhausted(Filled(e, n))
      BY <2>2, ShortFillExhausts
    <3> QED
      BY <2>0, <3>2, <3>3, <3>4
  <2> QED BY <2>1, <2>3, <2>4
<1> QED BY <1>1, <1>2

\* The verdict of one call that uses the bytes it reads.
LEMMA TakeAtEnd ==
  ASSUME TypeOK, NEW n \in 1 .. Half, NEW r \in bert_decoder_read(decoder, n), Take(r, n)
  PROVE  EmptyAtEnd' /\ BufferShortReadAtEnd'
<1>1. /\ r.result \in {BERT_ERRNO_EMPTY, BERT_ERRNO_SHORT_READ}
           => (r.decoder.mode = "buffer" => Exhausted(r.decoder))
      /\ r.result \in ResultCodes
  BY ReadAtEnd, ReadWellFormed DEF TypeOK, WellFormed
<1>2. result' = MacroResult(r.result)
  BY DEF Take
<1>3. result' # BERT_ERRNO_EMPTY
  BY <1>2 DEF MacroResult, BERT_ERRNO_EMPTY, BERT_ERRNO_SHORT_READ
<1>4. CASE result' = BERT_ERRNO_SHORT_READ
  <2>1. r.result \in {BERT_ERRNO_EMPTY, BERT_ERRNO_SHORT_READ}
    BY <1>2, <1>4 DEF MacroResult
  <2>2. decoder' = r.decoder
    BY <2>1 DEF Take, BERT_SUCCESS, BERT_ERRNO_EMPTY, BERT_ERRNO_SHORT_READ
  <2> QED
    BY <1>1, <1>3, <2>1, <2>2 DEF EmptyAtEnd, BufferShortReadAtEnd, Exhausted
<1>5. CASE result' # BERT_ERRNO_SHORT_READ
  BY <1>3, <1>5 DEF EmptyAtEnd, BufferShortReadAtEnd
<1> QED
  BY <1>4, <1>5

\* Every step keeps this: `end` is only recorded by a read that has just met it, and no source
\* gets bytes back.
LEMMA NextAtEnd ==
  TypeOK /\ EmptyAtEnd /\ BufferShortReadAtEnd /\ [Next]_vars
    => EmptyAtEnd' /\ BufferShortReadAtEnd'
<1> SUFFICES ASSUME TypeOK, EmptyAtEnd, BufferShortReadAtEnd, [Next]_vars
             PROVE  EmptyAtEnd' /\ BufferShortReadAtEnd'
  OBVIOUS
<1>0. WellFormed(decoder)
  BY DEF TypeOK, WellFormed
<1>1. CASE \/ bert_decoder_stream \/ bert_decoder_callback
           \/ \E n \in BufferLengths : bert_decoder_buffer(n)
  <2>1. result' = BERT_SUCCESS
    BY <1>1 DEF bert_decoder_stream, bert_decoder_callback, bert_decoder_buffer
  <2> QED
    BY <2>1 DEF EmptyAtEnd, BufferShortReadAtEnd, BERT_SUCCESS, BERT_ERRNO_EMPTY,
                BERT_ERRNO_SHORT_READ
<1>2. CASE Probe
  <2>1. PICK r \in bert_decoder_read(decoder, 1) : result' = r.result /\ decoder' = r.decoder
    BY <1>2 DEF Probe
  <2>2. /\ r.result = BERT_ERRNO_EMPTY => Unread(r.decoder) = 0 /\ Exhausted(r.decoder)
        /\ r.result \in {BERT_ERRNO_EMPTY, BERT_ERRNO_SHORT_READ}
             => (r.decoder.mode = "buffer" => Exhausted(r.decoder))
    BY <1>0, ReadAtEnd, HalfFacts
  <2> QED
    BY <2>1, <2>2 DEF EmptyAtEnd, BufferShortReadAtEnd, Unread, Exhausted
<1>3. CASE \E n \in FieldSizes : DecodeField(n)
  <2>1. PICK n \in FieldSizes : DecodeField(n)
    BY <1>3
  <2>2. n \in 1 .. Half
    BY FieldSizesAssumption
  <2> QED
    BY <2>1, <2>2, TakeAtEnd DEF DecodeField
<1>4. CASE BytesChunk
  BY <1>4, ChunkSize, TakeAtEnd DEF BytesChunk
<1>5. CASE (\E n \in BytesLengths : bert_decode_bytes(n)) \/ UNCHANGED vars
  BY <1>5 DEF bert_decode_bytes, vars, EmptyAtEnd, BufferShortReadAtEnd, Unread, Exhausted
<1> QED
  BY <1>1, <1>2, <1>3, <1>4, <1>5 DEF Next

\* Whatever the sources deliver and however memcpy copies, an empty refill is reported only
\* with an empty window and at the end of the descriptor or of the client's buffer: the 0 of
\* bert_decoder_pull never hides bytes.
THEOREM EmptyOnlyAtEnd == Spec => []EmptyAtEnd
<1>1. Init => EmptyAtEnd /\ BufferShortReadAtEnd
  BY DEF Init, EmptyAtEnd, BufferShortReadAtEnd, BERT_SUCCESS, BERT_ERRNO_EMPTY,
         BERT_ERRNO_SHORT_READ
<1>2. TypeOK /\ EmptyAtEnd /\ BufferShortReadAtEnd /\ [Next]_vars
        => EmptyAtEnd' /\ BufferShortReadAtEnd'
  BY NextAtEnd
<1> QED
  BY <1>1, <1>2, TypeCorrect, PTL DEF Spec

\* Whatever the length of the client's buffer, a short read is reported only when every byte
\* of it was fetched.
THEOREM ShortReadUsesBufferUp == Spec => []BufferShortReadAtEnd
<1>1. Init => EmptyAtEnd /\ BufferShortReadAtEnd
  BY DEF Init, EmptyAtEnd, BufferShortReadAtEnd, BERT_SUCCESS, BERT_ERRNO_EMPTY,
         BERT_ERRNO_SHORT_READ
<1>2. TypeOK /\ EmptyAtEnd /\ BufferShortReadAtEnd /\ [Next]_vars
        => EmptyAtEnd' /\ BufferShortReadAtEnd'
  BY NextAtEnd
<1> QED
  BY <1>1, <1>2, TypeCorrect, PTL DEF Spec

(***************************************************************************)
(* Delivery.  Holds(d, k): the decoder has handed out the first k bytes of *)
(* the input and its window holds the ones that follow.                    *)
(***************************************************************************)
FetchedAtOnce(d) ==
  d.mode = "buffer" =>
    \/ d.buffer_index = d.buffer_length
    \/ d.buffer_index = 0 /\ d.buffer_base = d.total /\ d.buffer_length <= Half

Holds(d, k) ==
  /\ d.total = k + Unread(d)
  /\ \A i \in d.short_index .. d.short_length - 1 :
       d.short_buffer[i] = k + i - d.short_index
  /\ FetchedAtOnce(d)

\* A copy from the low end moves the unread bytes without loss.
LEMMA RoomHolds ==
  ASSUME ShortSources, NEW d, WellFormed(d), NEW k \in Nat, Holds(d, k),
         NEW size \in 1 .. Half, size > Unread(d), NEW e \in MadeRoom(d)
  PROVE  Holds(e, k)
<1>1. CASE EmptySpace(d) >= Half
  BY <1>1 DEF MadeRoom
<1>2. CASE ~(EmptySpace(d) >= Half)
  <2>1. e = Shifted(d, "ascending")
    BY <1>2 DEF MadeRoom, ShortSources
  <2>2. /\ WellFormed(e)
        /\ Unread(e) = Unread(d)
        /\ e.mode = d.mode /\ e.total = d.total
        /\ e.buffer_base = d.buffer_base
        /\ e.buffer_length = d.buffer_length /\ e.buffer_index = d.buffer_index
    BY RoomMade
  <2>3. /\ e.short_length = Unread(d) /\ e.short_index = 0
        /\ e.short_buffer = [i \in Cells |-> IF i < Unread(d)
                                               THEN d.short_buffer[i + d.short_index]
                                               ELSE d.short_buffer[i]]
    BY <2>1 DEF Shifted, CopiedFrom, WellFormed, Decoders
  <2>4. /\ SHORT_BUFFER \in Nat
        /\ d.short_length \in Nat /\ d.short_length <= SHORT_BUFFER
        /\ d.short_index \in Nat /\ d.short_index <= d.short_length
    BY Fields
  <2>5. \A i \in e.short_index .. e.short_length - 1 :
           e.short_buffer[i] = k + i - e.short_index
    <3> SUFFICES ASSUME NEW i \in 0 .. Unread(d) - 1
                 PROVE  e.short_buffer[i] = k + i
      BY <2>3, <2>4 DEF Unread
    <3>1. i \in Cells /\ i < Unread(d)
      BY <2>4 DEF Unread, Cells
    <3>2. e.short_buffer[i] = d.short_buffer[i + d.short_index]
      BY <2>3, <3>1
    <3>3. i + d.short_index \in d.short_index .. d.short_length - 1
      BY <2>4 DEF Unread
    <3>4. d.short_buffer[i + d.short_index] = k + (i + d.short_index) - d.short_index
      BY <3>3 DEF Holds
    <3> QED
      BY <2>4, <3>2, <3>4
  <2>6. e.total = k + Unread(e)
    BY <2>2 DEF Holds
  <2>7. FetchedAtOnce(e)
    BY <2>2 DEF Holds, FetchedAtOnce
  <2> QED
    BY <2>5, <2>6, <2>7 DEF Holds
<1> QED
  BY <1>1, <1>2

\* A refill appends the next bytes of the input, if there is room for the whole of a
\* client's buffer.
LEMMA FillHolds ==
  ASSUME NEW e, WellFormed(e), NEW k \in Nat, Holds(e, k), EmptySpace(e) >= Half,
         NEW n \in Supplies(e)
  PROVE  Holds(Filled(e, n), k)
<1> DEFINE f == Filled(e, n)
<1>1. n \in Nat /\ n <= EmptySpace(e)
  BY SupplyFits
<1>2. /\ SHORT_BUFFER \in Nat /\ e.total \in Nat /\ e.buffer_base \in Nat
      /\ e.buffer_length \in Nat /\ e.buffer_index \in Nat
      /\ e.short_length \in Nat /\ e.short_length <= SHORT_BUFFER
      /\ e.short_index \in Nat /\ e.short_index <= e.short_length
  BY Fields
<1>3. /\ f.short_index = e.short_index /\ f.short_length = e.short_length + n
      /\ f.total = e.total + n /\ f.mode = e.mode
      /\ f.buffer_length = e.buffer_length /\ f.buffer_base = e.buffer_base
      /\ f.buffer_index = IF e.mode = "buffer" THEN e.buffer_index + n ELSE e.buffer_index
      /\ f.short_buffer = [i \in Cells |->
                             IF i \in e.short_length .. e.short_length + n - 1
                               THEN Supplied(e, i - e.short_length)
                               ELSE e.short_buffer[i]]
  BY DEF Filled, WellFormed, Decoders
<1>4. e.total = k + Unread(e)
  BY DEF Holds
<1>5. e.mode = "buffer" => \/ n = 0 /\ e.buffer_index = e.buffer_length
                           \/ e.buffer_base = e.total /\ e.buffer_index + n = e.buffer_length
  <2> SUFFICES ASSUME e.mode = "buffer"
               PROVE  \/ n = 0 /\ e.buffer_index = e.buffer_length
                      \/ e.buffer_base = e.total /\ e.buffer_index + n = e.buffer_length
    OBVIOUS
  <2>1. n = Smaller(e.buffer_length - e.buffer_index, EmptySpace(e))
    BY DEF Supplies
  <2>2. \/ e.buffer_index = e.buffer_length
        \/ e.buffer_index = 0 /\ e.buffer_base = e.total /\ e.buffer_length <= Half
    BY DEF Holds, FetchedAtOnce
  <2> QED
    BY <1>2, <2>1, <2>2, HalfFacts DEF Smaller, EmptySpace
<1> HIDE DEF f
<1>6. \A i \in e.short_index .. e.short_length + n - 1 :
         f.short_buffer[i] = k + i - e.short_index
  <2> SUFFICES ASSUME NEW i \in e.short_index .. e.short_length + n - 1
               PROVE  f.short_buffer[i] = k + i - e.short_index
    OBVIOUS
  <2>1. i \in Int /\ i \in Cells
    BY <1>1, <1>2 DEF Cells, EmptySpace
  <2>2. CASE i < e.short_length
    <3>1. f.short_buffer[i] = e.short_buffer[i]
      BY <1>1, <1>2, <1>3, <2>1, <2>2
    <3>2. i \in e.short_index .. e.short_length - 1
      BY <1>2, <2>1, <2>2
    <3> QED
      BY <3>1, <3>2 DEF Holds
  <2>3. CASE i >= e.short_length
    <3>1. f.short_buffer[i] = Supplied(e, i - e.short_length)
      BY <1>1, <1>2, <1>3, <2>1, <2>3
    <3>2. n > 0
      BY <1>1, <1>2, <2>1, <2>3
    <3>3. Supplied(e, i - e.short_length) = e.total + (i - e.short_length)
      BY <1>5, <3>2 DEF Supplied
    <3> QED
      BY <1>2, <1>4, <2>1, <3>1, <3>3 DEF Unread
  <2> QED
    BY <1>2, <2>1, <2>2, <2>3
<1>7. f.total = k + Unread(f)
  BY <1>1, <1>2, <1>3, <1>4 DEF Unread
<1>8. FetchedAtOnce(f)
  BY <1>1, <1>2, <1>3, <1>5 DEF FetchedAtOnce
<1>9. \A i \in f.short_index .. f.short_length - 1 :
         f.short_buffer[i] = k + i - f.short_index
  <2>1. f.short_index = e.short_index /\ f.short_length = e.short_length + n
    BY <1>3
  <2> QED
    BY <1>1, <1>2, <1>6, <2>1
<1> QED
  BY <1>7, <1>8, <1>9 DEF Holds, f

\* A call of bert_decoder_read, however it ends, hands nothing out and loses nothing.
LEMMA ReadHolds ==
  ASSUME ShortSources, NEW d, WellFormed(d), NEW k \in Nat, Holds(d, k),
         NEW size \in 1 .. Half, NEW r \in bert_decoder_read(d, size)
  PROVE  Holds(r.decoder, k) /\ d.total <= r.decoder.total
<1>1. CASE size <= Unread(d)
  <2>1. r.decoder = d
    BY <1>1 DEF bert_decoder_read
  <2> QED
    BY <2>1, Fields
<1>2. CASE ~(size <= Unread(d))
  <2>0. size \in Nat /\ Unread(d) \in Nat /\ d.total \in Nat
    BY HalfFacts, Fields
  <2>1. PICK e \in MadeRoom(d) :
          \/ \E error \in Failures(e) : r = [result |-> error, decoder |-> e]
          \/ \E n \in Supplies(e) :
               r = [result |-> Verdict(Unread(d), n, size), decoder |-> Filled(e, n)]
    BY <1>2 DEF bert_decoder_read
  <2>2. WellFormed(e) /\ EmptySpace(e) >= Half /\ e.total = d.total
    BY <1>2, <2>0, RoomMade
  <2>3. Holds(e, k)
    BY <1>2, <2>0, RoomHolds
  <2>4. CASE \E error \in Failures(e) : r = [result |-> error, decoder |-> e]
    <3>1. r.decoder = e
      BY <2>4
    <3> QED
      BY <2>0, <2>2, <2>3, <3>1
  <2>5. CASE \E n \in Supplies(e) :
               r = [result |-> Verdict(Unread(d), n, size), decoder |-> Filled(e, n)]
    <3>1. PICK n \in Supplies(e) : r.decoder = Filled(e, n)
      BY <2>5
    <3>2. Holds(r.decoder, k) /\ n \in Nat
      BY <2>2, <2>3, <3>1, FillHolds, SupplyFits
    <3>3. r.decoder.total = e.total + n
      BY <2>2, <3>1 DEF Filled, WellFormed, Decoders
    <3> QED
      BY <2>0, <2>2, <3>2, <3>3
  <2> QED
    BY <2>1, <2>4, <2>5
<1> QED
  BY <1>1, <1>2

\* The bytes used are the next ones, and the window goes on behind them.
LEMMA StepHolds ==
  ASSUME NEW d, WellFormed(d), NEW k \in Nat, Holds(d, k), NEW n \in 1 .. Half,
         n <= Unread(d)
  PROVE  /\ Holds(Step(d, n), k + n)
         /\ Pointed(d, n) = [j \in 1 .. n |-> k + j - 1]
<1>1. /\ n \in Nat
      /\ d.short_length \in Nat /\ d.short_index \in Nat
      /\ d.short_index + n <= d.short_length
      /\ d.total = k + Unread(d)
  BY Fields, HalfFacts DEF Unread, Holds
<1>2. /\ Step(d, n).short_index = d.short_index + n
      /\ Step(d, n).short_length = d.short_length
      /\ Step(d, n).short_buffer = d.short_buffer
      /\ Step(d, n).total = d.total
      /\ Step(d, n).mode = d.mode
      /\ Step(d, n).buffer_index = d.buffer_index
      /\ Step(d, n).buffer_base = d.buffer_base
      /\ Step(d, n).buffer_length = d.buffer_length
  BY DEF Step, WellFormed, Decoders
<1>3. FetchedAtOnce(Step(d, n))
  BY <1>2 DEF Holds, FetchedAtOnce
<1>4. Step(d, n).total = k + n + Unread(Step(d, n))
  BY <1>1, <1>2 DEF Unread
<1>5. \A i \in d.short_index .. d.short_length - 1 :
         d.short_buffer[i] = k + i - d.short_index
  BY DEF Holds
<1>6. \A i \in d.short_index + n .. d.short_length - 1 :
         d.short_buffer[i] = (k + n) + i - (d.short_index + n)
  BY <1>1, <1>5
<1>7. Holds(Step(d, n), k + n)
  BY <1>2, <1>3, <1>4, <1>6 DEF Holds
<1>8. \A j \in 1 .. n : d.short_buffer[d.short_index + j - 1] = k + j - 1
  <2> TAKE j \in 1 .. n
  <2>1. d.short_index + j - 1 \in d.short_index .. d.short_length - 1
    BY <1>1
  <2> QED
    BY <1>1, <1>5, <2>1
<1> QED
  BY <1>7, <1>8 DEF Pointed

(***************************************************************************)
(* The steps of the specification                                          *)
(***************************************************************************)

\* Delivery and the decoder's part of DeliveryInv, with the two put together.
LEMMA InvSplit ==
  ASSUME TypeOK
  PROVE  DeliveryInv <=> Delivery /\ Holds(decoder, Len(out))
BY DEF DeliveryInv, Accounting, WindowIsNext, BufferFetchedAtOnce, Holds, FetchedAtOnce

\* What was handed out is a sequence, with a length.
LEMMA OutLength == TypeOK => Len(out) \in Nat
BY LenProperties DEF TypeOK

\* The next n bytes behind an initial part of the input make an initial part of it.
LEMMA Appended ==
  ASSUME TypeOK, Delivery, NEW n \in Nat,
         NEW seq, seq = out \o [j \in 1 .. n |-> Len(out) + j - 1]
  PROVE  /\ Len(seq) = Len(out) + n
         /\ \A k \in 1 .. Len(seq) : seq[k] = k - 1
<1> DEFINE next == [j \in 1 .. n |-> Len(out) + j - 1]
<1>1. out \in Seq(Int) /\ Len(out) \in Nat
  BY OutLength DEF TypeOK
<1>2. next \in Seq(Int) /\ Len(next) = n /\ \A j \in 1 .. n : next[j] = Len(out) + j - 1
  <2>1. \A j \in 1 .. n : Len(out) + j - 1 \in Int
    BY <1>1
  <2> QED
    BY <2>1, IsASeq
<1> HIDE DEF next
<1>3. /\ Len(seq) = Len(out) + n
      /\ \A k \in 1 .. Len(out) + n :
           seq[k] = IF k <= Len(out) THEN out[k] ELSE next[k - Len(out)]
  BY <1>1, <1>2, ConcatProperties DEF next
<1>4. \A k \in 1 .. Len(out) : out[k] = k - 1
  BY DEF Delivery
<1>5. ASSUME NEW k \in 1 .. Len(out) + n PROVE seq[k] = k - 1
  <2>1. CASE k <= Len(out)
    BY <1>1, <1>3, <1>4, <2>1
  <2>2. CASE k > Len(out)
    BY <1>1, <1>2, <1>3, <2>2
  <2> QED
    BY <1>1, <2>1, <2>2
<1> QED
  BY <1>3, <1>5

\* Handing out no bytes leaves `out` as it is.
LEMMA AppendNothing == TypeOK => out \o [j \in 1 .. 0 |-> Len(out) + j - 1] = out
<1>1. [j \in 1 .. 0 |-> Len(out) + j - 1] = << >>
  OBVIOUS
<1> QED
  BY <1>1, ConcatEmptySeq DEF TypeOK

\* A step that hands out the next n bytes is a step of the abstract stream.
LEMMA TransferStep ==
  ASSUME TypeOK, TypeOK', Delivery, NEW n \in Nat,
         out' = out \o [j \in 1 .. n |-> Len(out) + j - 1],
         Holds(decoder', Len(out) + n),
         decoder.total <= decoder'.total
  PROVE  /\ Delivery' /\ Holds(decoder', Len(out'))
         /\ Unbuffered!Transfer
<1>1. Len(out) \in Nat
  BY OutLength
<1>2. Len(out') = Len(out) + n /\ \A k \in 1 .. Len(out') : out'[k] = k - 1
  BY Appended
<1>3. /\ WellFormed(decoder')
      /\ decoder'.total = Len(out') + Unread(decoder')
  BY <1>2 DEF TypeOK, WellFormed, Holds
<1>4. decoder'.total \in Nat /\ Unread(decoder') \in Nat
  BY <1>3, Fields
<1>5. Len(out') - Len(out) = n
  BY <1>1, <1>2
<1>6. /\ decoder'.total \in Nat /\ decoder.total <= decoder'.total
      /\ Len(out) <= Len(out') /\ Len(out') <= decoder'.total
  BY <1>1, <1>2, <1>3, <1>4
<1>7. out' = out \o [j \in 1 .. Len(out') - Len(out) |-> Len(out) + j - 1]
  BY <1>5
<1> QED
  BY <1>2, <1>6, <1>7 DEF Delivery, Unbuffered!Transfer

\* A step that hands out nothing is one too.
LEMMA QuietStep ==
  ASSUME TypeOK, TypeOK', Delivery, out' = out,
         Holds(decoder', Len(out)), decoder.total <= decoder'.total
  PROVE  /\ Delivery' /\ Holds(decoder', Len(out'))
         /\ Unbuffered!Transfer
<1>1. Len(out) \in Nat /\ Len(out') - Len(out) = 0
  BY OutLength
<1>2. /\ WellFormed(decoder')
      /\ decoder'.total = Len(out) + Unread(decoder')
  BY DEF TypeOK, WellFormed, Holds
<1>3. decoder'.total \in Nat /\ Unread(decoder') \in Nat
  BY <1>2, Fields
<1>4. /\ decoder'.total \in Nat /\ decoder.total <= decoder'.total
      /\ Len(out) <= Len(out') /\ Len(out') <= decoder'.total
  BY <1>1, <1>2, <1>3
<1>5. out' = out \o [j \in 1 .. Len(out') - Len(out) |-> Len(out) + j - 1]
  BY <1>1, AppendNothing
<1> QED
  BY <1>4, <1>5 DEF Delivery, Unbuffered!Transfer

\* One use of the bytes read, or the error instead of it.
LEMMA TakeDelivers ==
  ASSUME ShortSources, TypeOK, TypeOK', Delivery, Holds(decoder, Len(out)),
         NEW n \in 1 .. Half, NEW r \in bert_decoder_read(decoder, n), Take(r, n)
  PROVE  Delivery' /\ Holds(decoder', Len(out')) /\ Unbuffered!Transfer
<1>1. WellFormed(decoder) /\ Len(out) \in Nat /\ n \in Nat
  BY OutLength, HalfFacts DEF TypeOK, WellFormed
<1>2. /\ WellFormed(r.decoder)
      /\ r.result = BERT_SUCCESS => n <= Unread(r.decoder)
  BY <1>1, ReadWellFormed
<1>3. Holds(r.decoder, Len(out)) /\ decoder.total <= r.decoder.total
  BY <1>1, ReadHolds
<1>4. CASE r.result = BERT_SUCCESS
  <2>1. decoder' = Step(r.decoder, n) /\ out' = out \o Pointed(r.decoder, n)
    BY <1>4 DEF Take
  <2>2. /\ Holds(decoder', Len(out) + n)
        /\ out' = out \o [j \in 1 .. n |-> Len(out) + j - 1]
    <3>1. Holds(Step(r.decoder, n), Len(out) + n)
      BY <1>1, <1>2, <1>3, <1>4, StepHolds
    <3>2. Pointed(r.decoder, n) = [j \in 1 .. n |-> Len(out) + j - 1]
      BY <1>1, <1>2, <1>3, <1>4, StepHolds
    <3> QED
      BY <2>1, <3>1, <3>2
  <2>3. decoder'.total = r.decoder.total
    BY <1>2, <2>1 DEF Step, WellFormed, Decoders
  <2>4. decoder.total <= decoder'.total
    BY <1>3, <2>3
  <2>5. /\ n \in Nat /\ Holds(decoder', Len(out) + n)
        /\ out' = out \o [j \in 1 .. n |-> Len(out) + j - 1]
    BY <1>1, <2>2
  <2> QED
    BY <2>4, <2>5, TransferStep, Zenon
<1>5. CASE r.result # BERT_SUCCESS
  <2>1. decoder' = r.decoder /\ out' = out
    BY <1>5 DEF Take
  <2> QED
    BY <1>3, <2>1, QuietStep
<1> QED
  BY <1>4, <1>5

\* A new source leaves the window as it is.
LEMMA AttachDelivers ==
  ASSUME TypeOK, TypeOK', Delivery, Holds(decoder, Len(out)), UNCHANGED out,
         decoder'.total = decoder.total,
         decoder'.short_index = decoder.short_index,
         decoder'.short_length = decoder.short_length,
         decoder'.short_buffer = decoder.short_buffer,
         FetchedAtOnce(decoder')
  PROVE  Delivery' /\ Holds(decoder', Len(out')) /\ Unbuffered!Transfer
<1>1. Holds(decoder', Len(out))
  BY DEF Holds, Unread
<1>2. decoder.total <= decoder'.total
  BY Fields DEF TypeOK, WellFormed
<1> QED
  BY <1>1, <1>2, QuietStep

\* Every step keeps Delivery and the window's relation to it, and is a transfer of the abstract
\* stream or none of its steps.
LEMMA NextDelivers ==
  ASSUME ShortSources, TypeOK, TypeOK', Delivery, Holds(decoder, Len(out)), [Next]_vars
  PROVE  /\ Delivery' /\ Holds(decoder', Len(out'))
         /\ [Unbuffered!Transfer]_<<decoder.total, out>>
<1>0. decoder \in Decoders /\ WellFormed(decoder) /\ FetchedAtOnce(decoder)
  BY DEF TypeOK, WellFormed, Holds
<1>1. CASE bert_decoder_stream
  <2>1. decoder' = [decoder EXCEPT !.mode = "stream"] /\ UNCHANGED out
    BY <1>1 DEF bert_decoder_stream
  <2> QED
    BY <1>0, <2>1, AttachDelivers DEF FetchedAtOnce, Decoders
<1>2. CASE bert_decoder_callback
  <2>1. decoder' = [decoder EXCEPT !.mode = "callback"] /\ UNCHANGED out
    BY <1>2 DEF bert_decoder_callback
  <2> QED
    BY <1>0, <2>1, AttachDelivers DEF FetchedAtOnce, Decoders
<1>3. CASE \E n \in BufferLengths : bert_decoder_buffer(n)
  <2>1. PICK n \in BufferLengths :
          /\ decoder' = [decoder EXCEPT !.mode = "buffer", !.buffer_base = decoder.total,
                                        !.buffer_length = n, !.buffer_index = 0]
          /\ UNCHANGED out
    BY <1>3 DEF bert_decoder_buffer
  <2>2. n <= Half
    BY HalfFacts DEF ShortSources
  <2>3. /\ decoder'.total = decoder.total
        /\ decoder'.short_index = decoder.short_index
        /\ decoder'.short_length = decoder.short_length
        /\ decoder'.short_buffer = decoder.short_buffer
        /\ decoder'.buffer_index = 0 /\ decoder'.buffer_base = decoder.total
        /\ decoder'.buffer_length = n
    BY <1>0, <2>1 DEF Decoders
  <2> QED
    BY <2>1, <2>2, <2>3, AttachDelivers DEF FetchedAtOnce
<1>4. CASE Probe
  <2>1. PICK r \in bert_decoder_read(decoder, 1) : decoder' = r.decoder /\ out' = out
    BY <1>4 DEF Probe
  <2>2. Holds(decoder', Len(out)) /\ decoder.total <= decoder'.total
    BY <1>0, <2>1, ReadHolds, HalfFacts, OutLength
  <2> QED
    BY <2>1, <2>2, QuietStep
<1>5. CASE \E n \in FieldSizes : DecodeField(n)
  <2>1. PICK n \in FieldSizes : DecodeField(n)
    BY <1>5
  <2>2. n \in 1 .. Half
    BY FieldSizesAssumption
  <2> QED
    BY <2>1, <2>2, TakeDelivers DEF DecodeField
<1>6. CASE \E n \in BytesLengths : bert_decode_bytes(n)
  BY <1>6 DEF bert_decode_bytes, Delivery
<1>7. CASE BytesChunk
  BY <1>7, ChunkSize, TakeDelivers DEF BytesChunk
<1>8. CASE UNCHANGED vars
  BY <1>8 DEF vars, Delivery
<1> QED
  BY <1>1, <1>2, <1>3, <1>4, <1>5, <1>6, <1>7, <1>8 DEF Next

\* A new decoder has handed out nothing, and its empty window holds what comes next.
LEMMA InitDelivers == Init => Delivery /\ Holds(decoder, Len(out)) /\ Unbuffered!Init
<1> SUFFICES ASSUME Init PROVE Delivery /\ Holds(decoder, Len(out)) /\ Unbuffered!Init
  OBVIOUS
<1>1. Len(out) = 0 /\ out = << >>
  BY DEF Init
<1>2. /\ decoder.short_index = 0 /\ decoder.short_length = 0
      /\ decoder.total = 0 /\ decoder.mode = "none"
  BY DEF Init
<1> QED
  BY <1>1, <1>2 DEF Delivery, Holds, FetchedAtOnce, Unread, Unbuffered!Init

\* With client buffers of at most half the short buffer and a memcpy that copies from the
\* low end, the decoding functions get the bytes of the input in order, and the window
\* holds those that follow, for every size of the short buffer and every sequence of calls.
THEOREM DeliveryCorrect == ShortSources => (Spec => []DeliveryInv)
<1> SUFFICES ASSUME ShortSources PROVE Spec => []DeliveryInv
  OBVIOUS
<1>1. Init => DeliveryInv
  BY InitTypes, InitDelivers, InvSplit
<1>2. DeliveryInv /\ [Next]_vars => DeliveryInv'
  <2> SUFFICES ASSUME DeliveryInv, [Next]_vars PROVE DeliveryInv'
    OBVIOUS
  <2>1. TypeOK /\ TypeOK'
    BY NextTypes DEF DeliveryInv
  <2>2. Delivery /\ Holds(decoder, Len(out))
    BY <2>1, InvSplit
  <2>3. Delivery' /\ Holds(decoder', Len(out'))
    BY <2>1, <2>2, NextDelivers
  <2> QED
    BY <2>1, <2>3 DEF DeliveryInv, Accounting, WindowIsNext, BufferFetchedAtOnce, Holds,
                      FetchedAtOnce
<1> QED
  BY <1>1, <1>2, PTL DEF Spec

\* Under the same conditions no byte of the input is lost, repeated or reordered on its way
\* through the short buffer to the bert_decode_* functions.
THEOREM BytesInOrder == ShortSources => (Spec => []Delivery)
<1> SUFFICES ASSUME ShortSources PROVE Spec => []Delivery
  OBVIOUS
<1>1. DeliveryInv => Delivery
  BY DEF DeliveryInv
<1>2. Spec => []DeliveryInv
  BY DeliveryCorrect
<1> QED
  BY <1>1, <1>2, PTL

\* Under the same conditions the window holds the bytes that follow those handed out, so
\* that a failed or short call leaves the input where it was.
THEOREM WindowCorrect == ShortSources => (Spec => []WindowIsNext)
<1> SUFFICES ASSUME ShortSources PROVE Spec => []WindowIsNext
  OBVIOUS
<1>1. DeliveryInv => WindowIsNext
  BY DEF DeliveryInv
<1>2. Spec => []DeliveryInv
  BY DeliveryCorrect
<1> QED
  BY <1>1, <1>2, PTL

\* Under the same conditions one refill fetches the whole of a client's buffer, so that
\* the missing offset of the memcpy never matters.
THEOREM BufferAtOnce == ShortSources => (Spec => []BufferFetchedAtOnce)
<1> SUFFICES ASSUME ShortSources PROVE Spec => []BufferFetchedAtOnce
  OBVIOUS
<1>1. DeliveryInv => BufferFetchedAtOnce
  BY DEF DeliveryInv
<1>2. Spec => []DeliveryInv
  BY DeliveryCorrect
<1> QED
  BY <1>1, <1>2, PTL

\* Under the same conditions bert_decoder_total is what was handed out and what is unread.
THEOREM TotalAccounted == ShortSources => (Spec => []Accounting)
<1> SUFFICES ASSUME ShortSources PROVE Spec => []Accounting
  OBVIOUS
<1>1. DeliveryInv => Accounting
  BY DEF DeliveryInv
<1>2. Spec => []DeliveryInv
  BY DeliveryCorrect
<1> QED
  BY <1>1, <1>2, PTL

\* Under the same conditions the read side implements the abstract stream of bytes.
THEOREM StreamImplemented == ShortSources => (Spec => ImplementsByteStream)
<1> SUFFICES ASSUME ShortSources PROVE Spec => Unbuffered!Spec
  BY DEF ImplementsByteStream
<1>1. Init => Unbuffered!Init
  BY InitDelivers
<1>2. DeliveryInv /\ DeliveryInv' /\ [Next]_vars
        => [Unbuffered!Transfer]_<<decoder.total, out>>
  <2> SUFFICES ASSUME DeliveryInv, DeliveryInv', [Next]_vars
               PROVE  [Unbuffered!Transfer]_<<decoder.total, out>>
    OBVIOUS
  <2>1. TypeOK /\ TypeOK'
    BY DEF DeliveryInv
  <2>2. Delivery /\ Holds(decoder, Len(out))
    BY <2>1, InvSplit
  <2> QED
    BY <2>1, <2>2, NextDelivers
<1>3. Spec => []DeliveryInv
  BY DeliveryCorrect
<1> QED
  BY <1>1, <1>2, <1>3, PTL DEF Spec, Unbuffered!Spec
=============================================================================
