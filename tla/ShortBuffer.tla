----------------------------- MODULE ShortBuffer -----------------------------
(***************************************************************************)
(* The read side of a decoder: bert_decoder_read keeps a window of the     *)
(* input in short_buffer and refills it from the attached source (a file   *)
(* descriptor, a callback or a buffer of the client); the bert_decode_*    *)
(* functions take bytes out of the window.                                 *)
(*                                                                         *)
(* A byte is known by its position in the input; NoByte stands for the     *)
(* content of a cell that never held a byte of the input.                  *)
(***************************************************************************)
EXTENDS BertErrno, Sequences

CONSTANTS
  SHORT_BUFFER,   \* BERT_SHORT_BUFFER, the size of short_buffer (512 in the code)
  InputLength,    \* how many bytes the sources hold in all
  Sources,        \* which of bert_decoder_stream, _callback, _buffer the client calls
  BufferLengths,  \* the lengths of the client's own buffers
  FieldSizes,     \* how many bytes a bert_decode_uint* or _magic asks for at once
  BytesLengths,   \* the lengths passed to bert_decode_bytes
  CopyOrders      \* in which order this build's memcpy may copy overlapping bytes

Half == SHORT_BUFFER \div 2

Modes == {"none", "stream", "callback", "buffer"}

ASSUME ShortBufferAssumption == SHORT_BUFFER \in Nat /\ SHORT_BUFFER >= 8
ASSUME InputAssumption == InputLength \in Nat
ASSUME SourcesAssumption == Sources \subseteq Modes \ {"none"}
ASSUME BufferLengthsAssumption == BufferLengths \subseteq Nat
ASSUME FieldSizesAssumption == FieldSizes \subseteq 1 .. Half
ASSUME BytesLengthsAssumption == BytesLengths \subseteq Nat \ {0}
ASSUME CopyOrdersAssumption == CopyOrders \subseteq {"ascending", "descending"}

VARIABLES
  decoder,  \* struct bert_decoder, its union flattened
  out,      \* every byte handed to a decoding function, oldest first
  copying,  \* the loop of bert_decode_bytes: index of length bytes copied
  result    \* what the last call on the decoder returned

vars == <<decoder, out, copying, result>>

NoByte == -1
Cells  == 0 .. SHORT_BUFFER - 1
Idle   == [index |-> 0, length |-> 0]

Smaller(m, n) == IF m <= n THEN m ELSE n

Decoders ==
  [mode : Modes, total : Nat,
   buffer_base : Nat,      \* the position of the first byte at buffer.ptr
   buffer_length : Nat, buffer_index : Nat,
   short_length : 0 .. SHORT_BUFFER, short_index : 0 .. SHORT_BUFFER,
   short_buffer : [Cells -> Int]]

-----------------------------------------------------------------------------
(* The window *)

EmptySpace(d) == SHORT_BUFFER - d.short_length   \* BERT_DECODER_EMPTY
Unread(d)     == d.short_length - d.short_index  \* remaining_space, unread_space

StepMissing(d, n) == d

\* BERT_DECODER_STEP
Step(d, n) == [d EXCEPT !.short_index = @ + n]

\* the n bytes at BERT_DECODER_PTR
Pointed(d, n) == [k \in 1 .. n |-> d.short_buffer[d.short_index + k - 1]]

(***************************************************************************)
(* memcpy moves the unread cells down by short_index.  Source and          *)
(* destination overlap when more cells are unread than were read, which    *)
(* memcpy does not allow: a copy that starts at the low end still reads    *)
(* every cell before it overwrites it; one that starts at the high end     *)
(* reads cells it has already overwritten, so cell i ends with what was in *)
(* the first cell at or above the unread count in steps of short_index.    *)
(***************************************************************************)
CopiedFrom(d, i, order) ==
  IF order = "ascending"
    THEN i + d.short_index
    ELSE i + d.short_index * ((Unread(d) - i + d.short_index - 1) \div d.short_index)

ShiftFromWrongEnd(d, order) ==
  [d EXCEPT !.short_buffer = [i \in Cells |->
                                IF i < Unread(d)
                                  THEN d.short_buffer[SHORT_BUFFER - Unread(d) + i]
                                  ELSE d.short_buffer[i]],
            !.short_length = Unread(d),
            !.short_index  = 0]

Shifted(d, order) ==
  [d EXCEPT !.short_buffer = [i \in Cells |->
                                IF i < Unread(d)
                                  THEN d.short_buffer[CopiedFrom(d, i, order)]
                                  ELSE d.short_buffer[i]],
            !.short_length = Unread(d),
            !.short_index  = 0]

RoomIfUnread(d) ==
  IF EmptySpace(d) >= Half \/ Unread(d) = 0
    THEN {d}
    ELSE {Shifted(d, order) : order \in CopyOrders}

RoomForOne(d) ==
  IF EmptySpace(d) >= 1 THEN {d} ELSE {Shifted(d, order) : order \in CopyOrders}

\* the decoder when bert_decoder_read reaches fill_short_buffer
MadeRoom(d) ==
  IF EmptySpace(d) >= Half THEN {d} ELSE {Shifted(d, order) : order \in CopyOrders}

-----------------------------------------------------------------------------
(* The sources *)

ReadIntoWholeBuffer(d) == 1 .. Smaller(SHORT_BUFFER, InputLength - d.total)

\* read() returns 0 only at the end of the file, and may return fewer bytes than asked
StreamReads(d) ==
  IF d.total = InputLength
    THEN {0}
    ELSE 1 .. Smaller(EmptySpace(d), InputLength - d.total)

\* the counts with which the source may answer, errors apart
Supplies(d) ==
  CASE d.mode = "stream"   -> StreamReads(d)
    [] d.mode = "callback" -> 0 .. Smaller(EmptySpace(d), InputLength - d.total)
    [] d.mode = "buffer"   -> {Smaller(d.buffer_length - d.buffer_index, EmptySpace(d))}
    [] d.mode = "none"     -> {}

\* read() and the callback may fail at any call; without a source every refill does
Failures(d) ==
  CASE d.mode = "stream"   -> {BERT_ERRNO_READ}
    [] d.mode = "callback" -> {BERT_ERRNO_INVALID}
    [] d.mode = "buffer"   -> {}
    [] d.mode = "none"     -> {BERT_ERRNO_INVALID}

\* the k-th byte of a supply, from 0; in buffer mode every memcpy starts at buffer.ptr
Supplied(d, k) == IF d.mode = "buffer" THEN d.buffer_base + k ELSE d.total + k

FilledUncounted(d, n) ==
  [d EXCEPT !.short_buffer = [i \in Cells |->
                                IF i \in d.short_length .. d.short_length + n - 1
                                  THEN Supplied(d, i - d.short_length)
                                  ELSE d.short_buffer[i]],
            !.buffer_index = IF d.mode = "buffer" THEN @ + n ELSE @,
            !.short_length = @ + n,
            !.total        = IF n = EmptySpace(d) THEN @ + n ELSE @]

Filled(d, n) ==
  [d EXCEPT !.short_buffer = [i \in Cells |->
                                IF i \in d.short_length .. d.short_length + n - 1
                                  THEN Supplied(d, i - d.short_length)
                                  ELSE d.short_buffer[i]],
            !.buffer_index = IF d.mode = "buffer" THEN @ + n ELSE @,
            !.short_length = @ + n,
            !.total        = @ + n]

Exhausted(d) ==
  CASE d.mode = "stream" -> d.total = InputLength
    [] d.mode = "buffer" -> d.buffer_index = d.buffer_length
    [] OTHER             -> TRUE

-----------------------------------------------------------------------------
(* bert_decoder_read *)

\* the verdict on a supply of n bytes when `remaining` were unread before it
Verdict(remaining, n, size) ==
  IF n = 0 /\ remaining = 0 THEN BERT_ERRNO_EMPTY
  ELSE IF remaining + n < size THEN BERT_ERRNO_SHORT_READ
  ELSE BERT_SUCCESS

\* every way the call may end: its result and the decoder it leaves
bert_decoder_read(d, size) ==
  IF size <= Unread(d)
    THEN {[result |-> BERT_SUCCESS, decoder |-> d]}
    ELSE UNION {
           {[result |-> error, decoder |-> e] : error \in Failures(e)}
             \union
           {[result |-> Verdict(Unread(d), n, size), decoder |-> Filled(e, n)]
               : n \in Supplies(e)}
         : e \in MadeRoom(d)}

\* BERT_DECODER_READ returns a short read when the source is empty
MacroResult(code) ==
  IF code = BERT_ERRNO_EMPTY THEN BERT_ERRNO_SHORT_READ ELSE code

\* after BERT_DECODER_READ: use the bytes at BERT_DECODER_PTR and step, or return the error
Take(r, n) ==
  /\ result' = MacroResult(r.result)
  /\ IF r.result = BERT_SUCCESS
       THEN /\ decoder' = Step(r.decoder, n)
            /\ out' = out \o Pointed(r.decoder, n)
       ELSE /\ decoder' = r.decoder
            /\ UNCHANGED out

-----------------------------------------------------------------------------
Init ==
  /\ decoder = [mode |-> "none", total |-> 0,
                buffer_base |-> 0, buffer_length |-> 0, buffer_index |-> 0,
                short_length |-> 0, short_index |-> 0,
                short_buffer |-> [i \in Cells |-> NoByte]]
  /\ out = << >>
  /\ copying = Idle
  /\ result = BERT_SUCCESS

InCall == copying # Idle

bert_decoder_stream ==
  /\ ~InCall /\ "stream" \in Sources
  /\ decoder' = [decoder EXCEPT !.mode = "stream"]
  /\ result' = BERT_SUCCESS
  /\ UNCHANGED <<out, copying>>

bert_decoder_callback ==
  /\ ~InCall /\ "callback" \in Sources
  /\ decoder' = [decoder EXCEPT !.mode = "callback"]
  /\ result' = BERT_SUCCESS
  /\ UNCHANGED <<out, copying>>

\* the client's buffer holds the next n bytes of the input
bert_decoder_buffer(n) ==
  /\ ~InCall /\ "buffer" \in Sources
  /\ decoder.total + n <= InputLength
  /\ decoder' = [decoder EXCEPT !.mode = "buffer", !.buffer_base = decoder.total,
                                !.buffer_length = n, !.buffer_index = 0]
  /\ result' = BERT_SUCCESS
  /\ UNCHANGED <<out, copying>>

\* bert_decoder_pull asks whether there is a byte at all
Probe ==
  /\ ~InCall
  /\ \E r \in bert_decoder_read(decoder, 1) :
       /\ result' = r.result
       /\ decoder' = r.decoder
  /\ UNCHANGED <<out, copying>>

\* bert_decode_uint8, _uint16, _uint32, _magic
DecodeField(n) ==
  /\ ~InCall
  /\ \E r \in bert_decoder_read(decoder, n) : Take(r, n)
  /\ UNCHANGED copying

\* bert_decode_bytes is called ...
bert_decode_bytes(n) ==
  /\ ~InCall
  /\ copying' = [index |-> 0, length |-> n]
  /\ UNCHANGED <<decoder, out, result>>

chunk_length == Smaller(Half, copying.length - copying.index)

RetriesWhenShort(r) ==
  IF r.result = BERT_SUCCESS /\ copying.index + chunk_length = copying.length
    THEN Idle
    ELSE [copying EXCEPT !.index = IF r.result = BERT_SUCCESS THEN @ + chunk_length ELSE @]

AfterChunk(r) ==
  IF r.result = BERT_SUCCESS /\ copying.index + chunk_length < copying.length
    THEN [copying EXCEPT !.index = @ + chunk_length]
    ELSE Idle

\* ... and runs its loop once
BytesChunk ==
  /\ InCall
  /\ \E r \in bert_decoder_read(decoder, chunk_length) :
       /\ Take(r, chunk_length)
       /\ copying' = AfterChunk(r)

Next ==
  \/ bert_decoder_stream
  \/ bert_decoder_callback
  \/ \E n \in BufferLengths : bert_decoder_buffer(n)
  \/ Probe
  \/ \E n \in FieldSizes : DecodeField(n)
  \/ \E n \in BytesLengths : bert_decode_bytes(n)
  \/ BytesChunk

Spec == Init /\ [][Next]_vars

\* a call that has begun runs to its end: the loop of bert_decode_bytes does not pause
FairSpec == Spec /\ WF_vars(BytesChunk)

-----------------------------------------------------------------------------
(* Properties *)

(***************************************************************************)
(* The window never leaves short_buffer: no refill brings more than the    *)
(* empty cells hold, no step passes the bytes that are there, and what is  *)
(* left of the client's buffer is never negative (it is a size_t).         *)
(***************************************************************************)
TypeOK ==
  /\ decoder \in Decoders
  /\ decoder.short_index <= decoder.short_length
  /\ decoder.buffer_index <= decoder.buffer_length
  /\ out \in Seq(Int)
  /\ copying \in [index : Nat, length : Nat]
  /\ InCall => copying.index < copying.length
  /\ result \in {BERT_SUCCESS, BERT_ERRNO_INVALID, BERT_ERRNO_EMPTY,
                 BERT_ERRNO_SHORT_READ, BERT_ERRNO_READ}

\* The decoding functions get the bytes of the input, each once and in order, however
\* the refills split it, across failed calls and changes of source.
Delivery == \A k \in 1 .. Len(out) : out[k] = k - 1

\* bert_decoder_total is what was handed out plus what waits in the window: a failed,
\* short or empty refill counts exactly the bytes that came.
Accounting == decoder.total = Len(out) + Unread(decoder)

\* Whatever is unread is the next of the input: a refill appends to it and a shift moves
\* it without loss, so that a call that fails leaves the input where it was.
WindowIsNext ==
  \A i \in decoder.short_index .. decoder.short_length - 1 :
    decoder.short_buffer[i] = Len(out) + i - decoder.short_index

\* A client's buffer of at most half the short buffer is fetched by a single refill.
BufferFetchedAtOnce ==
  decoder.mode = "buffer" =>
    \/ decoder.buffer_index = decoder.buffer_length
    \/ /\ decoder.buffer_index = 0
       /\ decoder.buffer_base = decoder.total
       /\ decoder.buffer_length <= Half

\* An empty refill is reported only when the window is empty and the descriptor or the
\* client's buffer has nothing more: bert_decoder_pull's 0 means the end of the input.
EmptyAtEnd ==
  result = BERT_ERRNO_EMPTY => Unread(decoder) = 0 /\ Exhausted(decoder)

\* A short read from the client's buffer is reported only when the buffer is used up:
\* one refill always makes room for the largest read.
BufferShortReadAtEnd ==
  decoder.mode = "buffer" /\ result = BERT_ERRNO_SHORT_READ => Exhausted(decoder)

\* decoder.h: pull returns a short read "when there is not enough data left".  The
\* code reports one after a short count of read() although more of the file follows.
ShortReadAtEnd == result = BERT_ERRNO_SHORT_READ => Exhausted(decoder)

\* bert_decode_bytes comes back, with its bytes or with an error.
BytesReturns == InCall ~> ~InCall

-----------------------------------------------------------------------------
(* What makes the delivery correct: the client's buffers fit one refill    *)
(* and memcpy happens to copy from the low end.                            *)
ShortSources ==
  /\ BufferLengths \subseteq 0 .. Half
  /\ CopyOrders = {"ascending"}

\* The inductive invariant behind Delivery and ImplementsByteStream.
DeliveryInv ==
  TypeOK /\ Delivery /\ Accounting /\ WindowIsNext /\ BufferFetchedAtOnce

\* The read side implements an unbuffered stream of bytes.
Unbuffered == INSTANCE ByteStream WITH arrived <- decoder.total, out <- out
ImplementsByteStream == Unbuffered!Spec
=============================================================================
