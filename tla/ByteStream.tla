----------------------------- MODULE ByteStream -----------------------------
(***************************************************************************)
(* What the read side of a decoder promises, whatever its buffering: the   *)
(* bytes handed to the decoding functions are the bytes of the input, each *)
(* once and in order, and never one that the source has not supplied.      *)
(*                                                                         *)
(* A byte is known by its position in the input: the bytes of the input    *)
(* are 0, 1, 2, ...                                                        *)
(***************************************************************************)
EXTENDS Integers, Sequences

VARIABLES
  arrived,  \* number of bytes the source has supplied so far
  out       \* the bytes handed to the decoding functions, oldest first

Init ==
  /\ arrived = 0
  /\ out = << >>

(***************************************************************************)
(* One call of a decoding function: the source may supply more bytes, and  *)
(* the function takes the next bytes of the input, if they have arrived.   *)
(***************************************************************************)
Transfer ==
  /\ arrived' \in Nat
  /\ arrived <= arrived'
  /\ Len(out) <= Len(out')
  /\ Len(out') <= arrived'
  /\ out' = out \o [k \in 1 .. Len(out') - Len(out) |-> Len(out) + k - 1]

Spec == Init /\ [][Transfer]_<<arrived, out>>
=============================================================================
