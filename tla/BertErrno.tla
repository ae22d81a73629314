----------------------------- MODULE BertErrno -----------------------------
(***************************************************************************)
(* The result codes of include/bert/errno.h.  Every function of the        *)
(* library that can fail returns one of them; bert_decoder_pull also       *)
(* returns 1 (a term was decoded) and 0 (no more data).                    *)
(***************************************************************************)
EXTENDS Integers

BERT_SUCCESS           ==  0
BERT_ERRNO_INVALID     == -1
BERT_ERRNO_EMPTY       == -2
BERT_ERRNO_SHORT_READ  == -3
BERT_ERRNO_SHORT_WRITE == -4
BERT_ERRNO_READ        == -5
BERT_ERRNO_WRITE       == -6
BERT_ERRNO_MALLOC      == -7
BERT_ERRNO_BIGNUM      == -8
=============================================================================
