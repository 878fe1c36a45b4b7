--------------------------- MODULE MCFieldEntries ---------------------------
(* One keyword field of two documents, for TLC: every pair of terms of up to
   two bytes, bytes that stand alone and halves of characters alike. *)
EXTENDS FieldEntries

Bytes == {1, 2, 3}
TermsOfBytes == UNION {[1 .. n -> Bytes] : n \in 1 .. 2}
KeywordFields ==
    {<<[type |-> "sorted", docs |-> {0, 1}, sent |-> <<<<s>>, <<t>>>>]>> :
        s \in TermsOfBytes, t \in TermsOfBytes}
=============================================================================
