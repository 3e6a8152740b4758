----------------------------- MODULE MCSettings -----------------------------
(***************************************************************************)
(* Instances of Settings and Startup for TLC.                              *)
(***************************************************************************)
EXTENDS Startup, TLC

\* Two keys share a bucket.
TwoBuckets ==
    [k \in Keys |-> IF k = "mswrite_data_encoding_type" THEN 1 ELSE 0]

\* No value, a whole number, one that does not fit MAX_VALUECHARS, one with a
\* remark that does not fit STANDARD_STRLEN, one with a sign and a point, a word.
Texts ==
    {<<>>, <<"1", "2">>, <<"0", "0", "0", "0", "2">>, <<"2", " # files">>,
     <<"-", "0", ".", "5">>, <<"DE_INT16">>}

Lengths ==
    [t \in Texts |->
        CASE t = <<"DE_INT16">> -> 8 [] t = <<"2", " # files">> -> 9 [] OTHER -> Len(t)]

\* The longest key does not fit MAX_KEYCHARS.
KeyLengths ==
    [k \in Keys |-> CASE k = "mswrite_nrec_in_file" -> 20 [] k = "mswrite_buffer_size" -> 19 [] OTHER -> 26]
=============================================================================
