----------------------------- MODULE MCMessages -----------------------------
(***************************************************************************)
(* Instances of Messages for TLC.  An array starts one or three bytes into *)
(* a word: the sizes give it every head and tail, with whole words between *)
(* them and without.                                                       *)
(***************************************************************************)
EXTENDS Messages

MCNumbers == {<<1>>, <<2, 0>>, <<3, 4, 0, 0>>}

MCPayloads == {[i \in 1..n |-> 32 + i] : n \in {0, 1, 2, 3, 4, 7, 8}}
=============================================================================
