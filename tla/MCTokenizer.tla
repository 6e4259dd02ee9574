----------------------------- MODULE MCTokenizer ------------------------------
(***************************************************************************)
(* A small instance of Tokenizer: lines of up to five characters of every  *)
(* kind, and buffers that must grow at the first of them.                  *)
(***************************************************************************)
EXTENDS TokenizerWords
===============================================================================
