-------------------------- MODULE MC_NameTokenizer --------------------------
(* PKI_X509_NAME_new on every short string over a small alphabet, with one *)
(* attribute type ("a") that X509_NAME_add_entry_by_txt knows.             *)
EXTENDS NameReference, TLC

(* Every character class the scanner tells apart; ',' stands for all three *)
(* separators.                                                              *)
MCAlphabet == {"a", "=", "+", ",", "\\", " "}
MCSeparators == {","}

(* "a" is a type like CN: known, with a minimum value length of 1. *)
MCKnownTypes == {<<"a">>}
=============================================================================
