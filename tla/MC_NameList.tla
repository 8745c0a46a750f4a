---------------------------- MODULE MC_NameList ----------------------------
(* PKI_X509_NAME_new, then get_parsed and get_list, on every short string. *)
EXTENDS NameList, TLC

(* ',' standing for every separator; spaces, since get_list skips them. *)
MCPlainAlphabet == {"a", "=", "+", ",", " "}
MCPlainSeparators == {","}

(* '/' kept apart from ',': it is a separator of the builder and becomes  *)
(* ", " in get_parsed; '\' lets a value hold it.                           *)
MCSlashAlphabet == {"a", "=", ",", "/", "\\"}
MCSlashSeparators == {",", "/"}

MCKnownTypes == {<<"a">>}
=============================================================================
