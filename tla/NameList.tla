------------------------------ MODULE NameList ------------------------------
(***************************************************************************)
(* The second path from a name to its attributes (pki_x509_name.c):       *)
(* PKI_X509_NAME_get_parsed renders the X509_NAME built by                 *)
(* PKI_X509_NAME_new to text, and PKI_X509_NAME_get_list re-splits that    *)
(* text into [type, value] records, optionally keeping one type only.      *)
(* Both are pure functions of the name, so they are operators applied to  *)
(* the entries a finished PKI_X509_NAME_new returned.                      *)
(*                                                                         *)
(* X509_NAME_oneline is OpenSSL 1.0's (the code reads EVP_PKEY fields      *)
(* directly): "/" before every entry, then SN=value; the characters of    *)
(* the alphabet are all printable, so none is written as \xHH.  The        *)
(* 255 and 1023 widths of the sscanf in get_list exceed every string of    *)
(* the instances.                                                          *)
(***************************************************************************)
EXTENDS NameReference, FiniteSets

CONSTANTS
    NoFilter,   \* PKI_X509_NAME_TYPE_NONE
    Unknown     \* PKI_X509_NAME_TYPE_UNKNOWN

ASSUME ListAssumption == {NoFilter, Unknown} \cap KnownTypes = {}

(* The filters get_list can be given. *)
Filters == KnownTypes \cup {Unknown, NoFilter}

(* X509_NAME_oneline(name, buf, sizeof buf). *)
RECURSIVE Oneline(_)
Oneline(es) ==
    IF es = <<>> THEN <<>>
    ELSE <<"/">> \o Head(es).key \o <<"=">> \o Head(es).val \o Oneline(Tail(es))

(* The loop of get_parsed over buf[1..]: each '/' becomes ", ", every     *)
(* other character, '\' included, is copied.                              *)
RECURSIVE Slashes(_)
Slashes(s) ==
    IF s = <<>> THEN <<>>
    ELSE (IF Head(s) = "/" THEN <<",", " ">> ELSE <<Head(s)>>) \o Slashes(Tail(s))

(* PKI_X509_NAME_get_parsed: NULL (here <<>>) for an empty rendering. *)
PKI_X509_NAME_get_parsed(es) ==
    LET buf == Oneline(es) IN IF buf = <<>> THEN <<>> ELSE Slashes(Tail(buf))

(* Faulty variant: the spaces after a ',' are kept in the next type. *)
SkipSpaces_None(s) == s

(* "while (pnt && *pnt == ' ') pnt++;" *)
RECURSIVE SkipSpaces(_)
SkipSpaces(s) == IF s # <<>> /\ Head(s) = " " THEN SkipSpaces(Tail(s)) ELSE s

(* PKI_OID_get(type_s), then PKI_OID_get_id: the type, or UNKNOWN. *)
TypeId(t) == IF t \in KnownTypes THEN t ELSE Unknown

(* Index of the first c in s, 0 if none (strchr). *)
FirstOf(s, c) ==
    IF \E i \in 1..Len(s) : s[i] = c
    THEN CHOOSE i \in 1..Len(s) : s[i] = c /\ \A j \in 1..i - 1 : s[j] # c
    ELSE 0

(* One pass of the loop of get_list per call, from the segment s with i  *)
(* passes done and num '=' counted: sscanf "%[^=]=%[^,]", a stop when it  *)
(* does not fill both, the record kept when it passes the filter, then    *)
(* the next segment after the first ',' of s, with its spaces skipped.    *)
RECURSIVE ListLoop(_, _, _, _)
ListLoop(s, i, num, f) ==
    IF i >= num THEN <<>>
    ELSE LET t    == Span(s, {"="})
             rest == IF Len(t) < Len(s) THEN SubSeq(s, Len(t) + 2, Len(s)) ELSE <<>>
             v    == Span(rest, {","})
             c    == FirstOf(s, ",")
         IN IF t = <<>> \/ Len(t) = Len(s) \/ v = <<>> THEN <<>>
            ELSE (IF f = NoFilter \/ TypeId(t) = f
                  THEN <<[type |-> TypeId(t), value |-> v]>> ELSE <<>>)
                 \o (IF c = 0 THEN <<>>
                     ELSE ListLoop(SkipSpaces(SubSeq(s, c + 1, Len(s))), i + 1, num, f))

(* PKI_X509_NAME_get_list(name, filter): NULL when get_parsed is NULL;    *)
(* otherwise the records, one per '=' at most.                             *)
PKI_X509_NAME_get_list(es, f) ==
    LET st  == PKI_X509_NAME_get_parsed(es)
        num == Cardinality({i \in 1..Len(st) : st[i] = "="})
    IN IF st = <<>> THEN [null |-> TRUE, list |-> <<>>]
       ELSE [null |-> FALSE, list |-> ListLoop(st, 0, num, f)]

-----------------------------------------------------------------------------
(* What the builder registered, as get_list records, filtered by f. *)
Registered(f) ==
    LET rs == [j \in 1..Len(entries) |-> [type |-> entries[j].key, value |-> entries[j].val]]
    IN SelectSeq(rs, LAMBDA r : f = NoFilter \/ r.type = f)

(* Listing agrees with building (spec 4.3 (b)): for a name                  *)
(* PKI_X509_NAME_new built from a non-empty input whose values hold no     *)
(* ',', get_list under every filter returns exactly the registered         *)
(* attributes that pass it, in order.                                      *)
RoundTrip ==
    (/\ Done /\ result = "ok" /\ entries # <<>>
     /\ \A j \in 1..Len(entries) : \A k \in 1..Len(entries[j].val) : entries[j].val[k] # ",")
    => \A f \in Filters :
         PKI_X509_NAME_get_list(entries, f) = [null |-> FALSE, list |-> Registered(f)]

(* The same for the names built from well-formed inputs without escapes:  *)
(* render then re-split gives back every attribute, its value and its     *)
(* order, under every filter, an unmatched filter giving an empty list.   *)
RoundTripWellFormed ==
    (Done /\ RefParse(in).ok /\ \A i \in 1..Len(in) : in[i] # "\\")
    => \A f \in Filters :
         PKI_X509_NAME_get_list(entries, f) = [null |-> FALSE, list |-> Registered(f)]
=============================================================================
