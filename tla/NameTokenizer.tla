---------------------------- MODULE NameTokenizer ----------------------------
(***************************************************************************)
(* PKI_X509_NAME_new (src/src/openssl/pki_x509_name.c): the hand-written  *)
(* scanner that turns a DN string into X509_NAME entries.  One step of    *)
(* the model is one iteration of its while loop; the variables are the    *)
(* loop's locals (pnt, start, status, mrdn) and the X509_NAME being built. *)
(*                                                                         *)
(* A C string is a sequence of characters over a small alphabet; index    *)
(* Len(in) + 1 is its terminating NUL.  The separators ',', '/' and ';'   *)
(* are treated alike by every branch; an instance includes those it needs. *)
(***************************************************************************)
EXTENDS Integers, Sequences

CONSTANTS
    Alphabet,   \* characters of the input strings
    Separators, \* the separators ',', '/' and ';' that occur in Alphabet
    MaxLen,     \* longest input string
    KnownTypes, \* attribute type texts X509_NAME_add_entry_by_txt accepts
    SizedTypes  \* known types whose value must not be empty (OpenSSL's
                \* string table gives them a minimum size of 1)

NUL == "NUL"
SP  == " "   \* the blank skipped before an attribute type

ASSUME TokenizerAssumption ==
    /\ NUL \notin Alphabet
    /\ Separators \subseteq Alphabet \ {"+", "\\", SP, "="}
    /\ SizedTypes \subseteq KnownTypes
    /\ MaxLen \in Nat
    /\ KnownTypes \subseteq Seq(Alphabet \ {"="})

(* Every C string of at most MaxLen characters. *)
Inputs == UNION {[1..n -> Alphabet] : n \in 0..MaxLen}

VARIABLES
    in,       \* the name argument
    pnt,      \* index of *pnt
    start,    \* index of *start
    status,   \* 0 SeekAttribute, 1 InType, 2 EscInType, 3 InValue, 4 EscInValue
    mrdn,     \* the set argument: -1 joins the previous RDN
    entries,  \* the X509_NAME: a sequence of [key, val, set] entries
    name,     \* "live", "freed" (PKI_X509_NAME_free) or "none"
    pc,       \* "loop", "exit" (left the loop) or "done" (returned)
    result    \* "ok" (the name is returned), "fail" (NULL) or "none"

vars == <<in, pnt, start, status, mrdn, entries, name, pc, result>>

(* *p for an index p. *)
Char(p) == IF p <= Len(in) THEN in[p] ELSE NUL

Entry == [key : Seq(Alphabet), val : Seq(Alphabet), set : Nat]

TypeOK ==
    /\ in \in Inputs
    /\ pnt \in 1..Len(in) + 1
    /\ start \in 1..Len(in) + 1
    /\ status \in 0..4
    /\ mrdn \in {-1, 0, 1}
    /\ entries \in Seq(Entry)
    /\ name \in {"live", "freed"}
    /\ pc \in {"loop", "exit", "done"}
    /\ result \in {"ok", "fail", "none"}

(* PKI_X509_NAME_new_null() then "start = name; pnt = start;" *)
Init ==
    /\ in \in Inputs
    /\ pnt = 1
    /\ start = 1
    /\ status = 0
    /\ mrdn = 0
    /\ entries = <<>>
    /\ name = "live"
    /\ pc = "loop"
    /\ result = "none"

-----------------------------------------------------------------------------
(* The token copy, its in-place un-escaping and the sscanf split.         *)

(* The for loop over token, one character k at a time: a character is   *)
(* copied, and a '\' copies the character after it instead and skips it   *)
(* (k++).  esc[k]: the character at k is a '\' that the loop reaches at k, *)
(* so it is not copied and the next character is; a '\' as the last       *)
(* character copies the NUL, which ends the string.  out[k]: what the loop *)
(* has written once it is past k.                                           *)
UnescapeEsc(s) ==
    LET esc[k \in 0..Len(s)] == k > 0 /\ s[k] = "\\" /\ ~esc[k - 1]
    IN esc

UnescapeOut(s) ==
    LET esc == UnescapeEsc(s)
        out[k \in 0..Len(s)] ==
          IF k = 0 THEN << >>
          ELSE IF esc[k] THEN out[k - 1] ELSE Append(out[k - 1], s[k])
    IN out

Unescape(s) == UnescapeOut(s)[Len(s)]

(* The longest prefix of s with no character of C (a %[^...] directive): *)
(* it ends before the first character of C, or at the end of s.           *)
Stops(s, C) == {i \in 1..Len(s) : s[i] \in C} \cup {Len(s) + 1}

SpanEnd(s, C) == LET S == Stops(s, C) IN CHOOSE i \in S : \A j \in S : i <= j

(* Faulty variant: the match takes the stop character, if any, with it. *)
Span_WithStop(s, C) == SubSeq(s, 1, IF SpanEnd(s, C) > Len(s) THEN Len(s) ELSE SpanEnd(s, C))

Span(s, C) == SubSeq(s, 1, SpanEnd(s, C) - 1)

(* sscanf(token, "%[^=]=%[^\\]", key, val) into zeroed buffers: an empty  *)
(* first match stops the scan with key and val left empty.                 *)
ScanKey(t) == Span(t, {"="})
ScanVal(t) ==
    LET k == ScanKey(t)
    IN IF k = <<>> \/ Len(t) = Len(k) THEN <<>>
       ELSE Span(SubSeq(t, Len(k) + 2, Len(t)), {"\\"})

(* The token buffer: len is the distance from start to pnt, one more when *)
(* *(pnt+1) is the NUL; the len characters from start are copied and      *)
(* un-escaped in place.                                                    *)
TokenLen == IF Char(pnt + 1) = NUL THEN pnt - start + 1 ELSE pnt - start

Token == Unescape(SubSeq(in, start, start + TokenLen - 1))

(* X509_NAME_add_entry_by_txt fails on a type it does not know and on an  *)
(* empty value for a type with a minimum size.                             *)
AddSucceeds(key, val) == key \in KnownTypes /\ (val = <<>> => key \notin SizedTypes)

(* X509_NAME_add_entry_by_txt(name, key, ..., -1, -1, set): appended; set *)
(* -1 takes the previous entry's RDN, 0 and 1 open the next one.           *)
NextSet(set) ==
    IF entries = <<>> THEN 0
    ELSE IF set = -1 THEN entries[Len(entries)].set
    ELSE entries[Len(entries)].set + 1

-----------------------------------------------------------------------------
(* One action per branch of the loop body. *)

(* Faulty variant: the loop bound off by one ("pnt <= end"), so status 0 *)
(* also runs on the terminating NUL.                                      *)
SeekAttribute_PastEnd ==
    /\ pc = "loop" /\ pnt <= Len(in) + 1 /\ status = 0
    /\ \/ /\ Char(pnt) = SP
          /\ pnt' = pnt + 1
          /\ UNCHANGED <<start, status, mrdn, pc>>
       \/ /\ Char(pnt) \in Separators
          /\ pc' = "exit"
          /\ UNCHANGED <<pnt, start, status, mrdn>>
       \/ /\ Char(pnt) = "+"
          /\ mrdn' = -1
          /\ pnt' = pnt + 1
          /\ start' = pnt + 1
          /\ UNCHANGED <<status, pc>>
       \/ /\ Char(pnt) \notin {SP, "+"} \cup Separators
          /\ start' = pnt
          /\ pnt' = pnt + 1
          /\ status' = 1
          /\ UNCHANGED <<mrdn, pc>>
    /\ UNCHANGED <<in, entries, name, result>>

(* Faulty variant: a leading '+' is marked but not consumed. *)
SeekAttribute_PlusStays ==
    /\ pc = "loop" /\ pnt < Len(in) + 1 /\ status = 0
    /\ \/ /\ Char(pnt) = SP
          /\ pnt' = pnt + 1
          /\ UNCHANGED <<start, status, mrdn, pc>>
       \/ /\ Char(pnt) \in Separators
          /\ pc' = "exit"
          /\ UNCHANGED <<pnt, start, status, mrdn>>
       \/ /\ Char(pnt) = "+"
          /\ mrdn' = -1
          /\ UNCHANGED <<pnt, start, status, pc>>
       \/ /\ Char(pnt) \notin {SP, "+"} \cup Separators
          /\ start' = pnt
          /\ pnt' = pnt + 1
          /\ status' = 1
          /\ UNCHANGED <<mrdn, pc>>
    /\ UNCHANGED <<in, entries, name, result>>

(* status 0 *)
SeekAttribute ==
    /\ pc = "loop" /\ pnt < Len(in) + 1 /\ status = 0
    /\ \/ /\ Char(pnt) = SP
          /\ pnt' = pnt + 1
          /\ UNCHANGED <<start, status, mrdn, pc>>
       \/ /\ Char(pnt) \in Separators
          /\ pc' = "exit"
          /\ UNCHANGED <<pnt, start, status, mrdn>>
       \/ /\ Char(pnt) = "+"
          /\ mrdn' = -1
          /\ pnt' = pnt + 1
          /\ start' = pnt + 1
          /\ UNCHANGED <<status, pc>>
       \/ /\ Char(pnt) \notin {SP, "+"} \cup Separators
          /\ start' = pnt
          /\ pnt' = pnt + 1
          /\ status' = 1
          /\ UNCHANGED <<mrdn, pc>>
    /\ UNCHANGED <<in, entries, name, result>>

(* status 1 *)
InAttributeType ==
    /\ pc = "loop" /\ pnt < Len(in) + 1 /\ status = 1
    /\ \/ /\ Char(pnt) = "\\"
          /\ status' = 2
          /\ pnt' = pnt + 1
          /\ UNCHANGED pc
       \/ /\ Char(pnt) = "="
          /\ status' = 3
          /\ pnt' = pnt + 1
          /\ UNCHANGED pc
       \/ /\ Char(pnt) \in Separators
          /\ pc' = "exit"
          /\ UNCHANGED <<pnt, status>>
       \/ /\ Char(pnt) \notin {"\\", "="} \cup Separators
          /\ pnt' = pnt + 1
          /\ UNCHANGED <<status, pc>>
    /\ UNCHANGED <<in, start, mrdn, entries, name, result>>

(* status 2 and status 4: the escaped character is skipped. *)
AfterEscape ==
    /\ pc = "loop" /\ pnt < Len(in) + 1 /\ status \in {2, 4}
    /\ pnt' = pnt + 1
    /\ status' = status - 1
    /\ UNCHANGED <<in, start, mrdn, entries, name, pc, result>>

(* status 3, on a character that does not end the value. *)
InAttributeValue ==
    /\ pc = "loop" /\ pnt < Len(in) + 1 /\ status = 3
    /\ \/ /\ Char(pnt) = "\\"
          /\ status' = 4
       \/ /\ Char(pnt) \notin {"\\", "+"} \cup Separators
          /\ Char(pnt + 1) # NUL
          /\ UNCHANGED status
    /\ pnt' = pnt + 1
    /\ UNCHANGED <<in, start, mrdn, entries, name, pc, result>>

(* Faulty variant: pnt is advanced past a '+' terminator too, so the '+' *)
(* never reaches status 0 and the next attribute is not joined.           *)
RegisterAttribute_AlwaysAdvances ==
    /\ pc = "loop" /\ pnt < Len(in) + 1 /\ status = 3
    /\ Char(pnt) # "\\"
    /\ Char(pnt) \in {"+"} \cup Separators \/ Char(pnt + 1) = NUL
    /\ LET set == IF mrdn = 0 /\ Char(pnt) = "+" THEN 1 ELSE mrdn
       IN \E tok \in {Token} :
          LET key == ScanKey(tok) IN
          IF AddSucceeds(key, ScanVal(tok))
          THEN /\ entries' = Append(entries,
                                [key |-> key, val |-> ScanVal(tok), set |-> NextSet(set)])
               /\ pnt' = pnt + 1
               /\ mrdn' = 0
               /\ status' = IF Char(pnt + 1) # NUL THEN 0 ELSE status
               /\ UNCHANGED <<pc, result>>
          ELSE /\ pc' = "done"
               /\ result' = "fail"
               /\ UNCHANGED <<pnt, mrdn, status, entries>>
    /\ UNCHANGED <<in, start, name>>

(* status 3 on a separator, a '+' or the last character: the token from   *)
(* start (one more character when *(pnt+1) is the NUL) is un-escaped,     *)
(* split by sscanf and added.  A failed add returns NULL at once, without *)
(* freeing the name.                                                       *)
RegisterAttribute ==
    /\ pc = "loop" /\ pnt < Len(in) + 1 /\ status = 3
    /\ Char(pnt) # "\\"
    /\ Char(pnt) \in {"+"} \cup Separators \/ Char(pnt + 1) = NUL
    /\ LET set == IF mrdn = 0 /\ Char(pnt) = "+" THEN 1 ELSE mrdn
           p   == IF Char(pnt) # "+" THEN pnt + 1 ELSE pnt
       IN \E tok \in {Token} :
          LET key == ScanKey(tok) IN
          IF AddSucceeds(key, ScanVal(tok))
          THEN /\ entries' = Append(entries,
                                [key |-> key, val |-> ScanVal(tok), set |-> NextSet(set)])
               /\ pnt' = p
               /\ mrdn' = 0
               /\ status' = IF Char(p) # NUL THEN 0 ELSE status
               /\ UNCHANGED <<pc, result>>
          ELSE /\ pc' = "done"
               /\ result' = "fail"
               /\ UNCHANGED <<pnt, mrdn, status, entries>>
    /\ UNCHANGED <<in, start, name>>

(* After the loop: a scan that did not end inside a value frees the name *)
(* and returns NULL; otherwise the name is returned.                      *)
Finish ==
    /\ \/ pc = "exit"
       \/ pc = "loop" /\ pnt >= Len(in) + 1
    /\ pc' = "done"
    /\ IF status # 3
       THEN /\ name' = "freed"
            /\ result' = "fail"
       ELSE /\ result' = "ok"
            /\ UNCHANGED name
    /\ UNCHANGED <<in, pnt, start, status, mrdn, entries>>

Next ==
    \/ SeekAttribute
    \/ InAttributeType
    \/ AfterEscape
    \/ InAttributeValue
    \/ RegisterAttribute
    \/ Finish

Spec == Init /\ [][Next]_vars /\ WF_vars(Next)

Done == pc = "done"

(* key and val are PKI_Malloc(len) buffers, and sscanf writes each match  *)
(* followed by its NUL: whenever the scanner is inside a value, the key   *)
(* and the value it would split from the token both fit, match and NUL,   *)
(* in len bytes.  It rests on the '=' that ended the type lying inside    *)
(* the token and on the un-escaping never lengthening it.                 *)
ScanFitsBuffers ==
    pc = "loop" /\ status = 3 /\ pnt <= Len(in)
      => /\ Len(ScanKey(Token)) + 1 <= TokenLen
         /\ Len(ScanVal(Token)) + 1 <= TokenLen
=============================================================================
