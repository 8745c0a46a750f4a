---------------------------- MODULE NameReference ----------------------------
(***************************************************************************)
(* What spec.md section 4.3 and its testable properties ask of the DN     *)
(* tokenizer, as a direct definition, and the properties that compare     *)
(* PKI_X509_NAME_new with it.                                              *)
(*                                                                         *)
(* A DN is a list of attributes separated by unescaped ',' or '+'; a '+'  *)
(* (as the separator, or leading the attribute after a ',') joins the     *)
(* attribute to the previous RDN.  Leading spaces of an attribute are     *)
(* skipped.  "\X" stands for X everywhere.  An attribute is type=value,   *)
(* split at the first unescaped '='; its type must be known; the value    *)
(* must not be empty ("an attribute lacked a value" is MalformedName).   *)
(* An empty attribute, a missing '=' or a dangling '\' makes the whole    *)
(* parse fail.                                                             *)
(***************************************************************************)
EXTENDS NameTokenizer

(* A lexeme: a character and whether it was escaped; a '\' with nothing *)
(* after it becomes a NUL lexeme.                                           *)
RECURSIVE Lex(_)
Lex(s) ==
    IF s = <<>> THEN <<>>
    ELSE IF Head(s) # "\\" THEN <<[c |-> Head(s), esc |-> FALSE]>> \o Lex(Tail(s))
    ELSE IF Len(s) = 1 THEN <<[c |-> NUL, esc |-> TRUE]>>
    ELSE <<[c |-> s[2], esc |-> TRUE]>> \o Lex(Tail(Tail(s)))

(* The input ends in an escape with nothing to escape. *)
Dangling(l) == \E i \in 1..Len(l) : l[i].c = NUL

IsSep(x) == ~x.esc /\ x.c \in Separators \cup {"+"}

(* The lexemes split at unescaped separators: a sequence of              *)
(* [lx, sep] pieces, sep the separator that ends the piece (NUL last).   *)
RECURSIVE Pieces(_)
Pieces(l) ==
    IF \A i \in 1..Len(l) : ~IsSep(l[i])
    THEN <<[lx |-> l, sep |-> NUL]>>
    ELSE LET i == CHOOSE i \in 1..Len(l) : IsSep(l[i]) /\ \A j \in 1..i - 1 : ~IsSep(l[j])
         IN <<[lx |-> SubSeq(l, 1, i - 1), sep |-> l[i].c]>>
              \o Pieces(SubSeq(l, i + 1, Len(l)))

(* Leading unescaped spaces removed. *)
RECURSIVE Trim(_)
Trim(l) == IF l # <<>> /\ Head(l) = [c |-> " ", esc |-> FALSE] THEN Trim(Tail(l)) ELSE l

Chars(l) == [i \in 1..Len(l) |-> l[i].c]

(* Piece k is only a '+' marker: empty, ended by '+', first or after ','. *)
Marker(P, k) ==
    /\ Trim(P[k].lx) = <<>>
    /\ P[k].sep = "+"
    /\ k = 1 \/ P[k - 1].sep \in Separators

(* Piece k starts a new RDN unless a '+' precedes it. *)
Joined(P, k) == k > 1 /\ P[k - 1].sep = "+"

(* The attribute of a non-marker piece; ok is FALSE for a bad one. *)
Attribute(x) ==
    LET l  == Trim(x)
        eq == {i \in 1..Len(l) : l[i] = [c |-> "=", esc |-> FALSE]}
    IN IF eq = {} THEN [ok |-> FALSE, key |-> <<>>, val |-> <<>>]
       ELSE LET i == CHOOSE i \in eq : \A j \in eq : i <= j
                k == Chars(SubSeq(l, 1, i - 1))
                v == Chars(SubSeq(l, i + 1, Len(l)))
            IN IF k \in KnownTypes /\ v # <<>>
               THEN [ok |-> TRUE, key |-> k, val |-> v]
               ELSE [ok |-> FALSE, key |-> k, val |-> v]

(* The reference parse: whether it succeeds and its [key, val, set] entries. *)
RefParse(s) ==
    IF s = <<>> \/ Dangling(Lex(s)) THEN [ok |-> FALSE, entries |-> <<>>]
    ELSE LET P  == Pieces(Lex(s))
             ks == SelectSeq([k \in 1..Len(P) |-> k], LAMBDA k : ~Marker(P, k))
             A  == [j \in 1..Len(ks) |-> Attribute(P[ks[j]].lx)]
             RECURSIVE Sets(_)
             Sets(j) == IF j = 0 THEN <<>>
                        ELSE LET prev == Sets(j - 1)
                                 joined == Joined(P, ks[j]) \/ (ks[j] > 1 /\ Marker(P, ks[j] - 1))
                             IN Append(prev, IF j = 1 THEN 0
                                             ELSE IF joined THEN prev[j - 1]
                                             ELSE prev[j - 1] + 1)
         IN IF \E j \in 1..Len(A) : ~A[j].ok THEN [ok |-> FALSE, entries |-> <<>>]
            ELSE LET S == Sets(Len(A))
                 IN [ok |-> TRUE,
                     entries |-> [j \in 1..Len(A) |->
                                    [key |-> A[j].key, val |-> A[j].val, set |-> S[j]]]]

-----------------------------------------------------------------------------
(* Properties. *)

(* PKI_X509_NAME_new returns exactly the reference's result: it fails     *)
(* where the reference fails, and otherwise builds the same entries, in   *)
(* order, with the same values and the same RDN grouping (spec 4.3 and    *)
(* the escaping and multivalued-RDN testable properties).                 *)
ParseMatchesReference ==
    Done => LET r == RefParse(in)
            IN IF r.ok THEN result = "ok" /\ entries = r.entries
               ELSE result = "fail"

(* Every DN the reference accepts and that holds no '\' is parsed by      *)
(* PKI_X509_NAME_new into the reference's entries: each attribute is      *)
(* registered once, in order, with its value, and a '+' puts it in the    *)
(* previous RDN (the set argument passed to X509_NAME_add_entry_by_txt).  *)
AcceptsWellFormed ==
    LET r == RefParse(in)
    IN (Done /\ r.ok /\ \A i \in 1..Len(in) : in[i] # "\\")
         => result = "ok" /\ entries = r.entries

(* A call that returns NULL leaves no X509_NAME behind ("any partially    *)
(* built structured name must be released").                              *)
NameReleasedOnFailure == result = "fail" => name = "freed"

(* Every call of PKI_X509_NAME_new returns: the loop always reaches its   *)
(* end, even though the '+' terminator does not advance pnt.              *)
Terminates == <>Done
=============================================================================
