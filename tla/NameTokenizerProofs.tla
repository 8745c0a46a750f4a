------------------------- MODULE NameTokenizerProofs -------------------------
(***************************************************************************)
(* Proof, for every alphabet, set of separators, input length and table of *)
(* attribute types, that PKI_X509_NAME_new's scanner stays well typed      *)
(* (TypeOK, which the name_well_formed run checks on strings of up to 7    *)
(* characters): pnt and start never leave the string and its NUL, and      *)
(* every entry it adds is a key and a value over the alphabet with an RDN  *)
(* number.  The token copy, its un-escaping loop and the sscanf split are  *)
(* shown to produce strings over the alphabet, and the indices they pass   *)
(* to SubSeq to stay inside the token.                                     *)
(***************************************************************************)
EXTENDS NameTokenizer, SequenceTheorems, WellFoundedInduction, TLAPS

USE TokenizerAssumption

-----------------------------------------------------------------------------
(* Lemmas about the operators the scanner is built from. *)

(* A nonempty set of naturals has a least element. *)
LEMMA NatLeast ==
    ASSUME NEW T \in SUBSET Nat, T # {}
    PROVE  \E x \in T : \A y \in T : x <= y
<1>1. PICK x \in T : \A y \in T : ~(<<y, x>> \in OpToRel(<, Nat))
  BY NatLessThanWellFounded, WFMin
<1>2. ASSUME NEW y \in T PROVE x <= y
  <2>1. ~(<<y, x>> \in OpToRel(<, Nat))
    BY <1>1
  <2>2. ~(y < x)
    BY <2>1 DEF OpToRel
  <2>. QED
    BY <2>2
<1>. QED
  BY <1>2

(* An input string is a sequence over the alphabet. *)
LEMMA InputSeq ==
    ASSUME NEW x \in Inputs
    PROVE  x \in Seq(Alphabet)
BY SeqDef DEF Inputs

(* A left fold over 0..n, from b, by a step F that maps an index and a     *)
(* value of X into X, has a solution with values in X.  The step is a      *)
(* function, not an operator, so the lemma serves every scan of the        *)
(* module.                                                                  *)
Folds(g, X, b, F, m) ==
    /\ g \in [0..m -> X]
    /\ \A k \in 0..m : g[k] = IF k = 0 THEN b ELSE F[<<k, g[k - 1]>>]

LEMMA FoldExists ==
    ASSUME NEW X, NEW b \in X, NEW n \in Nat, NEW F \in [(1..n) \X X -> X]
    PROVE  \E g : Folds(g, X, b, F, n)
<1>. DEFINE T == {m \in 0..n : ~\E g : Folds(g, X, b, F, m)}
<1>. SUFFICES T = {}
  BY DEF T
<1>. SUFFICES ASSUME T # {} PROVE FALSE
  OBVIOUS
<1>0. T \in SUBSET Nat
  BY DEF T
<1>1. PICK m \in T : \A y \in T : m <= y
  BY <1>0, NatLeast
<1>2. m # 0
  <2>. DEFINE g0 == [k \in 0..0 |-> b]
  <2>1. Folds(g0, X, b, F, 0)
    BY DEF Folds, g0
  <2>. QED
    BY <1>1, <2>1 DEF T
<1>3. PICK g : Folds(g, X, b, F, m - 1)
  <2>1. m - 1 \in 0..n /\ m - 1 \notin T
    BY <1>1, <1>2 DEF T
  <2>. QED
    BY <2>1 DEF T
<1>. DEFINE h == [k \in 0..m |-> IF k < m THEN g[k] ELSE F[<<m, g[m - 1]>>]]
<1>4. h \in [0..m -> X]
  <2>1. m \in 1..n /\ g[m - 1] \in X
    BY <1>1, <1>2, <1>3 DEF Folds, T
  <2>2. F[<<m, g[m - 1]>>] \in X
    BY <2>1
  <2>. QED
    BY <1>1, <1>3, <2>2 DEF Folds, T, h
<1>5. ASSUME NEW k \in 0..m
      PROVE  h[k] = IF k = 0 THEN b ELSE F[<<k, h[k - 1]>>]
  <2>1. CASE k < m
    <3>1. k \in 0..(m - 1) /\ h[k] = g[k]
      BY <1>1, <2>1 DEF T, h
    <3>2. k # 0 => h[k - 1] = g[k - 1]
      BY <1>1, <2>1 DEF T, h
    <3>3. g[k] = IF k = 0 THEN b ELSE F[<<k, g[k - 1]>>]
      BY <3>1, <1>3 DEF Folds
    <3>. QED
      BY <3>1, <3>2, <3>3
  <2>2. CASE k = m
    BY <1>1, <1>2, <2>2 DEF T, h
  <2>. QED
    BY <1>1, <2>1, <2>2 DEF T
<1>6. Folds(h, X, b, F, m)
  BY <1>4, <1>5 DEF Folds
<1>. QED
  BY <1>1, <1>6

(* The loop's escape marks: esc[k] holds when the character at k is a    *)
(* backslash that the copy loop reaches itself, not one it copied as the  *)
(* escaped character of the backslash before it.                           *)
LEMMA EscFix ==
    ASSUME NEW A, NEW s \in Seq(A)
    PROVE  UnescapeEsc(s) = [k \in 0..Len(s) |-> k > 0 /\ s[k] = "\\" /\ ~UnescapeEsc(s)[k - 1]]
<1>. DEFINE n == Len(s)
<1>. DEFINE F == [p \in (1..n) \X BOOLEAN |-> s[p[1]] = "\\" /\ ~p[2]]
<1>1. n \in Nat
  BY LenProperties DEF n
<1>2. F \in [(1..n) \X BOOLEAN -> BOOLEAN]
  BY DEF F
<1>3. PICK g : Folds(g, BOOLEAN, FALSE, F, n)
  BY <1>1, <1>2, FoldExists
<1>4. g = [k \in 0..n |-> k > 0 /\ s[k] = "\\" /\ ~g[k - 1]]
  <2>1. ASSUME NEW k \in 0..n
        PROVE  g[k] = (k > 0 /\ s[k] = "\\" /\ ~g[k - 1])
    <3>1. CASE k = 0
      BY <3>1, <1>3 DEF Folds
    <3>2. CASE k # 0
      <4>0. k - 1 \in 0..n
        BY <3>2, <1>1
      <4>1. g[k] = F[<<k, g[k - 1]>>] /\ g[k - 1] \in BOOLEAN
        BY <3>2, <4>0, <1>3, Zenon DEF Folds
      <4>2. <<k, g[k - 1]>> \in (1..n) \X BOOLEAN
        BY <3>2, <4>1, <1>1
      <4>3. F[<<k, g[k - 1]>>] = (s[k] = "\\" /\ ~g[k - 1])
        BY <4>2 DEF F
      <4>. QED
        BY <3>2, <4>1, <4>3, <1>1
    <3>. QED
      BY <3>1, <3>2
  <2>. QED
    BY <2>1, <1>3 DEF Folds
<1>5. \E f : f = [k \in 0..n |-> k > 0 /\ s[k] = "\\" /\ ~f[k - 1]]
  BY <1>4
<1>. QED
  BY <1>5 DEF UnescapeEsc, n

(* The copy loop's output so far: out[k] is out[k - 1], or out[k - 1]     *)
(* with the character at k appended unless the loop skipped it.           *)
OutEq(o, s) ==
    o = [k \in 0..Len(s) |->
           IF k = 0 THEN << >>
           ELSE IF UnescapeEsc(s)[k] THEN o[k - 1] ELSE Append(o[k - 1], s[k])]

LEMMA OutFix ==
    ASSUME NEW A, NEW s \in Seq(A)
    PROVE  OutEq(UnescapeOut(s), s)
<1>. DEFINE n == Len(s)
<1>. DEFINE esc == UnescapeEsc(s)
<1>. DEFINE F == [p \in (1..n) \X Seq(A) |->
                    IF esc[p[1]] THEN p[2] ELSE Append(p[2], s[p[1]])]
<1>1. n \in Nat
  BY LenProperties DEF n
<1>2. F \in [(1..n) \X Seq(A) -> Seq(A)]
  <2>1. ASSUME NEW i \in 1..n, NEW o \in Seq(A)
        PROVE  Append(o, s[i]) \in Seq(A)
    <3>1. s[i] \in A
      BY ElementOfSeq DEF n
    <3>. QED
      BY <3>1, AppendProperties
  <2>. QED
    BY <2>1 DEF F
<1>3. PICK g : Folds(g, Seq(A), << >>, F, n)
  BY <1>1, <1>2, EmptySeq, FoldExists
<1>4. OutEq(g, s)
  <2>1. ASSUME NEW k \in 0..n
        PROVE  g[k] = IF k = 0 THEN << >>
                      ELSE IF esc[k] THEN g[k - 1] ELSE Append(g[k - 1], s[k])
    <3>1. CASE k = 0
      BY <3>1, <1>3, Zenon DEF Folds
    <3>2. CASE k # 0
      <4>0. k - 1 \in 0..n /\ k \in 1..n
        BY <3>2, <1>1
      <4>1. g[k] = F[<<k, g[k - 1]>>] /\ g[k - 1] \in Seq(A)
        BY <3>2, <4>0, <1>3, Zenon DEF Folds
      <4>2. <<k, g[k - 1]>> \in (1..n) \X Seq(A)
        BY <4>0, <4>1
      <4>3. F[<<k, g[k - 1]>>] = IF esc[k] THEN g[k - 1] ELSE Append(g[k - 1], s[k])
        BY <4>2, Zenon DEF F
      <4>. QED
        BY <3>2, <4>1, <4>3, Zenon
    <3>. QED
      BY <3>1, <3>2
  <2>. QED
    BY <2>1, <1>3, Zenon DEF Folds, OutEq, esc, n
<1>. QED
  BY <1>4, Zenon DEF UnescapeOut, OutEq

(* Every stage of the copy loop's output is a string over the alphabet of *)
(* the input.                                                              *)
LEMMA OutType ==
    ASSUME NEW A, NEW s \in Seq(A)
    PROVE  \A k \in 0..Len(s) : UnescapeOut(s)[k] \in Seq(A)
<1>. DEFINE n == Len(s)
<1>. DEFINE o == UnescapeOut(s)
<1>1. n \in Nat
  BY LenProperties DEF n
<1>2. OutEq(o, s)
  BY OutFix DEF o
<1>. DEFINE T == {k \in 0..n : o[k] \notin Seq(A)}
<1>3. T = {}
  <2>. SUFFICES ASSUME T # {} PROVE FALSE
    OBVIOUS
  <2>1. T \in SUBSET Nat
    BY <1>1 DEF T
  <2>2. PICK m \in T : \A y \in T : m <= y
    BY <2>1, NatLeast
  <2>3. m \in 0..n /\ o[m] \notin Seq(A)
    BY <2>2 DEF T
  <2>4. CASE m = 0
    BY <2>3, <2>4, <1>2, EmptySeq DEF OutEq, n
  <2>5. CASE m # 0
    <3>1. m - 1 \in 0..n /\ m - 1 \notin T
      BY <2>2, <2>3, <2>5, <1>1 DEF T
    <3>2. o[m - 1] \in Seq(A)
      BY <3>1 DEF T
    <3>3. s[m] \in A
      BY <2>3, <2>5, ElementOfSeq DEF n
    <3>4. Append(o[m - 1], s[m]) \in Seq(A)
      BY <3>2, <3>3, AppendProperties
    <3>5. o[m] = IF UnescapeEsc(s)[m] THEN o[m - 1] ELSE Append(o[m - 1], s[m])
      BY <2>3, <2>5, <1>2 DEF OutEq, n
    <3>. QED
      BY <2>3, <3>2, <3>4, <3>5
  <2>. QED
    BY <2>4, <2>5
<1>. QED
  BY <1>3 DEF T, o, n

(* The un-escaped token is a string over the alphabet of the input. *)
LEMMA UnescapeType ==
    ASSUME NEW A, NEW s \in Seq(A)
    PROVE  Unescape(s) \in Seq(A)
<1>1. Len(s) \in 0..Len(s)
  BY LenProperties
<1>. QED
  BY <1>1, OutType DEF Unescape

(* The token holds an '=' character. *)
HasEq(t) == \E i \in 1..Len(t) : t[i] = "="

(* The copy loop writes at most one character per character it reads, and *)
(* never drops an '=': only a backslash it reaches itself is left out.    *)
LEMMA OutBounds ==
    ASSUME NEW A, NEW s \in Seq(A)
    PROVE  \A k \in 0..Len(s) :
             /\ Len(UnescapeOut(s)[k]) <= k
             /\ (\E j \in 1..k : s[j] = "=") => HasEq(UnescapeOut(s)[k])
<1>. DEFINE n == Len(s)
<1>. DEFINE o == UnescapeOut(s)
<1>. DEFINE P(k) == /\ Len(o[k]) <= k
                    /\ (\E j \in 1..k : s[j] = "=") => HasEq(o[k])
<1>1. n \in Nat
  BY LenProperties DEF n
<1>2. OutEq(o, s) /\ \A k \in 0..n : o[k] \in Seq(A)
  BY OutFix, OutType DEF o, n
<1>3. UnescapeEsc(s) = [k \in 0..n |-> k > 0 /\ s[k] = "\\" /\ ~UnescapeEsc(s)[k - 1]]
  BY EscFix DEF n
<1>. DEFINE T == {k \in 0..n : ~P(k)}
<1>4. T = {}
  <2>. SUFFICES ASSUME T # {} PROVE FALSE
    OBVIOUS
  <2>1. T \in SUBSET Nat
    BY <1>1 DEF T
  <2>2. PICK m \in T : \A y \in T : m <= y
    BY <2>1, NatLeast
  <2>3. m \in 0..n /\ ~P(m)
    BY <2>2 DEF T
  <2>4. CASE m = 0
    <3>1. o[0] = << >>
      BY <1>1, <1>2 DEF OutEq, n
    <3>. QED
      BY <2>3, <2>4, <3>1 DEF P
  <2>5. CASE m # 0
    <3>1. m - 1 \in 0..n /\ m \in 1..n
      BY <2>3, <2>5, <1>1
    <3>2. P(m - 1)
      BY <2>2, <3>1 DEF T
    <3>3. o[m - 1] \in Seq(A) /\ Len(o[m - 1]) \in Nat /\ s[m] \in A
      BY <1>2, <3>1, LenProperties, ElementOfSeq DEF n
    <3>4. o[m] = IF UnescapeEsc(s)[m] THEN o[m - 1] ELSE Append(o[m - 1], s[m])
      BY <3>1, <2>5, <1>2, Zenon DEF OutEq, n
    <3>5. ASSUME NEW j \in 1..m, s[j] = "=", j # m
          PROVE  HasEq(o[m - 1])
      BY <3>2, <3>5 DEF P
    <3>6. CASE UnescapeEsc(s)[m]
      <4>1. s[m] = "\\"
        BY <3>1, <3>6, <1>3
      <4>2. o[m] = o[m - 1]
        BY <3>4, <3>6
      <4>3. P(m)
        <5>1. Len(o[m]) <= m
          BY <3>2, <3>3, <4>2 DEF P
        <5>2. ASSUME NEW j \in 1..m, s[j] = "=" PROVE HasEq(o[m])
          BY <5>2, <4>1, <4>2, <3>5
        <5>. QED
          BY <5>1, <5>2 DEF P
      <4>. QED
        BY <2>3, <4>3
    <3>7. CASE ~UnescapeEsc(s)[m]
      <4>1. o[m] = Append(o[m - 1], s[m])
        BY <3>4, <3>7
      <4>2. /\ Len(o[m]) = Len(o[m - 1]) + 1
            /\ \A i \in 1..Len(o[m - 1]) : o[m][i] = o[m - 1][i]
            /\ o[m][Len(o[m - 1]) + 1] = s[m]
        BY <3>3, <4>1, AppendProperties
      <4>3. Len(o[m]) <= m
        BY <3>2, <3>3, <4>2 DEF P
      <4>4. ASSUME NEW j \in 1..m, s[j] = "=" PROVE HasEq(o[m])
        <5>1. CASE j = m
          BY <5>1, <4>4, <4>2, <3>3 DEF HasEq
        <5>2. CASE j # m
          <6>1. PICK i \in 1..Len(o[m - 1]) : o[m - 1][i] = "="
            BY <5>2, <4>4, <3>5 DEF HasEq
          <6>2. i \in 1..Len(o[m]) /\ o[m][i] = "="
            BY <6>1, <4>2, <3>3
          <6>. QED
            BY <6>2 DEF HasEq
        <5>. QED
          BY <5>1, <5>2
      <4>. QED
        BY <2>3, <4>3, <4>4 DEF P
    <3>. QED
      BY <3>6, <3>7
  <2>. QED
    BY <2>4, <2>5
<1>. QED
  BY <1>4 DEF T, P, o, n

(* A %[^...] match stops at the first stop character, or at the end of   *)
(* the string.                                                             *)
LEMMA SpanEndMin ==
    ASSUME NEW A, NEW s \in Seq(A), NEW C
    PROVE  /\ SpanEnd(s, C) \in 1..Len(s) + 1
           /\ \A j \in 1..Len(s) : s[j] \in C => SpanEnd(s, C) <= j
<1>. DEFINE S == Stops(s, C)
<1>1. Len(s) \in Nat
  BY LenProperties
<1>2. S \in SUBSET Nat /\ S # {}
  BY <1>1 DEF S, Stops
<1>3. SpanEnd(s, C) \in S /\ \A j \in S : SpanEnd(s, C) <= j
  <2>1. \E i \in S : \A j \in S : i <= j
    BY <1>2, NatLeast
  <2>. QED
    BY <2>1 DEF SpanEnd, S
<1>. QED
  BY <1>1, <1>3 DEF S, Stops

(* The match is a prefix of the string: a string over its alphabet, one  *)
(* character shorter than where it stops.                                  *)
LEMMA SpanType ==
    ASSUME NEW A, NEW s \in Seq(A), NEW C
    PROVE  /\ Span(s, C) \in Seq(A)
           /\ Len(Span(s, C)) = SpanEnd(s, C) - 1
<1>1. Len(s) \in Nat /\ SpanEnd(s, C) \in 1..Len(s) + 1
  BY SpanEndMin, LenProperties
<1>2. \A i \in 1..SpanEnd(s, C) - 1 : s[i] \in A
  BY <1>1, ElementOfSeq
<1>. QED
  BY <1>1, <1>2, SubSeqProperties DEF Span

(* sscanf's two matches are strings over the alphabet of the token. *)
LEMMA ScanType ==
    ASSUME NEW A, NEW t \in Seq(A)
    PROVE  ScanKey(t) \in Seq(A) /\ ScanVal(t) \in Seq(A)
<1>1. ScanKey(t) \in Seq(A)
  BY SpanType DEF ScanKey
<1>2. CASE ScanKey(t) = << >> \/ Len(t) = Len(ScanKey(t))
  BY <1>1, <1>2, EmptySeq DEF ScanVal
<1>3. CASE ~(ScanKey(t) = << >> \/ Len(t) = Len(ScanKey(t)))
  <2>1. Len(ScanKey(t)) \in Nat /\ Len(t) \in Nat
    BY <1>1, LenProperties
  <2>2. \A i \in Len(ScanKey(t)) + 2..Len(t) : t[i] \in A
    BY <2>1, ElementOfSeq
  <2>3. SubSeq(t, Len(ScanKey(t)) + 2, Len(t)) \in Seq(A)
    BY <2>1, <2>2, SubSeqProperties
  <2>. QED
    BY <1>1, <1>3, <2>3, SpanType DEF ScanVal
<1>. QED
  BY <1>1, <1>2, <1>3

(* A token with an '=' splits into a key and a value that are each      *)
(* shorter than the token: the key stops at the first '=', and the value *)
(* is taken from after it.                                                 *)
LEMMA ScanFits ==
    ASSUME NEW A, NEW t \in Seq(A), HasEq(t)
    PROVE  /\ Len(ScanKey(t)) + 1 <= Len(t)
           /\ Len(ScanVal(t)) + 1 <= Len(t)
<1>1. PICK j \in 1..Len(t) : t[j] = "="
  BY DEF HasEq
<1>2. Len(t) \in Nat
  BY LenProperties
<1>3. Len(ScanKey(t)) + 1 <= Len(t)
  <2>1. SpanEnd(t, {"="}) <= j /\ SpanEnd(t, {"="}) \in 1..Len(t) + 1
    BY <1>1, SpanEndMin
  <2>2. Len(Span(t, {"="})) = SpanEnd(t, {"="}) - 1
    BY SpanType
  <2>. QED
    BY <1>1, <1>2, <2>1, <2>2 DEF ScanKey
<1>4. ScanKey(t) \in Seq(A) /\ Len(ScanKey(t)) \in Nat
  BY ScanType, LenProperties
<1>5. Len(ScanVal(t)) + 1 <= Len(t)
  <2>1. CASE ScanKey(t) = << >> \/ Len(t) = Len(ScanKey(t))
    <3>1. ScanVal(t) = << >>
      BY <2>1 DEF ScanVal
    <3>. QED
      BY <1>1, <1>2, <3>1, EmptySeq
  <2>2. CASE ~(ScanKey(t) = << >> \/ Len(t) = Len(ScanKey(t)))
    <3>. DEFINE u == SubSeq(t, Len(ScanKey(t)) + 2, Len(t))
    <3>1. \A i \in Len(ScanKey(t)) + 2..Len(t) : t[i] \in A
      BY <1>2, <1>4, ElementOfSeq
    <3>2. u \in Seq(A) /\ Len(u) + 1 <= Len(t)
      <4>1. Len(u) = IF Len(ScanKey(t)) + 2 <= Len(t)
                     THEN Len(t) - (Len(ScanKey(t)) + 2) + 1 ELSE 0
        BY <1>2, <1>4, <3>1, SubSeqProperties DEF u
      <4>2. u \in Seq(A)
        BY <1>2, <1>4, <3>1, SubSeqProperties DEF u
      <4>. QED
        BY <1>1, <1>2, <1>4, <4>1, <4>2
    <3>3. Len(Span(u, {"\\"})) = SpanEnd(u, {"\\"}) - 1
          /\ SpanEnd(u, {"\\"}) \in 1..Len(u) + 1
      BY <3>2, SpanType, SpanEndMin
    <3>4. ScanVal(t) = Span(u, {"\\"})
      BY <2>2 DEF ScanVal, u
    <3>. QED
      BY <3>2, <3>3, <3>4, LenProperties
  <2>. QED
    BY <2>1, <2>2
<1>. QED
  BY <1>3, <1>5

-----------------------------------------------------------------------------
(* TypeOK is inductive: each branch of the loop body keeps pnt and start *)
(* within the string and its NUL, and each added entry well formed.       *)

LEMMA InitTypeOK == Init => TypeOK
<1>. SUFFICES ASSUME Init PROVE TypeOK
  OBVIOUS
<1>1. Len(in) \in Nat
  BY InputSeq, LenProperties DEF Init
<1>. QED
  BY <1>1, EmptySeq DEF Init, TypeOK

LEMMA SeekAttributeTypeOK == TypeOK /\ SeekAttribute => TypeOK'
<1>. SUFFICES ASSUME TypeOK, SeekAttribute PROVE TypeOK'
  OBVIOUS
<1>1. Len(in) \in Nat
  BY InputSeq, LenProperties DEF TypeOK
<1>. QED
  BY <1>1 DEF TypeOK, SeekAttribute

LEMMA InAttributeTypeTypeOK == TypeOK /\ InAttributeType => TypeOK'
<1>. SUFFICES ASSUME TypeOK, InAttributeType PROVE TypeOK'
  OBVIOUS
<1>1. Len(in) \in Nat
  BY InputSeq, LenProperties DEF TypeOK
<1>. QED
  BY <1>1 DEF TypeOK, InAttributeType

LEMMA AfterEscapeTypeOK == TypeOK /\ AfterEscape => TypeOK'
<1>. SUFFICES ASSUME TypeOK, AfterEscape PROVE TypeOK'
  OBVIOUS
<1>1. Len(in) \in Nat
  BY InputSeq, LenProperties DEF TypeOK
<1>. QED
  BY <1>1 DEF TypeOK, AfterEscape

LEMMA InAttributeValueTypeOK == TypeOK /\ InAttributeValue => TypeOK'
<1>. SUFFICES ASSUME TypeOK, InAttributeValue PROVE TypeOK'
  OBVIOUS
<1>1. Len(in) \in Nat
  BY InputSeq, LenProperties DEF TypeOK
<1>. QED
  BY <1>1 DEF TypeOK, InAttributeValue

LEMMA FinishTypeOK == TypeOK /\ Finish => TypeOK'
BY DEF TypeOK, Finish

(* The token ends at pnt, or before it, so the copy reads only characters *)
(* of the string; its key and value are strings over the alphabet and the *)
(* new entry's RDN number is a natural.                                    *)
LEMMA RegisterAttributeTypeOK == TypeOK /\ RegisterAttribute => TypeOK'
<1>. SUFFICES ASSUME TypeOK, RegisterAttribute PROVE TypeOK'
  OBVIOUS
<1>. DEFINE set == IF mrdn = 0 /\ Char(pnt) = "+" THEN 1 ELSE mrdn
<1>. DEFINE p == IF Char(pnt) # "+" THEN pnt + 1 ELSE pnt
<1>. DEFINE raw == SubSeq(in, start, start + TokenLen - 1)
<1>1. in \in Seq(Alphabet) /\ Len(in) \in Nat
  BY InputSeq, LenProperties DEF TypeOK
<1>2. raw \in Seq(Alphabet)
  <2>1. start + TokenLen - 1 <= Len(in)
    BY <1>1 DEF TypeOK, RegisterAttribute, TokenLen
  <2>2. \A i \in start..start + TokenLen - 1 : in[i] \in Alphabet
    BY <1>1, <2>1, ElementOfSeq DEF TypeOK, TokenLen
  <2>3. start \in Int /\ start + TokenLen - 1 \in Int
    BY <1>1 DEF TypeOK, TokenLen
  <2>. QED
    BY <2>2, <2>3, SubSeqProperties DEF raw
<1>3. PICK tok \in {Token} :
        LET key == ScanKey(tok) IN
        IF AddSucceeds(key, ScanVal(tok))
        THEN /\ entries' = Append(entries,
                              [key |-> key, val |-> ScanVal(tok), set |-> NextSet(set)])
             /\ pnt' = p
             /\ mrdn' = 0
             /\ status' = IF Char(p) # NUL THEN 0 ELSE status
             /\ UNCHANGED <<pc, result>>
        ELSE /\ pc' = "done"
             /\ result' = "fail"
             /\ UNCHANGED <<pnt, mrdn, status, entries>>
  BY DEF RegisterAttribute, set, p
<1>4. ScanKey(tok) \in Seq(Alphabet) /\ ScanVal(tok) \in Seq(Alphabet)
  BY <1>2, <1>3, UnescapeType, ScanType DEF Token, raw
<1>5. UNCHANGED <<in, start, name>>
  BY DEF RegisterAttribute
<1>6. CASE AddSucceeds(ScanKey(tok), ScanVal(tok))
  <2>1. NextSet(set) \in Nat
    <3>1. CASE entries = << >>
      BY <3>1 DEF NextSet
    <3>2. CASE entries # << >>
      <4>1. Len(entries) \in 1..Len(entries) /\ Len(entries) \in Nat
        BY <3>2, EmptySeq, LenProperties DEF TypeOK
      <4>2. entries[Len(entries)] \in Entry
        BY <4>1, ElementOfSeq DEF TypeOK
      <4>3. entries[Len(entries)].set \in Nat
        BY <4>2 DEF Entry
      <4>. QED
        BY <3>2, <4>3 DEF NextSet
    <3>. QED
      BY <3>1, <3>2
  <2>2. [key |-> ScanKey(tok), val |-> ScanVal(tok), set |-> NextSet(set)] \in Entry
    BY <1>4, <2>1 DEF Entry
  <2>3. entries' \in Seq(Entry)
    BY <1>3, <1>6, <2>2, AppendProperties DEF TypeOK
  <2>4. pnt' \in 1..Len(in) + 1 /\ status' \in 0..4 /\ mrdn' \in {-1, 0, 1}
    BY <1>1, <1>3, <1>6 DEF TypeOK, RegisterAttribute, p
  <2>5. UNCHANGED <<pc, result>>
    BY <1>3, <1>6
  <2>. QED
    BY <1>5, <2>3, <2>4, <2>5 DEF TypeOK
<1>7. CASE ~AddSucceeds(ScanKey(tok), ScanVal(tok))
  <2>1. pc' = "done" /\ result' = "fail" /\ UNCHANGED <<pnt, mrdn, status, entries>>
    BY <1>3, <1>7
  <2>. QED
    BY <1>5, <2>1 DEF TypeOK
<1>. QED
  BY <1>6, <1>7

LEMMA NextTypeOK == TypeOK /\ [Next]_vars => TypeOK'
<1>. SUFFICES ASSUME TypeOK, [Next]_vars PROVE TypeOK'
  OBVIOUS
<1>1. CASE SeekAttribute
  BY <1>1, SeekAttributeTypeOK
<1>2. CASE InAttributeType
  BY <1>2, InAttributeTypeTypeOK
<1>3. CASE AfterEscape
  BY <1>3, AfterEscapeTypeOK
<1>4. CASE InAttributeValue
  BY <1>4, InAttributeValueTypeOK
<1>5. CASE RegisterAttribute
  BY <1>5, RegisterAttributeTypeOK
<1>6. CASE Finish
  BY <1>6, FinishTypeOK
<1>7. CASE UNCHANGED vars
  BY <1>7 DEF TypeOK, vars
<1>. QED
  BY <1>1, <1>2, <1>3, <1>4, <1>5, <1>6, <1>7 DEF Next

(* PKI_X509_NAME_new never reads outside its argument: in every reachable *)
(* state pnt and start index a character of the name or its NUL, the     *)
(* state and the RDN flag keep their ranges, and every entry it has added *)
(* to the X509_NAME has a key and a value over the input's alphabet and a *)
(* natural RDN number.  The name_well_formed run checks it on strings of  *)
(* up to 7 characters.                                                     *)
THEOREM TypeCorrect == Spec => []TypeOK
BY InitTypeOK, NextTypeOK, PTL DEF Spec

-----------------------------------------------------------------------------
(* The key and value buffers.  While the scanner is in a value, the '='   *)
(* that ended the type lies between start and pnt, so it is inside the    *)
(* token that RegisterAttribute copies.                                    *)

EqInToken == pc = "loop" /\ status \in {3, 4} => \E i \in start..pnt - 1 : in[i] = "="

IInv == TypeOK /\ start <= pnt /\ EqInToken

LEMMA InitIInv == Init => IInv
BY InitTypeOK DEF Init, IInv, EqInToken

LEMMA SeekAttributeIInv == IInv /\ SeekAttribute => IInv'
<1>. SUFFICES ASSUME IInv, SeekAttribute PROVE IInv'
  OBVIOUS
<1>1. TypeOK'
  BY SeekAttributeTypeOK DEF IInv
<1>2. start' <= pnt' /\ status' \in {0, 1}
  BY InputSeq, LenProperties DEF IInv, TypeOK, SeekAttribute
<1>. QED
  BY <1>1, <1>2 DEF IInv, EqInToken

LEMMA InAttributeTypeIInv == IInv /\ InAttributeType => IInv'
<1>. SUFFICES ASSUME IInv, InAttributeType PROVE IInv'
  OBVIOUS
<1>1. TypeOK'
  BY InAttributeTypeTypeOK DEF IInv
<1>2. Len(in) \in Nat /\ pnt \in 1..Len(in) /\ start \in Nat /\ start <= pnt
  BY InputSeq, LenProperties DEF IInv, TypeOK, InAttributeType
<1>3. start' <= pnt'
  BY <1>2 DEF InAttributeType
<1>4. EqInToken'
  <2>1. CASE Char(pnt) = "="
    <3>1. in[pnt] = "=" /\ in' = in /\ start' = start /\ pnt' = pnt + 1
      BY <1>2, <2>1 DEF Char, InAttributeType
    <3>. QED
      BY <1>2, <3>1 DEF EqInToken
  <2>2. CASE Char(pnt) # "="
    <3>1. status' \in {1, 2}
      BY <2>2 DEF InAttributeType
    <3>. QED
      BY <3>1 DEF EqInToken
  <2>. QED
    BY <2>1, <2>2
<1>. QED
  BY <1>1, <1>3, <1>4 DEF IInv

LEMMA AfterEscapeIInv == IInv /\ AfterEscape => IInv'
<1>. SUFFICES ASSUME IInv, AfterEscape PROVE IInv'
  OBVIOUS
<1>1. TypeOK'
  BY AfterEscapeTypeOK DEF IInv
<1>2. CASE status = 4
  <2>1. PICK i \in start..pnt - 1 : in[i] = "="
    BY <1>2 DEF IInv, EqInToken, AfterEscape
  <2>. QED
    BY <1>1, <1>2, <2>1 DEF IInv, TypeOK, EqInToken, AfterEscape
<1>3. CASE status = 2
  BY <1>1, <1>3 DEF IInv, TypeOK, EqInToken, AfterEscape
<1>. QED
  BY <1>2, <1>3 DEF AfterEscape

LEMMA InAttributeValueIInv == IInv /\ InAttributeValue => IInv'
<1>. SUFFICES ASSUME IInv, InAttributeValue PROVE IInv'
  OBVIOUS
<1>1. TypeOK'
  BY InAttributeValueTypeOK DEF IInv
<1>2. PICK i \in start..pnt - 1 : in[i] = "="
  BY DEF IInv, EqInToken, InAttributeValue
<1>. QED
  BY <1>1, <1>2 DEF IInv, TypeOK, EqInToken, InAttributeValue

LEMMA RegisterAttributeIInv == IInv /\ RegisterAttribute => IInv'
<1>. SUFFICES ASSUME IInv, RegisterAttribute PROVE IInv'
  OBVIOUS
<1>. DEFINE set == IF mrdn = 0 /\ Char(pnt) = "+" THEN 1 ELSE mrdn
<1>. DEFINE p == IF Char(pnt) # "+" THEN pnt + 1 ELSE pnt
<1>1. TypeOK'
  BY RegisterAttributeTypeOK DEF IInv
<1>2. PICK i \in start..pnt - 1 : in[i] = "="
  BY DEF IInv, EqInToken, RegisterAttribute
<1>3. \/ pc' = pc /\ pnt' = pnt
      \/ pc' = pc /\ pnt' = pnt + 1
      \/ pc' = "done" /\ pnt' = pnt
  <2>1. PICK tok \in {Token} :
          LET key == ScanKey(tok) IN
          IF AddSucceeds(key, ScanVal(tok))
          THEN /\ entries' = Append(entries,
                                [key |-> key, val |-> ScanVal(tok), set |-> NextSet(set)])
               /\ pnt' = p
               /\ mrdn' = 0
               /\ status' = IF Char(p) # NUL THEN 0 ELSE status
               /\ UNCHANGED <<pc, result>>
          ELSE /\ pc' = "done"
               /\ result' = "fail"
               /\ UNCHANGED <<pnt, mrdn, status, entries>>
    BY DEF RegisterAttribute, set, p
  <2>. QED
    BY <2>1 DEF p
<1>4. in' = in /\ start' = start /\ pnt \in Int /\ start \in Int /\ start <= pnt
  BY DEF RegisterAttribute, IInv, TypeOK
<1>5. in'[i] = "="
  BY <1>2, <1>4, Zenon
<1>6. CASE pc' = pc /\ pnt' = pnt
  BY <1>1, <1>2, <1>4, <1>5, <1>6 DEF IInv, EqInToken
<1>7. CASE pc' = pc /\ pnt' = pnt + 1
  BY <1>1, <1>2, <1>4, <1>5, <1>7 DEF IInv, EqInToken
<1>8. CASE pc' = "done" /\ pnt' = pnt
  BY <1>1, <1>4, <1>8 DEF IInv, EqInToken
<1>. QED
  BY <1>3, <1>6, <1>7, <1>8

LEMMA FinishIInv == IInv /\ Finish => IInv'
BY FinishTypeOK DEF IInv, EqInToken, Finish

LEMMA NextIInv == IInv /\ [Next]_vars => IInv'
<1>. SUFFICES ASSUME IInv, [Next]_vars PROVE IInv'
  OBVIOUS
<1>1. CASE SeekAttribute
  BY <1>1, SeekAttributeIInv
<1>2. CASE InAttributeType
  BY <1>2, InAttributeTypeIInv
<1>3. CASE AfterEscape
  BY <1>3, AfterEscapeIInv
<1>4. CASE InAttributeValue
  BY <1>4, InAttributeValueIInv
<1>5. CASE RegisterAttribute
  BY <1>5, RegisterAttributeIInv
<1>6. CASE Finish
  BY <1>6, FinishIInv
<1>7. CASE UNCHANGED vars
  BY <1>7 DEF IInv, TypeOK, EqInToken, vars
<1>. QED
  BY <1>1, <1>2, <1>3, <1>4, <1>5, <1>6, <1>7 DEF Next

(* From the '=' inside the token to the buffers: the token is the len     *)
(* characters from start, it keeps that '=' through the un-escaping and   *)
(* is no longer than len, so both sscanf matches are shorter than len.    *)
LEMMA IInvFits == IInv => ScanFitsBuffers
<1>. SUFFICES ASSUME IInv, pc = "loop", status = 3, pnt <= Len(in)
              PROVE  /\ Len(ScanKey(Token)) + 1 <= TokenLen
                     /\ Len(ScanVal(Token)) + 1 <= TokenLen
  BY DEF ScanFitsBuffers
<1>. DEFINE raw == SubSeq(in, start, start + TokenLen - 1)
<1>1. in \in Seq(Alphabet) /\ Len(in) \in Nat /\ start \in 1..Len(in) + 1 /\ pnt \in Nat
  BY InputSeq, LenProperties DEF IInv, TypeOK
<1>2. PICK i \in start..pnt - 1 : in[i] = "="
  BY DEF IInv, EqInToken
<1>3. /\ TokenLen \in Nat
      /\ start + TokenLen - 1 <= Len(in)
      /\ i - start + 1 \in 1..TokenLen
  BY <1>1, <1>2 DEF TokenLen
<1>4. \A k \in start..start + TokenLen - 1 : in[k] \in Alphabet
  BY <1>1, <1>3, ElementOfSeq
<1>5. /\ raw \in Seq(Alphabet)
      /\ Len(raw) = TokenLen
      /\ raw[i - start + 1] = in[i]
  BY <1>1, <1>3, <1>4, SubSeqProperties DEF raw
<1>6. Token = UnescapeOut(raw)[Len(raw)]
  BY DEF Token, Unescape, raw
<1>7. Len(Token) <= TokenLen /\ HasEq(Token) /\ Token \in Seq(Alphabet)
  <2>1. Len(raw) \in 0..Len(raw)
    <3>1. TokenLen \in 0..TokenLen
      BY <1>3
    <3>. QED
      BY <3>1, <1>5, Zenon
  <2>2. \E j \in 1..Len(raw) : raw[j] = "="
    BY <1>2, <1>3, <1>5
  <2>3. Len(UnescapeOut(raw)[Len(raw)]) <= Len(raw)
        /\ HasEq(UnescapeOut(raw)[Len(raw)])
    BY <1>5, <2>1, <2>2, OutBounds
  <2>4. Token \in Seq(Alphabet)
    BY <1>5, UnescapeType DEF Token, raw
  <2>. QED
    BY <1>5, <1>6, <2>3, <2>4
<1>8. /\ Len(ScanKey(Token)) + 1 <= Len(Token)
      /\ Len(ScanVal(Token)) + 1 <= Len(Token)
  BY <1>7, ScanFits
<1>9. Len(Token) \in Nat /\ Len(ScanKey(Token)) \in Nat /\ Len(ScanVal(Token)) \in Nat
  BY <1>7, ScanType, LenProperties
<1>. QED
  BY <1>3, <1>7, <1>8, <1>9

(* PKI_X509_NAME_new never overruns the buffers it hands to sscanf: in    *)
(* every reachable state in which the scanner is inside a value, the key   *)
(* and the value that sscanf(token, "%[^=]=%[^\\]", key, val) would write, *)
(* each with its NUL, fit in the len bytes PKI_Malloc gave key and val.    *)
(* The name_well_formed run checks it on strings of up to 7 characters.   *)
THEOREM ScanFitsBuffersInvariant == Spec => []ScanFitsBuffers
<1>1. Init => IInv
  BY InitIInv
<1>2. IInv /\ [Next]_vars => IInv'
  BY NextIInv
<1>3. IInv => ScanFitsBuffers
  BY IInvFits
<1>. QED
  BY <1>1, <1>2, <1>3, PTL DEF Spec
====
