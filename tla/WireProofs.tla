----------------------------- MODULE WireProofs -----------------------------
(***************************************************************************)
(* Proofs about Wire, for every set of operations the records can hold:    *)
(* what is written for an operation is read back as that operation with    *)
(* its fields narrowed to their widths, up to the second write nothing     *)
(* changes any more, and a payload that ends too early is refused.         *)
(*                                                                         *)
(* The argument follows the reader through the payload. Took(r, p, i, k,   *)
(* got) says what a read that starts behind field i does with the payload  *)
(* p cut to k fields: if the fields it needs are there, it stands behind   *)
(* them and has got what was written, and if they are not it has failed    *)
(* for want of them. Reached says the same of a whole run of reads. Each   *)
(* kind of value, list, map and operation has a lemma of that form, and    *)
(* Carried puts them together for an operation.                            *)
(***************************************************************************)
EXTENDS Wire, SequenceTheorems, FiniteSetTheorems, WellFoundedInduction, TLAPS

-----------------------------------------------------------------------------
(* Induction over the numbers *)

\* The order of the numbers as a relation, to which the library's theorems on
\* well-founded orders apply.
LEMMA NatOrder ==
  \E R : /\ IsWellFoundedOn(R, Nat)
         /\ \A x, y \in Nat : <<x, y>> \in R <=> x < y
<1>1. \A x, y \in Nat : <<x, y>> \in OpToRel(<, Nat) <=> x < y
  BY DEF OpToRel
<1>2. QED  BY <1>1, NatLessThanWellFounded, Zenon

\* A set of numbers has a least one: what induction rests on.
LEMMA LeastNat ==
  ASSUME NEW S \in SUBSET Nat, S # {}
  PROVE  \E m \in S : \A k \in S : m <= k
<1>1. PICK R : /\ IsWellFoundedOn(R, Nat)
               /\ \A x, y \in Nat : <<x, y>> \in R <=> x < y
  BY NatOrder
<1>2. IsWellFoundedOn(R, Nat) /\ S \subseteq Nat /\ S # {}
  BY <1>1
<1>3. \E x \in S : \A y \in S : ~ (<<y, x>> \in R)
  BY <1>2, WFMin, Zenon
<1>4. PICK x \in S : \A y \in S : ~ (<<y, x>> \in R)
  BY <1>3
<1>5. x \in Nat /\ \A y \in S : y \in Nat /\ ~(y < x)
  BY <1>1, <1>4
<1>6. \A y \in S : x <= y
  BY <1>5
<1>7. QED  BY <1>6

-----------------------------------------------------------------------------
(* Fields, and what a read takes of a payload *)

Width == {"u8", "u16", "u32", "u64", "utf8"}
Field == [width : Width, bits : (Nat \cup Text) \cup Float]

\* To read one thing more, and several; what was read since, and before.
Add(got, x) == Append(got, x)
Joined(got, xs) == got \o xs
Since(g, h) == SubSeq(g, Len(h) + 1, Len(g))
Before(g, m) == SubSeq(g, 1, Len(g) - m)

\* A sequence, of whatever elements.
Listed(got) == \E S : got \in Seq(S)

LEMMA ListedTuples ==
  /\ Listed(<<>>) /\ Len(<<>>) = 0
  /\ \A a : Listed(<<a>>) /\ Len(<<a>>) = 1
  /\ \A a, b : Listed(<<a, b>>) /\ Len(<<a, b>>) = 2
<1>1. <<>> \in Seq({}) /\ Len(<<>>) = 0
  BY EmptySeq
<1>2. ASSUME NEW a PROVE Listed(<<a>>) /\ Len(<<a>>) = 1
  <2>1. <<a>> \in Seq({a})
    OBVIOUS
  <2>2. QED  BY <2>1 DEF Listed
<1>3. ASSUME NEW a, NEW b PROVE Listed(<<a, b>>) /\ Len(<<a, b>>) = 2
  <2>1. <<a, b>> \in Seq({a, b})
    OBVIOUS
  <2>2. QED  BY <2>1 DEF Listed
<1>4. QED  BY <1>1, <1>2, <1>3 DEF Listed

LEMMA ListedAppend ==
  ASSUME NEW got, Listed(got), NEW x
  PROVE  /\ Len(got) \in Nat
         /\ Listed(Append(got, x))
         /\ Len(Append(got, x)) = Len(got) + 1
         /\ \A j \in 1 .. Len(got) : Append(got, x)[j] = got[j]
         /\ Append(got, x)[Len(got) + 1] = x
         /\ Last(Append(got, x)) = x
         /\ SubSeq(Append(got, x), 1, Len(got)) = got
<1>1. PICK S : got \in Seq(S)
  BY DEF Listed
<1> DEFINE U == S \cup {x}
<1>2. got \in Seq(U) /\ x \in U
  BY <1>1, SeqMonotonic
<1>3. Len(got) \in Nat
  BY <1>2, LenProperties
<1> DEFINE a == Append(got, x)
<1>4. /\ a \in Seq(U) /\ Len(a) = Len(got) + 1
      /\ \A j \in 1 .. Len(got) : a[j] = got[j]
      /\ a[Len(got) + 1] = x
  BY <1>2, AppendProperties
<1> HIDE DEF U, a
<1>5. \A j \in 1 .. Len(got) : a[j] \in U
  BY <1>3, <1>4, ElementOfSeq
<1>6. /\ SubSeq(a, 1, Len(got)) \in Seq(U)
      /\ Len(SubSeq(a, 1, Len(got))) = Len(got)
      /\ \A j \in 1 .. Len(got) : SubSeq(a, 1, Len(got))[j] = a[j]
  <2>1. /\ SubSeq(a, 1, Len(got)) \in Seq(U)
        /\ Len(SubSeq(a, 1, Len(got))) = IF 1 <= Len(got) THEN Len(got) - 1 + 1 ELSE 0
        /\ \A j \in 1 .. Len(got) - 1 + 1 : SubSeq(a, 1, Len(got))[j] = a[1 + j - 1]
    BY <1>3, <1>5, SubSeqProperties
  <2>2. QED  BY <2>1, <1>3
<1>7. SubSeq(a, 1, Len(got)) = got
  BY <1>6, <1>2, <1>3, <1>4, SeqEqual
<1>8. QED  BY <1>3, <1>4, <1>7 DEF Listed, Last, a

\* p lies ahead.
Lies(p, i, F) ==
  /\ F \in Seq(Field) /\ i + Len(F) <= Len(p)
  /\ \A j \in 1 .. Len(F) : p[i + j] = F[j]

LEMMA LiesApart ==
  ASSUME NEW p, NEW i \in Nat, NEW F \in Seq(Field), NEW G \in Seq(Field), Lies(p, i, F \o G), Len(p) \in Nat
  PROVE  Lies(p, i, F) /\ Lies(p, i + Len(F), G) /\ Len(F \o G) = Len(F) + Len(G)
<1>1. Len(F) \in Nat /\ Len(G) \in Nat
  BY LenProperties
<1>2. /\ Len(F \o G) = Len(F) + Len(G)
      /\ \A j \in 1 .. Len(F) + Len(G) : (F \o G)[j] = IF j <= Len(F) THEN F[j] ELSE G[j - Len(F)]
  BY ConcatProperties
<1>3. i + Len(F \o G) <= Len(p) /\ \A j \in 1 .. Len(F \o G) : p[i + j] = (F \o G)[j]
  BY DEF Lies
<1>4. Lies(p, i, F)
  <2>1. \A j \in 1 .. Len(F) : p[i + j] = F[j]
    BY <1>1, <1>2, <1>3
  <2>2. QED  BY <2>1, <1>1, <1>2, <1>3 DEF Lies
<1>5. Lies(p, i + Len(F), G)
  <2>1. ASSUME NEW j \in 1 .. Len(G) PROVE p[i + Len(F) + j] = G[j]
    <3>1. Len(F) + j \in 1 .. Len(F \o G) /\ ~(Len(F) + j <= Len(F)) /\ (Len(F) + j) - Len(F) = j
      BY <1>1, <1>2
    <3>2. p[i + (Len(F) + j)] = G[j]
      BY <3>1, <1>2, <1>3
    <3>3. i + (Len(F) + j) = i + Len(F) + j
      BY <1>1
    <3>4. QED  BY <3>2, <3>3
  <2>2. QED  BY <2>1, <1>1, <1>2, <1>3 DEF Lies
<1>6. QED  BY <1>2, <1>4, <1>5

\* What is left of a payload that is cut to k fields, when i are read.
Took(r, p, i, k, got) ==
  IF i <= k THEN r = [rest |-> SubSeq(p, i + 1, k), got |-> got, err |-> "None"]
  ELSE r.err = "PayloadTruncated"

\* A payload, cut to k fields.
Payload(p, k) == p \in Seq(Field) /\ k \in 0 .. Len(p) /\ Len(p) \in Nat

LEMMA TookRead ==
  ASSUME NEW p, NEW k, Payload(p, k), NEW i \in Nat, NEW got, NEW r, Took(r, p, i, k, got),
         NEW w \in Width, NEW n, Lies(p, i, <<[width |-> w, bits |-> n]>>)
  PROVE  Took(read(r, w), p, i + 1, k, Append(got, n))
<1>1. p \in Seq(Field) /\ k \in 0 .. Len(p) /\ Len(p) \in Nat
  BY DEF Payload
<1>2. i + 1 <= Len(p) /\ p[i + 1] = [width |-> w, bits |-> n]
  <2>1. Len(<<[width |-> w, bits |-> n]>>) = 1 /\ <<[width |-> w, bits |-> n]>>[1] = [width |-> w, bits |-> n]
    OBVIOUS
  <2>2. QED  BY <2>1 DEF Lies
<1>3. CASE ~(i <= k)
  <2>1. r.err = "PayloadTruncated" /\ ~(i + 1 <= k)
    BY <1>1, <1>3 DEF Took
  <2>2. QED  BY <2>1 DEF Took, read
<1>4. CASE i = k
  <2>1. r = [rest |-> SubSeq(p, i + 1, k), got |-> got, err |-> "None"] /\ ~(i + 1 <= k)
    BY <1>1, <1>4 DEF Took
  <2>2. SubSeq(p, i + 1, k) = <<>>
    BY <1>1, <1>4, SubSeqEmpty
  <2>3. read(r, w).err = "PayloadTruncated"
    BY <2>1, <2>2 DEF read, fail
  <2>4. QED  BY <2>1, <2>3 DEF Took
<1>5. CASE i < k
  <2>1. r = [rest |-> SubSeq(p, i + 1, k), got |-> got, err |-> "None"] /\ i + 1 <= k
    BY <1>1, <1>5 DEF Took
  <2>2. i + 1 \in 1 .. Len(p) /\ k \in i + 1 .. Len(p)
    BY <1>1, <1>2, <1>5
  <2>3. /\ Head(SubSeq(p, i + 1, k)) = p[i + 1]
        /\ Tail(SubSeq(p, i + 1, k)) = SubSeq(p, (i + 1) + 1, k)
    BY <1>1, <2>2, HeadTailOfSubSeq
  <2>4. SubSeq(p, i + 1, k) # <<>>
    <3>1. \A j \in i + 1 .. k : p[j] \in Field
      BY <1>1, <1>2, ElementOfSeq
    <3>2. Len(SubSeq(p, i + 1, k)) = k - (i + 1) + 1
      BY <1>1, <2>2, <3>1, SubSeqProperties
    <3>3. Len(SubSeq(p, i + 1, k)) # 0
      BY <3>2, <1>1, <2>2
    <3>4. QED  BY <3>3, EmptySeq
  <2>5. PICK s, t, h : /\ s = SubSeq(p, i + 1, k) /\ t = SubSeq(p, (i + 1) + 1, k) /\ h = p[i + 1]
    OBVIOUS
  <2>6. Head(s) = h /\ Tail(s) = t /\ s # <<>> /\ h.width = w /\ h.bits = n
    <3>1. Head(s) = h /\ Tail(s) = t /\ s # <<>>
      BY <2>3, <2>4, <2>5, Zenon
    <3>2. h = [width |-> w, bits |-> n]
      BY <1>2, <2>5, Zenon
    <3>3. h.width = w /\ h.bits = n
      BY <3>2
    <3>4. QED  BY <3>1, <3>3
  <2>7. r.err = "None" /\ r.rest = s /\ r.got = got
    BY <2>1, <2>5
  <2>8. read(r, w) = [r EXCEPT !.rest = t, !.got = Append(got, n)]
    BY <2>6, <2>7 DEF read
  <2>9. r = [rest |-> s, got |-> got, err |-> "None"]
    BY <2>1, <2>5
  <2>10. read(r, w) = [rest |-> t, got |-> Append(got, n), err |-> "None"]
    BY <2>8, <2>9
  <2>11. QED  BY <2>1, <2>5, <2>10 DEF Took
<1>6. QED  BY <1>1, <1>3, <1>4, <1>5

LEMMA TookMade ==
  ASSUME NEW p, NEW i \in Nat, NEW k \in Int, NEW got, NEW r, Took(r, p, i, k, got),
         NEW x, NEW y, i <= k => x = y, NEW m \in Nat, NEW h, h = SubSeq(got, 1, Len(got) - m)
  PROVE  Took(Made(r, m, x), p, i, k, Append(h, y))
<1>1. CASE i <= k
  <2>1. PICK s : s = SubSeq(p, i + 1, k)
    OBVIOUS
  <2>2. r = [rest |-> s, got |-> got, err |-> "None"] /\ r.err = "None" /\ r.got = got
    BY <1>1, <2>1 DEF Took
  <2>3. Made(r, m, x) = [r EXCEPT !.got = Append(h, y)]
    BY <1>1, <2>2 DEF Made
  <2>4. Made(r, m, x) = [rest |-> s, got |-> Append(h, y), err |-> "None"]
    BY <2>2, <2>3
  <2>5. QED  BY <1>1, <2>1, <2>4 DEF Took
<1>2. CASE ~(i <= k)
  BY <1>2 DEF Took, Made
<1>3. QED  BY <1>1, <1>2

-----------------------------------------------------------------------------
(* Reading one field after another, however many *)

LEMMA ListedConcat ==
  ASSUME NEW got, Listed(got), NEW b, Listed(b)
  PROVE  /\ Len(got) \in Nat /\ Len(b) \in Nat
         /\ Listed(got \o b)
         /\ Len(got \o b) = Len(got) + Len(b)
         /\ \A j \in 1 .. Len(got) : (got \o b)[j] = got[j]
         /\ \A j \in 1 .. Len(b) : (got \o b)[Len(got) + j] = b[j]
         /\ SubSeq(got \o b, Len(got) + 1, Len(got \o b)) = b
         /\ SubSeq(got \o b, 1, Len(got)) = got
<1>1. PICK S : got \in Seq(S)
  BY DEF Listed
<1>2. PICK S2 : b \in Seq(S2)
  BY DEF Listed
<1> DEFINE U == S \cup S2
<1>3. got \in Seq(U) /\ b \in Seq(U)
  BY <1>1, <1>2, SeqMonotonic
<1>4. Len(got) \in Nat /\ Len(b) \in Nat
  BY <1>3, LenProperties
<1> DEFINE c == got \o b
<1>5. /\ c \in Seq(U) /\ Len(c) = Len(got) + Len(b)
      /\ \A j \in 1 .. Len(got) + Len(b) : c[j] = IF j <= Len(got) THEN got[j] ELSE b[j - Len(got)]
  BY <1>3, ConcatProperties
<1> HIDE DEF U, c
<1>6. \A j \in 1 .. Len(got) : c[j] = got[j]
  BY <1>4, <1>5
<1>7. ASSUME NEW j \in 1 .. Len(b) PROVE c[Len(got) + j] = b[j]
  <2>1. Len(got) + j \in 1 .. Len(got) + Len(b) /\ ~(Len(got) + j <= Len(got)) /\ Len(got) + j - Len(got) = j
    BY <1>4
  <2>2. QED  BY <2>1, <1>5
<1>8. \A j \in 1 .. Len(c) : c[j] \in U
  BY <1>5, ElementOfSeq
<1>9. SubSeq(c, Len(got) + 1, Len(c)) = b
  <2>1. /\ SubSeq(c, Len(got) + 1, Len(c)) \in Seq(U)
        /\ Len(SubSeq(c, Len(got) + 1, Len(c))) = IF Len(got) + 1 <= Len(c) THEN Len(c) - (Len(got) + 1) + 1 ELSE 0
        /\ \A j \in 1 .. Len(c) - (Len(got) + 1) + 1 : SubSeq(c, Len(got) + 1, Len(c))[j] = c[(Len(got) + 1) + j - 1]
    <3>1. Len(got) + 1 \in Int /\ Len(c) \in Int /\ \A j \in Len(got) + 1 .. Len(c) : c[j] \in U
      BY <1>4, <1>5, <1>8
    <3>2. QED  BY <3>1, SubSeqProperties
  <2>2. Len(SubSeq(c, Len(got) + 1, Len(c))) = Len(b)
    BY <2>1, <1>4, <1>5
  <2>3. ASSUME NEW j \in 1 .. Len(b) PROVE SubSeq(c, Len(got) + 1, Len(c))[j] = b[j]
    <3>1. j \in 1 .. Len(c) - (Len(got) + 1) + 1 /\ (Len(got) + 1) + j - 1 = Len(got) + j
      BY <1>4, <1>5
    <3>2. SubSeq(c, Len(got) + 1, Len(c))[j] = c[Len(got) + j]
      BY <2>1, <3>1
    <3>3. QED  BY <3>2, <1>7
  <2>4. QED  BY <2>1, <2>2, <2>3, <1>3, SeqEqual
<1>10. SubSeq(c, 1, Len(got)) = got
  <2>1. /\ SubSeq(c, 1, Len(got)) \in Seq(U)
        /\ Len(SubSeq(c, 1, Len(got))) = IF 1 <= Len(got) THEN Len(got) - 1 + 1 ELSE 0
        /\ \A j \in 1 .. Len(got) - 1 + 1 : SubSeq(c, 1, Len(got))[j] = c[1 + j - 1]
    BY <1>4, <1>5, <1>8, SubSeqProperties
  <2>2. /\ Len(SubSeq(c, 1, Len(got))) = Len(got)
        /\ \A j \in 1 .. Len(got) : SubSeq(c, 1, Len(got))[j] = c[j]
    BY <2>1, <1>4
  <2>3. QED  BY <2>1, <2>2, <1>3, <1>6, SeqEqual
<1>11. Listed(c)
  BY <1>5 DEF Listed
<1>12. QED  BY <1>4, <1>5, <1>6, <1>7, <1>9, <1>10, <1>11 DEF c

LEMMA AppendOne ==
  ASSUME NEW got, Listed(got), NEW S, NEW b \in Seq(S), NEW m \in Nat, m + 1 \in 1 .. Len(b)
  PROVE  Append(got \o SubSeq(b, 1, m), b[m + 1]) = got \o SubSeq(b, 1, m + 1)
<1>1. PICK U : got \in Seq(U)
  BY DEF Listed
<1> DEFINE V == U \cup S
<1>2. got \in Seq(V) /\ b \in Seq(V) /\ Len(b) \in Nat
  BY <1>1, SeqMonotonic, LenProperties
<1> HIDE DEF V
<1>3. b[m + 1] \in V /\ \A j \in 1 .. m : b[j] \in V
  <2>1. \A j \in 1 .. Len(b) : b[j] \in V
    BY <1>2, ElementOfSeq
  <2>2. QED  BY <2>1, <1>2
<1>4. SubSeq(b, 1, m) \in Seq(V)
  BY <1>3, SubSeqProperties
<1>5. SubSeq(b, 1, m + 1) = SubSeq(b, 1, m) \o <<b[m + 1]>>
  <2>1. 1 \in 1 .. Len(b) /\ m + 1 \in 1 .. Len(b) /\ (m + 1) - 1 = m
    BY <1>2
  <2>2. SubSeq(b, 1, m + 1) = SubSeq(b, 1, (m + 1) - 1) \o <<b[m + 1]>>
    BY <2>1, <1>2, SubSeqRecursiveSecond
  <2>3. QED  BY <2>1, <2>2
<1>6. <<b[m + 1]>> \in Seq(V)
  BY <1>3
<1>7. got \o (SubSeq(b, 1, m) \o <<b[m + 1]>>) = (got \o SubSeq(b, 1, m)) \o <<b[m + 1]>>
  BY <1>2, <1>4, <1>6, ConcatAssociative
<1>8. got \o SubSeq(b, 1, m) \in Seq(V)
  BY <1>2, <1>4, ConcatProperties
<1>9. Append(got \o SubSeq(b, 1, m), b[m + 1]) = (got \o SubSeq(b, 1, m)) \o <<b[m + 1]>>
  BY <1>3, <1>8, AppendIsConcat
<1>10. QED  BY <1>5, <1>7, <1>9

\* From step to step.
Inductive(G, n) == 0 \in G /\ \A m \in Nat : m + 1 <= n /\ m \in G => m + 1 \in G

LEMMA Upwards ==
  ASSUME NEW n \in Nat, NEW G, Inductive(G, n)
  PROVE  n \in G /\ \A m \in 0 .. n : m \in G
<1>0. 0 \in G /\ \A m \in Nat : m + 1 <= n /\ m \in G => m + 1 \in G
  BY DEF Inductive
<1> DEFINE bad == {m \in Nat : m <= n /\ m \notin G}
<1>1. CASE bad = {}
  BY <1>1
<1>2. CASE bad # {}
  <2>1. PICK m \in bad : \A j \in bad : m <= j
    BY <1>2, LeastNat
  <2>2. m \in Nat /\ m <= n /\ m \notin G /\ m # 0
    BY <1>0, <2>1
  <2>3. m - 1 \in Nat /\ (m - 1) + 1 = m /\ ~(m <= m - 1) /\ m - 1 <= n
    BY <2>2
  <2>4. m - 1 \in G
    BY <2>1, <2>3
  <2>5. QED  BY <1>0, <2>2, <2>3, <2>4
<1>3. QED  BY <1>1, <1>2

\* What is done again and again: to read a field, an entry of a map, to append.
Step(kind, x, e) ==
  CASE kind = "read"  -> read(x, e)
    [] kind = "attr"  -> read_attr(x)
    [] kind = "entry" -> read_entry(x)
    [] kind = "flat"  -> x \o e

\* What this goes through.
Run(a, kind, r, ws, n) == a = [i \in 0 .. n |-> IF i = 0 THEN r ELSE Step(kind, a[i - 1], ws[i])]

LEMMA RunExists ==
  ASSUME NEW kind, NEW r, NEW ws, NEW n \in Nat
  PROVE  \E a : Run(a, kind, r, ws, n)
<1> DEFINE Good(m) == \E a : a = [i \in 0 .. m |-> IF i = 0 THEN r ELSE Step(kind, a[i - 1], ws[i])]
<1>1. Good(0)
  <2>1. [i \in 0 .. 0 |-> r] = [i \in 0 .. 0 |-> IF i = 0 THEN r ELSE Step(kind, [j \in 0 .. 0 |-> r][i - 1], ws[i])]
    OBVIOUS
  <2>2. QED  BY <2>1
<1>2. ASSUME NEW m \in Nat, Good(m) PROVE Good(m + 1)
  <2>1. PICK a : a = [i \in 0 .. m |-> IF i = 0 THEN r ELSE Step(kind, a[i - 1], ws[i])]
    BY <1>2
  <2> DEFINE b == [i \in 0 .. m + 1 |-> IF i = m + 1 THEN Step(kind, a[m], ws[m + 1]) ELSE a[i]]
  <2>2. ASSUME NEW i \in 0 .. m + 1 PROVE b[i] = IF i = 0 THEN r ELSE Step(kind, b[i - 1], ws[i])
    <3>1. CASE i = 0
      BY <2>1, <3>1
    <3>2. CASE i = m + 1
      <4>1. b[i] = Step(kind, a[m], ws[m + 1]) /\ b[i - 1] = a[m] /\ i # 0
        BY <3>2
      <4>2. QED  BY <4>1, <3>2
    <3>3. CASE i \in 1 .. m
      <4>1. b[i] = a[i] /\ b[i - 1] = a[i - 1] /\ i # 0 /\ i \in 0 .. m
        BY <3>3
      <4>2. a[i] = Step(kind, a[i - 1], ws[i])
        BY <2>1, <4>1
      <4>3. QED  BY <4>1, <4>2
    <3>4. QED  BY <3>1, <3>2, <3>3
  <2>3. b = [i \in 0 .. m + 1 |-> b[i]]
    OBVIOUS
  <2> HIDE DEF b
  <2>4. b = [i \in 0 .. m + 1 |-> IF i = 0 THEN r ELSE Step(kind, b[i - 1], ws[i])]
    BY <2>2, <2>3
  <2>5. QED  BY <2>4
<1> HIDE DEF Good
<1>3. Good(n)
  <2> DEFINE G == {m \in Nat : Good(m)}
  <2>1. Inductive(G, n)
    BY <1>1, <1>2 DEF Inductive
  <2> HIDE DEF G
  <2>2. n \in G
    BY <2>1, Upwards
  <2>3. QED  BY <2>2 DEF G
<1>4. QED  BY <1>3 DEF Good, Run

\* Fields of these widths with these bits.
Spells(F, ws, b) ==
  /\ Len(F) = Len(ws) /\ Len(b) = Len(ws)
  /\ \A j \in 1 .. Len(ws) : F[j] = [width |-> ws[j], bits |-> b[j]]

LEMMA TookAll ==
  ASSUME NEW p, NEW k, Payload(p, k), NEW i \in Nat, NEW got, Listed(got),
         NEW r, Took(r, p, i, k, got),
         NEW ws \in Seq(Width), NEW F, Lies(p, i, F), NEW b, Listed(b), Spells(F, ws, b)
  PROVE  Took(read_all(r, ws), p, i + Len(ws), k, Joined(got, b))
<1>p. k \in 0 .. Len(p) /\ Len(p) \in Nat
  BY DEF Payload
<1> DEFINE n == Len(ws)
<1>f. /\ Len(F) = Len(ws) /\ Len(b) = Len(ws)
      /\ \A j \in 1 .. Len(ws) : F[j] = [width |-> ws[j], bits |-> b[j]]
  BY DEF Spells
<1>1. n \in Nat /\ \A j \in 1 .. n : ws[j] \in Width
  <2>1. n \in Nat
    BY LenProperties
  <2>2. ASSUME NEW j \in 1 .. Len(ws) PROVE ws[j] \in Width
    BY ElementOfSeq
  <2>3. QED  BY <2>1, <2>2
<1>2. PICK a : a = [j \in 0 .. n |-> IF j = 0 THEN r ELSE read(a[j - 1], ws[j])]
  <2>1. PICK a : Run(a, "read", r, ws, n)
    BY <1>1, RunExists
  <2>2. a = [j \in 0 .. n |-> IF j = 0 THEN r ELSE read(a[j - 1], ws[j])]
    BY <2>1 DEF Run, Step
  <2>3. QED  BY <2>2
<1> DEFINE c == CHOOSE x : x = [j \in 0 .. n |-> IF j = 0 THEN r ELSE read(x[j - 1], ws[j])]
<1>3. c = [j \in 0 .. n |-> IF j = 0 THEN r ELSE read(c[j - 1], ws[j])]
  BY <1>2
<1>4. read_all(r, ws) = c[n]
  BY DEF read_all
<1> HIDE DEF c
<1> DEFINE Good(m) == Took(c[m], p, i + m, k, got \o SubSeq(b, 1, m))
<1>s. PICK S : b \in Seq(S)
  BY DEF Listed
<1>5. Good(0)
  <2>1. c[0] = r /\ i + 0 = i
    BY <1>1, <1>3
  <2>2. SubSeq(b, 1, 0) = <<>>
    BY SubSeqEmpty
  <2>3. got \o <<>> = got
    <3>1. PICK U : got \in Seq(U)
      BY DEF Listed
    <3>2. QED  BY <3>1, ConcatEmptySeq
  <2>4. QED  BY <2>1, <2>2, <2>3
<1>6. ASSUME NEW m \in Nat, m + 1 <= n, Good(m) PROVE Good(m + 1)
  <2>1. c[m + 1] = read(c[m], ws[m + 1])
    <3>1. m + 1 \in 0 .. n /\ m + 1 # 0 /\ (m + 1) - 1 = m
      BY <1>1, <1>6
    <3>2. QED  BY <1>3, <3>1
  <2>2. m + 1 \in 1 .. n
    BY <1>1, <1>6
  <2>3. Lies(p, i + m, <<[width |-> ws[m + 1], bits |-> b[m + 1]]>>)
    <3>1. F \in Seq(Field) /\ i + Len(F) <= Len(p) /\ p[i + (m + 1)] = F[m + 1] /\ F[m + 1] \in Field
      <4>1. F \in Seq(Field) /\ i + Len(F) <= Len(p) /\ p[i + (m + 1)] = F[m + 1]
        BY <2>2, <1>f DEF Lies
      <4>2. QED  BY <4>1, <2>2, <1>f, ElementOfSeq
    <3>2. F[m + 1] = [width |-> ws[m + 1], bits |-> b[m + 1]]
      BY <2>2, <1>f
    <3>3. PICK f : f = F[m + 1]
      OBVIOUS
    <3>4. <<f>> \in Seq(Field) /\ Len(<<f>>) = 1 /\ <<f>>[1] = f
      BY <3>1, <3>3
    <3>5. i + m + 1 <= Len(p) /\ p[i + m + 1] = f
      BY <3>1, <3>3, <1>1, <1>6, <1>p, <1>f
    <3>6. Lies(p, i + m, <<f>>)
      BY <3>4, <3>5 DEF Lies
    <3>7. QED  BY <3>2, <3>3, <3>6
  <2>4. Took(c[m + 1], p, (i + m) + 1, k, Append(got \o SubSeq(b, 1, m), b[m + 1]))
    <3>1. Took(c[m], p, i + m, k, got \o SubSeq(b, 1, m)) /\ i + m \in Nat /\ ws[m + 1] \in Width
      BY <1>6, <1>1, <2>2
    <3>2. QED  BY <3>1, <2>1, <2>3, TookRead
  <2>5. Append(got \o SubSeq(b, 1, m), b[m + 1]) = got \o SubSeq(b, 1, m + 1)
    BY <1>s, <1>f, <2>2, AppendOne
  <2>6. (i + m) + 1 = i + (m + 1)
    BY <1>6
  <2>7. QED  BY <2>4, <2>5, <2>6
<1> HIDE DEF Good, n
<1>8. Good(n)
  <2> DEFINE G == {m \in Nat : Good(m)}
  <2>1. Inductive(G, n)
    BY <1>5, <1>6 DEF Inductive
  <2> HIDE DEF G
  <2>2. n \in G
    BY <2>1, <1>1, Upwards
  <2>3. QED  BY <2>2 DEF G
<1>9. SubSeq(b, 1, n) = b
  BY <1>s, <1>f, SubSeqFull DEF n
<1>10. QED  BY <1>4, <1>8, <1>9 DEF Good, n, Joined

-----------------------------------------------------------------------------
(* Reading a list of items *)

\* What a sequence of sequences comes to, one by one.
Flat(E, n, f) ==
  /\ f[0] = <<>> /\ f[n] = FlattenSeq(E)
  /\ \A j \in 0 .. n : f[j] \in Seq(Field)
  /\ \A j \in 1 .. n : f[j] = f[j - 1] \o E[j]

LEMMA FlattenedUp ==
  ASSUME NEW n \in Nat, NEW E \in Seq(Seq(Field)), Len(E) = n
  PROVE  \E f : Flat(E, n, f)
<1>1. PICK a : Run(a, "flat", <<>>, E, n)
  BY RunExists
<1>2. a = [i \in 0 .. n |-> IF i = 0 THEN <<>> ELSE a[i - 1] \o E[i]]
  BY <1>1 DEF Run, Step
<1>3. a[0] = <<>> /\ \A j \in 1 .. n : a[j] = a[j - 1] \o E[j]
  <2>1. a[0] = <<>>
    BY <1>2
  <2>2. ASSUME NEW j \in 1 .. n PROVE a[j] = a[j - 1] \o E[j]
    <3>1. j \in 0 .. n /\ j # 0
      OBVIOUS
    <3>2. QED  BY <1>2, <3>1
  <2>3. QED  BY <2>1, <2>2
<1>4. ASSUME NEW j \in 1 .. n PROVE E[j] \in Seq(Field)
  BY ElementOfSeq
<1>5. \A j \in 0 .. n : a[j] \in Seq(Field)
  <2> DEFINE G == {j \in Nat : a[j] \in Seq(Field)}
  <2>1. 0 \in G
    BY <1>3, EmptySeq
  <2>2. ASSUME NEW m \in Nat, m + 1 <= n, m \in G PROVE m + 1 \in G
    <3>1. m + 1 \in 1 .. n /\ (m + 1) - 1 = m /\ a[m] \in Seq(Field)
      BY <2>2
    <3>2. a[m + 1] = a[m] \o E[m + 1] /\ E[m + 1] \in Seq(Field)
      BY <1>3, <1>4, <3>1
    <3>3. a[m] \o E[m + 1] \in Seq(Field)
      BY <3>1, <3>2, ConcatProperties
    <3>4. a[m + 1] \in Seq(Field) /\ m + 1 \in Nat
      BY <3>2, <3>3
    <3>5. QED  BY <3>4
  <2> HIDE DEF G
  <2>3. Inductive(G, n)
    BY <2>1, <2>2 DEF Inductive
  <2>4. \A m \in 0 .. n : m \in G
    BY <2>3, Upwards
  <2>5. QED  BY <2>4 DEF G
<1>6. a[n] = FlattenSeq(E)
  <2>1. CASE n = 0
    <3>1. E = <<>>
      BY <2>1, EmptySeq
    <3>2. FlattenSeq(E) = <<>>
      BY <3>1, <2>1 DEF FlattenSeq
    <3>3. QED  BY <3>2, <2>1, <1>3
  <2>2. CASE n # 0
    <3> DEFINE h == [i \in 1 .. n |-> a[i]]
    <3>1. ASSUME NEW i \in 1 .. n PROVE h[i] = IF i = 1 THEN E[i] ELSE h[i - 1] \o E[i]
      <4>1. CASE i = 1
        <5>1. h[1] = a[0] \o E[1]
          <6>1. 1 \in 1 .. n /\ 1 - 1 = 0
            BY <4>1
          <6>2. h[1] = a[1]
            BY <6>1
          <6>3. a[1] = a[1 - 1] \o E[1]
            BY <1>3, <6>1
          <6>4. QED  BY <6>1, <6>2, <6>3
        <5>2. <<>> \o E[1] = E[1]
          BY <1>4, <4>1, ConcatEmptySeq
        <5>3. QED  BY <1>3, <4>1, <5>1, <5>2
      <4>2. CASE i # 1
        <5>1. i - 1 \in 1 .. n
          BY <4>2
        <5>2. h[i] = a[i] /\ h[i - 1] = a[i - 1]
          BY <5>1
        <5>3. QED  BY <4>2, <5>2, <1>3
      <4>3. QED  BY <4>1, <4>2
    <3>2. h = [i \in 1 .. n |-> h[i]]
      OBVIOUS
    <3> HIDE DEF h
    <3>3. h = [i \in 1 .. n |-> IF i = 1 THEN E[i] ELSE h[i - 1] \o E[i]]
      BY <3>1, <3>2
    <3> DEFINE c == CHOOSE x : x = [i \in 1 .. n |-> IF i = 1 THEN E[i] ELSE x[i - 1] \o E[i]]
    <3>4. c = [i \in 1 .. n |-> IF i = 1 THEN E[i] ELSE c[i - 1] \o E[i]]
      BY <3>3
    <3>5. FlattenSeq(E) = c[n]
      BY <2>2 DEF FlattenSeq
    <3> HIDE DEF c
    <3>6. \A j \in 0 .. n : j # 0 => c[j] = a[j]
      <4> DEFINE G == {j \in Nat : j # 0 => c[j] = a[j]}
      <4>1. 0 \in G
        OBVIOUS
      <4>2. ASSUME NEW m \in Nat, m + 1 <= n, m \in G PROVE m + 1 \in G
        <5>1. m + 1 \in 1 .. n /\ (m + 1) - 1 = m /\ (m # 0 => c[m] = a[m])
          BY <4>2
        <5>2. a[m + 1] = a[m] \o E[m + 1]
          BY <1>3, <5>1
        <5>3. CASE m = 0
          <6>1. c[1] = E[1] /\ a[1] = <<>> \o E[1]
            BY <3>4, <5>1, <5>2, <5>3, <1>3
          <6>2. <<>> \o E[1] = E[1]
            BY <1>4, <5>1, <5>3, ConcatEmptySeq
          <6>3. QED  BY <6>1, <6>2, <5>3
        <5>4. CASE m # 0
          <6>1. PICK j : j = m + 1
            OBVIOUS
          <6>2. j \in 1 .. n /\ j # 1 /\ j - 1 = m
            BY <5>1, <5>4, <6>1
          <6>3. c[j] = c[m] \o E[j]
            BY <3>4, <6>2
          <6>4. c[m] = a[m] /\ a[j] = a[m] \o E[j]
            BY <5>1, <5>2, <5>4, <6>1
          <6>5. c[j] = a[j]
            BY <6>3, <6>4
          <6>6. QED  BY <6>1, <6>5
        <5>5. QED  BY <5>3, <5>4
      <4> HIDE DEF G
      <4>3. Inductive(G, n)
        BY <4>1, <4>2 DEF Inductive
      <4>4. \A m \in 0 .. n : m \in G
        BY <4>3, Upwards
      <4>5. QED  BY <4>4 DEF G
    <3>7. QED  BY <3>5, <3>6, <2>2
  <2>3. QED  BY <2>1, <2>2
<1>7. QED  BY <1>3, <1>5, <1>6 DEF Flat

InParts(p, i, E, n, f) ==
  \A j \in 1 .. n : Lies(p, i + Len(f[j - 1]), E[j])
                       /\ Len(f[j - 1]) \in Nat /\ Len(f[j]) = Len(f[j - 1]) + Len(E[j])

LEMMA LiesInParts ==
  ASSUME NEW p, Len(p) \in Nat, NEW i \in Nat, NEW n \in Nat, NEW E \in Seq(Seq(Field)), Len(E) = n,
         NEW f, Flat(E, n, f), Lies(p, i, FlattenSeq(E))
  PROVE  InParts(p, i, E, n, f)
<1>1. /\ f[n] = FlattenSeq(E) /\ \A j \in 0 .. n : f[j] \in Seq(Field)
      /\ \A j \in 1 .. n : f[j] = f[j - 1] \o E[j]
  BY DEF Flat
<1>2. ASSUME NEW j \in 1 .. n PROVE E[j] \in Seq(Field)
  BY ElementOfSeq
<1>3. ASSUME NEW j \in 1 .. n, Lies(p, i, f[j])
      PROVE  /\ Lies(p, i, f[j - 1])
             /\ Lies(p, i + Len(f[j - 1]), E[j])
             /\ Len(f[j - 1]) \in Nat /\ Len(f[j]) = Len(f[j - 1]) + Len(E[j])
  <2>1. j - 1 \in 0 .. n
    OBVIOUS
  <2>2. f[j - 1] \in Seq(Field) /\ E[j] \in Seq(Field) /\ f[j] = f[j - 1] \o E[j]
    BY <1>1, <1>2, <2>1
  <2>3. Lies(p, i, f[j - 1] \o E[j])
    BY <1>3, <2>2
  <2>4. Lies(p, i, f[j - 1]) /\ Lies(p, i + Len(f[j - 1]), E[j]) /\ Len(f[j - 1] \o E[j]) = Len(f[j - 1]) + Len(E[j])
    <3>1. PICK g, h : g = f[j - 1] /\ h = E[j]
      OBVIOUS
    <3>2. g \in Seq(Field) /\ h \in Seq(Field) /\ Lies(p, i, g \o h)
      BY <2>2, <2>3, <3>1
    <3>3. Lies(p, i, g) /\ Lies(p, i + Len(g), h) /\ Len(g \o h) = Len(g) + Len(h)
      BY <3>2, LiesApart
    <3>4. QED  BY <3>1, <3>3
  <2>5. Len(f[j - 1]) \in Nat
    BY <2>2, LenProperties
  <2>6. QED  BY <2>2, <2>4, <2>5
<1>4. \A m \in 0 .. n : Lies(p, i, f[n - m])
  <2> DEFINE G == {m \in Nat : Lies(p, i, f[n - m])}
  <2>1. 0 \in G
    BY <1>1
  <2>2. ASSUME NEW m \in Nat, m + 1 <= n, m \in G PROVE m + 1 \in G
    <3>1. n - m \in 1 .. n /\ (n - m) - 1 = n - (m + 1) /\ Lies(p, i, f[n - m])
      BY <2>2
    <3>2. Lies(p, i, f[(n - m) - 1])
      BY <1>3, <3>1
    <3>3. QED  BY <3>1, <3>2
  <2> HIDE DEF G
  <2>3. Inductive(G, n)
    BY <2>1, <2>2 DEF Inductive
  <2>4. \A m \in 0 .. n : m \in G
    BY <2>3, Upwards
  <2>5. QED  BY <2>4 DEF G
<1>5. ASSUME NEW j \in 1 .. n PROVE Lies(p, i, f[j])
  <2>1. n - j \in 0 .. n /\ n - (n - j) = j
    OBVIOUS
  <2>2. QED  BY <1>4, <2>1
<1>6. QED  BY <1>3, <1>5 DEF InParts

\* A step reads each part as one thing.
Reads(kind, p, k, E, xs) ==
  \A j \in 1 .. Len(E) : \A r, got : \A i \in Nat :
    Listed(got) /\ Took(r, p, i, k, got) /\ Lies(p, i, E[j])
      => Took(Step(kind, r, E[j]), p, i + Len(E[j]), k, Add(got, xs[j]))

LEMMA TookMany ==
  ASSUME NEW kind, NEW p, NEW k, Payload(p, k), NEW i \in Nat, NEW got, Listed(got),
         NEW r, Took(r, p, i, k, got), NEW E \in Seq(Seq(Field)), Lies(p, i, FlattenSeq(E)),
         NEW xs, Listed(xs), Len(xs) = Len(E), Reads(kind, p, k, E, xs),
         NEW a, Run(a, kind, r, E, Len(E))
  PROVE  Took(a[Len(E)], p, i + Len(FlattenSeq(E)), k, Joined(got, xs))
<1>p. k \in 0 .. Len(p) /\ Len(p) \in Nat
  BY DEF Payload
<1>n. Len(E) \in Nat
  BY LenProperties
<1> DEFINE n == Len(E)
<1>1. PICK f : Flat(E, n, f)
  BY <1>n, FlattenedUp
<1>2. /\ f[0] = <<>> /\ f[n] = FlattenSeq(E)
      /\ \A j \in 1 .. n : Lies(p, i + Len(f[j - 1]), E[j])
                             /\ Len(f[j - 1]) \in Nat /\ Len(f[j]) = Len(f[j - 1]) + Len(E[j])
  <2>1. f[0] = <<>> /\ f[n] = FlattenSeq(E)
    BY <1>1 DEF Flat
  <2>2. \A j \in 1 .. n : Lies(p, i + Len(f[j - 1]), E[j])
                          /\ Len(f[j - 1]) \in Nat /\ Len(f[j]) = Len(f[j - 1]) + Len(E[j])
    <3>1. InParts(p, i, E, n, f)
      BY <1>1, <1>n, <1>p, LiesInParts
    <3>2. QED  BY <3>1 DEF InParts
  <2>3. QED  BY <2>1, <2>2
<1>3. a[0] = r /\ \A j \in 1 .. n : a[j] = Step(kind, a[j - 1], E[j])
  <2>1. a = [j \in 0 .. n |-> IF j = 0 THEN r ELSE Step(kind, a[j - 1], E[j])]
    BY DEF Run
  <2> HIDE DEF n
  <2>2. a[0] = r
    BY <2>1, <1>n DEF n
  <2>3. ASSUME NEW j \in 1 .. n PROVE a[j] = Step(kind, a[j - 1], E[j])
    <3>1. j \in 0 .. n /\ j # 0
      BY <1>n DEF n
    <3>2. QED  BY <2>1, <3>1
  <2>4. QED  BY <2>2, <2>3
<1>s. PICK S : xs \in Seq(S)
  BY DEF Listed
<1> DEFINE Good(m) == Took(a[m], p, i + Len(f[m]), k, got \o SubSeq(xs, 1, m)) /\ Listed(got \o SubSeq(xs, 1, m))
<1>4. Good(0)
  <2>1. PICK U : got \in Seq(U)
    BY DEF Listed
  <2>2. SubSeq(xs, 1, 0) = <<>> /\ got \o <<>> = got
    BY <2>1, SubSeqEmpty, ConcatEmptySeq
  <2>3. Len(f[0]) = 0 /\ i + 0 = i
    BY <1>2, EmptySeq
  <2>4. QED  BY <1>2, <1>3, <2>2, <2>3
<1>5. ASSUME NEW m \in Nat, m + 1 <= n, Good(m) PROVE Good(m + 1)
  <2>1. m + 1 \in 1 .. n /\ (m + 1) - 1 = m
    BY <1>5, <1>n
  <2>2. /\ a[m + 1] = Step(kind, a[m], E[m + 1]) /\ Lies(p, i + Len(f[m]), E[m + 1])
        /\ Len(f[m]) \in Nat /\ Len(f[m + 1]) = Len(f[m]) + Len(E[m + 1])
    BY <1>2, <1>3, <2>1
  <2>3. Took(a[m + 1], p, (i + Len(f[m])) + Len(E[m + 1]), k, Append(got \o SubSeq(xs, 1, m), xs[m + 1]))
    <3>1. i + Len(f[m]) \in Nat /\ Listed(got \o SubSeq(xs, 1, m)) /\ Took(a[m], p, i + Len(f[m]), k, got \o SubSeq(xs, 1, m))
      BY <1>5, <2>2
    <3>2. PICK g, x, s : g = got \o SubSeq(xs, 1, m) /\ x = a[m] /\ s = i + Len(f[m])
      OBVIOUS
    <3>3. Listed(g) /\ Took(x, p, s, k, g) /\ Lies(p, s, E[m + 1]) /\ s \in Nat
      BY <3>1, <3>2, <2>2
    <3>4. Took(Step(kind, x, E[m + 1]), p, s + Len(E[m + 1]), k, Add(g, xs[m + 1]))
      BY <3>3, <2>1 DEF Reads
    <3>5. QED  BY <3>2, <3>4, <2>2 DEF Add
  <2>4. Append(got \o SubSeq(xs, 1, m), xs[m + 1]) = got \o SubSeq(xs, 1, m + 1)
    <3>1. xs[m + 1] \in S /\ m + 1 \in 1 .. Len(xs)
      BY <2>1, <1>s, ElementOfSeq
    <3>2. QED  BY <3>1, <1>s, AppendOne
  <2>5. Listed(got \o SubSeq(xs, 1, m + 1))
    <3>1. PICK g : g = got \o SubSeq(xs, 1, m)
      OBVIOUS
    <3>2. Listed(Append(g, xs[m + 1]))
      BY <3>1, <1>5, ListedAppend
    <3>3. QED  BY <3>1, <3>2, <2>4
  <2>6. (i + Len(f[m])) + Len(E[m + 1]) = i + Len(f[m + 1])
    <3>1. E[m + 1] \in Seq(Field)
      BY <2>1, ElementOfSeq
    <3>2. Len(E[m + 1]) \in Nat
      BY <3>1, LenProperties
    <3>3. PICK x, y, z : x = Len(f[m]) /\ y = Len(E[m + 1]) /\ z = Len(f[m + 1])
      OBVIOUS
    <3>4. x \in Nat /\ y \in Nat /\ z = x + y
      BY <2>2, <3>2, <3>3
    <3>5. (i + x) + y = i + z
      BY <3>4
    <3>6. QED  BY <3>3, <3>5
  <2>7. QED  BY <2>3, <2>4, <2>5, <2>6
<1>6. Good(n)
  <2> DEFINE G == {m \in Nat : Good(m)}
  <2> HIDE DEF Good, n
  <2>1. Inductive(G, n)
    BY <1>4, <1>5 DEF Inductive
  <2> HIDE DEF G
  <2>2. n \in Nat
    BY <1>n DEF n
  <2>3. n \in G
    BY <2>1, <2>2, Upwards
  <2>4. QED  BY <2>3 DEF G
<1>7. SubSeq(xs, 1, n) = xs
  BY <1>s, SubSeqFull
<1>8. QED  BY <1>2, <1>6, <1>7 DEF Joined

-----------------------------------------------------------------------------
(* Single values: numbers, codes, values of T *)

\* What a reader has read.
LEMMA TookGot ==
  ASSUME NEW p, NEW i \in Nat, NEW k \in Int, NEW got, NEW r, Took(r, p, i, k, got)
  PROVE  /\ i <= k => r.err = "None" /\ r.got = got /\ Read(r) = Last(got)
         /\ ~(i <= k) => r.err = "PayloadTruncated"
<1>1. CASE i <= k
  <2>1. PICK s : s = SubSeq(p, i + 1, k)
    OBVIOUS
  <2>2. r = [rest |-> s, got |-> got, err |-> "None"]
    BY <1>1, <2>1 DEF Took
  <2>3. r.err = "None" /\ r.got = got
    BY <2>2
  <2>4. QED  BY <1>1, <2>3 DEF Read
<1>2. CASE ~(i <= k)
  BY <1>2 DEF Took
<1>3. QED  BY <1>1, <1>2

\* What was read, before and after more is read.
LEMMA GotBack ==
  ASSUME NEW got, Listed(got), NEW x, NEW xs, Listed(xs)
  PROVE  /\ SubSeq(Append(got, x) \o xs, Len(Append(got, x)) + 1, Len(Append(got, x) \o xs)) = xs
         /\ SubSeq(Append(got, x) \o xs, 1, Len(Append(got, x) \o xs) - (Len(xs) + 1)) = got
<1>1. PICK S : got \in Seq(S)
  BY DEF Listed
<1>2. PICK S2 : xs \in Seq(S2)
  BY DEF Listed
<1> DEFINE U == (S \cup S2) \cup {x}
<1>3. got \in Seq(U) /\ xs \in Seq(U) /\ x \in U
  <2>1. S \subseteq U /\ S2 \subseteq U /\ x \in U
    OBVIOUS
  <2> HIDE DEF U
  <2>2. QED  BY <1>1, <1>2, <2>1, SeqMonotonic
<1> HIDE DEF U
<1>4. <<x>> \in Seq(U) /\ <<x>> \o xs \in Seq(U) /\ Len(<<x>>) = 1
  <2>1. <<x>> \in Seq(U) /\ Len(<<x>>) = 1
    BY <1>3
  <2>2. QED  BY <2>1, <1>3, ConcatProperties
<1>5. Append(got, x) \o xs = got \o (<<x>> \o xs)
  <2>1. Append(got, x) = got \o <<x>>
    BY <1>3, AppendIsConcat
  <2>2. QED  BY <2>1, <1>3, <1>4, ConcatAssociative
<1>6. Listed(Append(got, x)) /\ Listed(<<x>> \o xs)
  BY <1>4, ListedAppend DEF Listed
<1>7. SubSeq(Append(got, x) \o xs, Len(Append(got, x)) + 1, Len(Append(got, x) \o xs)) = xs
  BY <1>6, ListedConcat
<1>8. /\ SubSeq(got \o (<<x>> \o xs), 1, Len(got)) = got
      /\ Len(got \o (<<x>> \o xs)) = Len(got) + Len(<<x>> \o xs) /\ Len(got) \in Nat
  BY <1>6, ListedConcat
<1>9. Len(<<x>> \o xs) = 1 + Len(xs) /\ Len(xs) \in Nat
  BY <1>3, <1>4, ConcatProperties, LenProperties
<1>10. Len(got \o (<<x>> \o xs)) - (Len(xs) + 1) = Len(got)
  <2>1. PICK a, b, c : a = Len(got) /\ b = Len(xs) /\ c = Len(got \o (<<x>> \o xs))
    OBVIOUS
  <2>2. a \in Nat /\ b \in Nat /\ c = a + (1 + b)
    BY <1>8, <1>9, <2>1
  <2>3. c - (b + 1) = a
    BY <2>2
  <2>4. QED  BY <2>1, <2>3
<1>11. QED  BY <1>5, <1>7, <1>8, <1>10

LEMMA TookBack ==
  ASSUME NEW got, Listed(got), NEW x, NEW xs, Listed(xs)
  PROVE  /\ Since(Joined(Add(got, x), xs), Add(got, x)) = xs
         /\ Before(Joined(Add(got, x), xs), Len(xs) + 1) = got
BY GotBack DEF Since, Before, Joined, Add

LEMMA TwoBack ==
  ASSUME NEW got, Listed(got), NEW x, NEW y
  PROVE  /\ SubSeq(Append(got, x), 1, Len(Append(got, x)) - 1) = got
         /\ SubSeq(Append(Append(got, x), y), 1, Len(Append(Append(got, x), y)) - 2) = got
         /\ SubSeq(Append(Append(got, x), y), Len(Append(Append(got, x), y)) - 1,
                   Len(Append(Append(got, x), y))) = <<x, y>>
<1>1. Len(got) \in Nat /\ Len(Append(got, x)) = Len(got) + 1 /\ SubSeq(Append(got, x), 1, Len(got)) = got /\ Listed(Append(got, x))
  BY ListedAppend
<1>2. PICK S : got \in Seq(S)
  BY DEF Listed
<1> DEFINE U == S \cup {x, y}
<1>3. got \in Seq(U) /\ x \in U /\ y \in U
  BY <1>2, SeqMonotonic
<1> HIDE DEF U
<1>4. Append(got, x) \in Seq(U) /\ Append(got, x) = got \o <<x>> /\ <<x>> \in Seq(U) /\ <<y>> \in Seq(U)
  BY <1>3, AppendProperties, AppendIsConcat
<1>5. Append(Append(got, x), y) = Append(got, x) \o <<y>>
  BY <1>3, <1>4, AppendIsConcat
<1>6. Append(Append(got, x), y) = got \o (<<x>> \o <<y>>)
  <2>1. (got \o <<x>>) \o <<y>> = got \o (<<x>> \o <<y>>)
    BY <1>3, <1>4, ConcatAssociative
  <2>2. QED  BY <2>1, <1>4, <1>5
<1>7. <<x>> \o <<y>> = <<x, y>>
  <2>1. <<x, y>> \in Seq(U) /\ Len(<<x, y>>) = 2 /\ <<x, y>>[1] = x /\ <<x, y>>[2] = y
    BY <1>3
  <2>2. Len(<<x>>) = 1 /\ Len(<<y>>) = 1 /\ <<x>>[1] = x /\ <<y>>[1] = y
    OBVIOUS
  <2>3. PICK a, b : a = <<x>> /\ b = <<y>>
    OBVIOUS
  <2>4. a \in Seq(U) /\ b \in Seq(U) /\ Len(a) = 1 /\ Len(b) = 1 /\ a[1] = x /\ b[1] = y
    BY <1>4, <2>2, <2>3
  <2>5. /\ a \o b \in Seq(U) /\ Len(a \o b) = 2
        /\ (a \o b)[1] = x /\ (a \o b)[2] = y
    <3>1. /\ a \o b \in Seq(U) /\ Len(a \o b) = Len(a) + Len(b)
          /\ \A i \in 1 .. Len(a) + Len(b) : (a \o b)[i] = IF i <= Len(a) THEN a[i] ELSE b[i - Len(a)]
      BY <2>4, ConcatProperties
    <3>2. QED  BY <2>4, <3>1
  <2>6. PICK c, d : c = a \o b /\ d = <<x, y>>
    OBVIOUS
  <2>7. /\ c \in Seq(U) /\ d \in Seq(U) /\ Len(c) = 2 /\ Len(d) = 2
        /\ c[1] = d[1] /\ c[2] = d[2]
    BY <2>1, <2>5, <2>6
  <2>8. \A i \in 1 .. Len(c) : c[i] = d[i]
    BY <2>7
  <2>9. c = d
    BY <2>7, <2>8, SeqEqual
  <2>10. QED  BY <2>3, <2>6, <2>9
<1>8. Listed(<<x, y>>) /\ Len(<<x, y>>) = 2
  BY ListedTuples
<1>9. PICK g : g = got \o <<x, y>>
  OBVIOUS
<1>10. SubSeq(g, Len(got) + 1, Len(g)) = <<x, y>> /\ SubSeq(g, 1, Len(got)) = got /\ Len(g) = Len(got) + 2
  <2>1. PICK d : d = <<x, y>>
    OBVIOUS
  <2>2. Listed(d) /\ Len(d) = 2 /\ g = got \o d
    BY <1>8, <1>9, <2>1
  <2>3. Len(got \o d) = Len(got) + Len(d) /\ SubSeq(got \o d, Len(got) + 1, Len(got \o d)) = d /\ SubSeq(got \o d, 1, Len(got)) = got
    BY <2>2, ListedConcat
  <2>4. QED  BY <2>1, <2>2, <2>3
<1>11. Len(g) - 2 = Len(got) /\ Len(g) - 1 = Len(got) + 1 /\ Len(Append(got, x)) - 1 = Len(got)
  BY <1>1, <1>10
<1>12. Append(Append(got, x), y) = g
  BY <1>6, <1>7, <1>9
<1>13. QED  BY <1>1, <1>10, <1>11, <1>12

Number == {"u8", "u16", "u32", "u64"}

LEMMA Words ==
  ASSUME NEW w \in Number, NEW n \in Nat
  PROVE  /\ Size[w] \in Nat \ {0}
         /\ n % Size[w] \in 0 .. Size[w] - 1 /\ n % Size[w] \in Nat
         /\ n < Size[w] => n % Size[w] = n
         /\ push(w, n) = <<[width |-> w, bits |-> n % Size[w]]>>
         /\ push(w, n) \in Seq(Field) /\ Len(push(w, n)) = 1
<1>1. Size[w] \in Nat \ {0} /\ w \in Width
  <2>1. DOMAIN Size = Number /\ \A x \in DOMAIN Size : Size[x] \in Nat \ {0}
    BY WireAssumption, Zenon DEF Number
  <2>2. Size[w] \in Nat \ {0}
    BY <2>1, Zenon
  <2>3. w \in Width
    BY DEF Number, Width
  <2>4. QED  BY <2>2, <2>3
<1>2. PICK s : s = Size[w]
  OBVIOUS
<1>3. n % s \in 0 .. s - 1 /\ (n < s => n % s = n)
  <2>1. s \in Nat \ {0}
    BY <1>1, <1>2, Zenon
  <2>2. QED  BY <2>1
<1>4. n % s \in Nat
  BY <1>3
<1>5. push(w, n) = <<[width |-> w, bits |-> n % Size[w]]>>
  BY DEF push, word
<1>6. [width |-> w, bits |-> n % s] \in Field
  BY <1>1, <1>4 DEF Field
<1>7. PICK f : f = [width |-> w, bits |-> n % s]
  OBVIOUS
<1>8. <<f>> \in Seq(Field) /\ Len(<<f>>) = 1
  BY <1>6, <1>7
<1>9. QED  BY <1>1, <1>2, <1>3, <1>4, <1>5, <1>7, <1>8

LEMMA Raw ==
  ASSUME NEW w \in Width, NEW x \in (Nat \cup Text) \cup Float
  PROVE  /\ push_raw(w, x) = <<[width |-> w, bits |-> x]>>
         /\ push_raw(w, x) \in Seq(Field) /\ Len(push_raw(w, x)) = 1
<1>1. PICK f : f = [width |-> w, bits |-> x]
  OBVIOUS
<1>2. f \in Field
  BY <1>1 DEF Field
<1>3. <<f>> \in Seq(Field) /\ Len(<<f>>) = 1
  BY <1>2
<1>4. QED  BY <1>1, <1>3 DEF push_raw

LEMMA Adds ==
  ASSUME NEW got, Listed(got), NEW x
  PROVE  Listed(Add(got, x)) /\ Last(Add(got, x)) = x
BY ListedAppend DEF Add

LEMMA TookWord ==
  ASSUME NEW p, NEW k, Payload(p, k), NEW i \in Nat, NEW got, NEW r, Took(r, p, i, k, got),
         NEW w \in Number, NEW n \in Nat, Lies(p, i, push(w, n))
  PROVE  Took(read(r, w), p, i + 1, k, Add(got, n % Size[w]))
<1>1. PICK m : m = n % Size[w]
  OBVIOUS
<1>2. push(w, n) = <<[width |-> w, bits |-> m]>> /\ w \in Width
  <2>1. push(w, n) = <<[width |-> w, bits |-> m]>>
    BY <1>1, Zenon DEF push, word
  <2>2. QED  BY <2>1 DEF Number, Width
<1>3. Lies(p, i, <<[width |-> w, bits |-> m]>>)
  BY <1>2
<1>4. Took(read(r, w), p, i + 1, k, Append(got, m))
  BY <1>2, <1>3, TookRead
<1>5. QED  BY <1>1, <1>4 DEF Add

\* Something in the place of what was read last, or of the last two.
LEMMA MadeOne ==
  ASSUME NEW p, NEW i \in Nat, NEW k \in Int, NEW got, Listed(got), NEW n,
         NEW r, Took(r, p, i, k, Add(got, n)), NEW x, NEW y, i <= k => x = y
  PROVE  Took(Made(r, 1, x), p, i, k, Add(got, y))
<1>1. PICK g : g = Add(got, n)
  OBVIOUS
<1>2. SubSeq(g, 1, Len(g) - 1) = got
  BY <1>1, TwoBack DEF Add
<1>3. Took(Made(r, 1, x), p, i, k, Append(got, y))
  BY <1>1, <1>2, TookMade
<1>4. QED  BY <1>3 DEF Add

LEMMA MadeTwo ==
  ASSUME NEW p, NEW i \in Nat, NEW k \in Int, NEW got, Listed(got), NEW n, NEW m,
         NEW r, Took(r, p, i, k, Add(Add(got, n), m)), NEW x, NEW y, i <= k => x = y
  PROVE  Took(Made(r, 2, x), p, i, k, Add(got, y))
<1>1. PICK g : g = Add(Add(got, n), m)
  OBVIOUS
<1>2. SubSeq(g, 1, Len(g) - 2) = got
  BY <1>1, TwoBack DEF Add
<1>3. Took(Made(r, 2, x), p, i, k, Append(got, y))
  BY <1>1, <1>2, TookMade
<1>4. QED  BY <1>3 DEF Add

LEMMA TookCode ==
  ASSUME NEW p, NEW k, Payload(p, k), NEW i \in Nat, NEW got, Listed(got), NEW r, Took(r, p, i, k, got),
         NEW n \in Nat, n < Size["u8"], Lies(p, i, push("u8", n)),
         NEW table, n < Len(table), NEW error
  PROVE  Took(read_code(r, table, error), p, i + 1, k, Add(got, table[n + 1]))
<1>p. k \in Int
  BY DEF Payload
<1>1. n % Size["u8"] = n
  BY Words DEF Number
<1> DEFINE b == read(r, "u8")
<1>2. Took(b, p, i + 1, k, Add(got, n))
  BY <1>1, TookWord DEF Number
<1> DEFINE c == expect(b, Read(b) < Len(table), error)
<1> HIDE DEF b
<1>3. Last(Add(got, n)) = n
  BY Adds
<1>4. i + 1 <= k => Read(b) = n
  BY <1>2, <1>3, <1>p, TookGot
<1>5. c = b
  <2>1. b.err = "None" => Read(b) < Len(table)
    BY <1>2, <1>4, <1>p, TookGot
  <2>2. QED  BY <2>1 DEF expect
<1> HIDE DEF c
<1>6. Took(c, p, i + 1, k, Add(got, n)) /\ (i + 1 <= k => table[Read(c) + 1] = table[n + 1])
  BY <1>2, <1>4, <1>5
<1>7. PICK x, y : x = table[Read(c) + 1] /\ y = table[n + 1]
  OBVIOUS
<1>8. Took(Made(c, 1, x), p, i + 1, k, Add(got, y))
  BY <1>6, <1>7, <1>p, MadeOne
<1>9. QED  BY <1>7, <1>8 DEF read_code, c, b

LEMMA SignedWords ==
  ASSUME NEW v \in T
  PROVE  /\ t_to_wire[v] \in Nat /\ t_to_wire[v] < Size["u8"]
         /\ Signed(t_to_wire[v]) = Level[v] /\ Level[v] \in -1 .. 1
         /\ (CHOOSE u \in T : Level[u] = Level[v]) = v
<1>1. Size["u8"] \in Nat /\ Size["u8"] > 11
  BY WireAssumption
<1>2. PICK s : s = Size["u8"]
  OBVIOUS
<1>3. t_to_wire[v] = IF v = "Neg" THEN s - 1 ELSE IF v = "Zero" THEN 0 ELSE 1
  BY <1>2 DEF t_to_wire, T
<1>4. Level[v] = IF v = "Neg" THEN -1 ELSE IF v = "Zero" THEN 0 ELSE 1
  BY DEF Level, T
<1>5. t_to_wire[v] \in Nat /\ t_to_wire[v] < s
  BY <1>1, <1>2, <1>3 DEF T
<1>6. Signed(t_to_wire[v]) = Level[v]
  BY <1>1, <1>2, <1>3, <1>4 DEF T, Signed
<1>7. \A u \in T : Level[u] = Level[v] => u = v
  BY DEF Level, T
<1>8. QED  BY <1>2, <1>4, <1>5, <1>6, <1>7

LEMMA TookT ==
  ASSUME NEW p, NEW k, Payload(p, k), NEW i \in Nat, NEW got, Listed(got), NEW r, Took(r, p, i, k, got),
         NEW v \in T, Lies(p, i, push("u8", t_to_wire[v]))
  PROVE  Took(wire_to_t(r), p, i + 1, k, Add(got, v))
<1>p. k \in Int
  BY DEF Payload
<1>1. PICK n : n = t_to_wire[v]
  OBVIOUS
<1>2. n \in Nat /\ n < Size["u8"] /\ Signed(n) = Level[v] /\ Level[v] \in -1 .. 1 /\ (CHOOSE u \in T : Level[u] = Level[v]) = v
  BY <1>1, SignedWords
<1>3. n % Size["u8"] = n /\ Lies(p, i, push("u8", n))
  BY <1>1, <1>2, Words DEF Number
<1> DEFINE b == read(r, "u8")
<1>4. Took(b, p, i + 1, k, Add(got, n))
  BY <1>2, <1>3, TookWord DEF Number
<1> DEFINE c == expect(b, Signed(Read(b)) \in -1 .. 1, "InvalidTernaryValue")
<1> HIDE DEF b
<1>5. Last(Add(got, n)) = n
  BY Adds
<1>6. i + 1 <= k => Read(b) = n
  BY <1>4, <1>5, <1>p, TookGot
<1>7. c = b
  <2>1. b.err = "None" => Signed(Read(b)) \in -1 .. 1
    BY <1>2, <1>4, <1>6, <1>p, TookGot
  <2>2. QED  BY <2>1 DEF expect
<1> HIDE DEF c
<1>9. PICK x : x = CHOOSE u \in T : Level[u] = Signed(Read(c))
  OBVIOUS
<1>8. Took(c, p, i + 1, k, Add(got, n)) /\ (i + 1 <= k => x = v)
  BY <1>2, <1>4, <1>6, <1>7, <1>9
<1>10. Took(Made(c, 1, x), p, i + 1, k, Add(got, v))
  BY <1>8, <1>p, MadeOne
<1>11. QED  BY <1>9, <1>10 DEF wire_to_t, c, b

-----------------------------------------------------------------------------
(* Texts *)

\* A length that is not zero, and what is that long.
LEMMA TookLong ==
  ASSUME NEW p, NEW k, Payload(p, k), NEW i \in Nat, NEW got, Listed(got), NEW r, Took(r, p, i, k, got),
         NEW n \in Nat \ {0}, n < Size["u16"], NEW x \in (Nat \cup Text) \cup Float,
         Lies(p, i, push("u16", n)), Lies(p, i + 1, push_raw("utf8", x))
  PROVE  Took(read_str(r), p, i + 2, k, Add(got, x))
<1>p. k \in Int
  BY DEF Payload
<1>1. n % Size["u16"] = n
  BY Words DEF Number
<1> DEFINE c == read(r, "u16")
<1>2. Took(c, p, i + 1, k, Add(got, n))
  BY <1>1, TookWord DEF Number
<1>3. Last(Add(got, n)) = n /\ Listed(Add(got, n))
  BY Adds
<1>4. CASE ~(i + 1 <= k)
  <2>1. c.err = "PayloadTruncated"
    BY <1>2, <1>4, <1>p, TookGot
  <2>2. read_str(r) = c
    BY <2>1 DEF read_str
  <2>3. ~(i + 2 <= k)
    BY <1>4, <1>p
  <2>4. QED  BY <2>1, <2>2, <2>3 DEF Took
<1>5. CASE i + 1 <= k
  <2>1. c.err = "None" /\ Read(c) = n
    BY <1>2, <1>3, <1>5, <1>p, TookGot
  <2> DEFINE s == read(c, "utf8")
  <2>2. read_str(r) = Made(s, 2, Read(s))
    BY <2>1 DEF read_str
  <2> HIDE DEF c
  <2>3. Took(s, p, i + 2, k, Add(Add(got, n), x))
    <3>1. push_raw("utf8", x) = <<[width |-> "utf8", bits |-> x]>>
      BY DEF push_raw
    <3>2. Lies(p, i + 1, <<[width |-> "utf8", bits |-> x]>>)
      BY <3>1
    <3>3. PICK j, g : j = i + 1 /\ g = Add(got, n)
      OBVIOUS
    <3>4. Took(c, p, j, k, g) /\ Lies(p, j, <<[width |-> "utf8", bits |-> x]>>) /\ j \in Nat
      BY <1>2, <3>2, <3>3
    <3>5. "utf8" \in Width
      BY DEF Width
    <3>6. Took(s, p, j + 1, k, Append(g, x))
      BY <3>4, <3>5, TookRead
    <3>7. Took(s, p, j + 1, k, Add(g, x))
      BY <3>6 DEF Add
    <3>8. j + 1 = i + 2
      BY <3>3
    <3>9. QED  BY <3>3, <3>7, <3>8
  <2> HIDE DEF s
  <2>4. i + 2 <= k => Read(s) = x
    <3>1. Last(Add(Add(got, n), x)) = x
      BY <1>3, Adds
    <3>2. QED  BY <2>3, <3>1, <1>p, TookGot
  <2>5. PICK y : y = Read(s)
    OBVIOUS
  <2>6. Took(Made(s, 2, y), p, i + 2, k, Add(got, x))
    BY <2>3, <2>4, <2>5, <1>p, MadeTwo
  <2>7. QED  BY <2>2, <2>5, <2>6
<1>6. QED  BY <1>4, <1>5

\* No text, and none of its bytes.
LEMMA TookShort ==
  ASSUME NEW p, NEW k, Payload(p, k), NEW i \in Nat, NEW got, Listed(got), NEW r, Took(r, p, i, k, got),
         Lies(p, i, push("u16", 0))
  PROVE  Took(read_str(r), p, i + 1, k, Add(got, ""))
<1>p. k \in Int
  BY DEF Payload
<1>1. 0 % Size["u16"] = 0
  <2>1. Size["u16"] \in Nat \ {0} /\ (0 < Size["u16"] => 0 % Size["u16"] = 0)
    BY Words DEF Number
  <2>2. QED  BY <2>1
<1> DEFINE c == read(r, "u16")
<1>2. Took(c, p, i + 1, k, Add(got, 0))
  BY <1>1, TookWord DEF Number
<1>3. Last(Add(got, 0)) = 0
  BY Adds
<1>4. CASE ~(i + 1 <= k)
  <2>1. c.err = "PayloadTruncated"
    BY <1>2, <1>4, <1>p, TookGot
  <2>2. read_str(r) = c
    BY <2>1 DEF read_str
  <2>3. QED  BY <1>4, <2>1, <2>2 DEF Took
<1>5. CASE i + 1 <= k
  <2>1. c.err = "None" /\ Read(c) = 0
    BY <1>2, <1>3, <1>5, <1>p, TookGot
  <2>2. read_str(r) = Made(c, 1, "")
    BY <2>1 DEF read_str
  <2> HIDE DEF c
  <2>3. \A x : Took(Made(c, 1, x), p, i + 1, k, Add(got, x))
    BY <1>2, <1>p, MadeOne
  <2>4. QED  BY <2>2, <2>3
<1>6. QED  BY <1>4, <1>5

LEMMA Strings ==
  ASSUME NEW s \in Text
  PROVE  /\ s = "" => push_str(s) = push("u16", 0) \o <<>>
         /\ s # "" => push_str(s) = push("u16", Len(s)) \o push_raw("utf8", s)
         /\ Len(s) \in Nat /\ Len(s) < Size["u16"] /\ (s # "" => Len(s) # 0)
         /\ push_str(s) \in Seq(Field) /\ Len(push_str(s)) = IF s = "" THEN 1 ELSE 2
<1>0. Size["u16"] \in Nat
  BY Words DEF Number
<1>1. (Len(s) = 0 <=> s = "") /\ Len(s) \in Nat /\ Len(s) < Size["u16"]
  <2>1. Len(s) \in 0 .. Size["u16"] - 1 /\ (Len(s) = 0 <=> s = "")
    BY WireAssumption, Zenon
  <2>2. PICK n, m : n = Len(s) /\ m = Size["u16"]
    OBVIOUS
  <2>3. n \in 0 .. m - 1 /\ m \in Nat
    BY <1>0, <2>1, <2>2
  <2>4. n \in Nat /\ n < m
    BY <2>3
  <2>5. QED  BY <2>1, <2>2, <2>4
<1>2. Size["u16"] \in Nat /\ push("u16", Len(s)) \in Seq(Field) /\ Len(push("u16", Len(s))) = 1
  <2>1. Len(s) \in Nat
    BY <1>1
  <2>2. QED  BY <2>1, Words DEF Number
<1>3. "utf8" \in Width /\ s \in (Nat \cup Text) \cup Float
  BY DEF Width
<1>4. push_raw("utf8", s) \in Seq(Field) /\ Len(push_raw("utf8", s)) = 1
  BY <1>3, Raw
<1>5. CASE s = ""
  <2>1. push_str(s) = push("u16", Len(s)) \o <<>> /\ Len(s) = 0
    BY <1>1, <1>5 DEF push_str
  <2>2. push("u16", Len(s)) \o <<>> = push("u16", Len(s))
    BY <1>2, ConcatEmptySeq
  <2>3. /\ push_str(s) = push("u16", 0) \o <<>>
        /\ push_str(s) \in Seq(Field) /\ Len(push_str(s)) = 1
    BY <1>2, <2>1, <2>2
  <2>4. QED  BY <1>1, <1>5, <2>3
<1>6. CASE s # ""
  <2>1. push_str(s) = push("u16", Len(s)) \o push_raw("utf8", s)
    BY <1>6 DEF push_str
  <2>2. push("u16", Len(s)) \o push_raw("utf8", s) \in Seq(Field) /\ Len(push("u16", Len(s)) \o push_raw("utf8", s)) = 1 + 1
    BY <1>2, <1>4, ConcatProperties
  <2>3. push_str(s) \in Seq(Field) /\ Len(push_str(s)) = 2
    BY <2>1, <2>2
  <2>4. QED  BY <1>1, <1>6, <2>1, <2>3
<1>7. QED  BY <1>5, <1>6

LEMMA TookStr ==
  ASSUME NEW p, NEW k, Payload(p, k), NEW i \in Nat, NEW got, Listed(got), NEW r, Took(r, p, i, k, got),
         NEW s \in Text, Lies(p, i, push_str(s))
  PROVE  Took(read_str(r), p, i + Len(push_str(s)), k, Add(got, s))
<1>p. Len(p) \in Nat
  BY DEF Payload
<1>1. CASE s = ""
  <2>1. push("u16", 0) \in Seq(Field)
    BY Words DEF Number
  <2>2. push_str(s) = push("u16", 0)
    BY <1>1, <2>1, Strings, ConcatEmptySeq
  <2>3. Lies(p, i, push("u16", 0)) /\ Len(push_str(s)) = 1
    BY <1>1, <2>2, Strings
  <2>4. QED  BY <1>1, <2>3, TookShort
<1>2. CASE s # ""
  <2>1. /\ push_str(s) = push("u16", Len(s)) \o push_raw("utf8", s) /\ Len(push_str(s)) = 2
        /\ Len(s) \in Nat \ {0} /\ Len(s) < Size["u16"]
    BY <1>2, Strings
  <2>2. push("u16", Len(s)) \in Seq(Field) /\ Len(push("u16", Len(s))) = 1
    BY <2>1, Words DEF Number
  <2>3. "utf8" \in Width /\ s \in (Nat \cup Text) \cup Float
    BY DEF Width
  <2>4. push_raw("utf8", s) \in Seq(Field)
    BY <2>3, Raw
  <2>5. Lies(p, i, push("u16", Len(s)) \o push_raw("utf8", s))
    BY <2>1
  <2>6. Lies(p, i, push("u16", Len(s))) /\ Lies(p, i + 1, push_raw("utf8", s))
    BY <1>p, <2>2, <2>4, <2>5, LiesApart
  <2>7. Took(read_str(r), p, i + 2, k, Add(got, s))
    BY <2>1, <2>3, <2>6, TookLong
  <2>8. QED  BY <2>1, <2>7
<1>3. QED  BY <1>1, <1>2

-----------------------------------------------------------------------------
(* Maps and lists of ids *)

\* What comes of a map: its entries are read one by one.
MapMade(all, c, n) == Made(all, n + 1, MapOf(Since(all.got, c.got)))

LEMMA AttrMapRuns ==
  ASSUME NEW r, NEW n \in Nat, NEW c, c = read(r, "u16"), c.err = "None" => Read(c) = n
  PROVE  /\ c.err # "None" => parse_attr_map(r) = c
         /\ c.err = "None" => \E a : parse_attr_map(r) = MapMade(a[n], c, n) /\ \A E : Run(a, "attr", c, E, n)
<1>1. CASE c.err # "None"
  BY <1>1 DEF parse_attr_map, read_map
<1>2. CASE c.err = "None"
  <2> DEFINE h == CHOOSE a : a = [i \in 0 .. n |-> IF i = 0 THEN c ELSE read_attr(a[i - 1])]
  <2>1. PICK b : Run(b, "attr", c, <<>>, n)
    BY RunExists
  <2>2. b = [i \in 0 .. n |-> IF i = 0 THEN c ELSE read_attr(b[i - 1])]
    BY <2>1 DEF Run, Step
  <2>3. h = [i \in 0 .. n |-> IF i = 0 THEN c ELSE read_attr(h[i - 1])]
    BY <2>2
  <2>4. Read(c) = n
    BY <1>2
  <2>5. parse_attr_map(r) = MapMade(h[n], c, n)
    BY <1>2, <2>4 DEF parse_attr_map, read_map, read_many, MapMade, Since
  <2> HIDE DEF h
  <2>6. \A E : Run(h, "attr", c, E, n)
    BY <2>3 DEF Run, Step
  <2>7. QED  BY <1>2, <2>5, <2>6
<1>3. QED  BY <1>1, <1>2

LEMMA EntriesRun ==
  ASSUME NEW r, NEW n \in Nat, NEW c, c = read(r, "u16"), c.err = "None" => Read(c) = n
  PROVE  /\ c.err # "None" => read_frontier(r) = c
         /\ c.err = "None" => \E a : read_frontier(r) = MapMade(a[n], c, n) /\ \A E : Run(a, "entry", c, E, n)
<1>1. CASE c.err # "None"
  BY <1>1 DEF read_frontier, read_map
<1>2. CASE c.err = "None"
  <2> DEFINE h == CHOOSE a : a = [i \in 0 .. n |-> IF i = 0 THEN c ELSE read_entry(a[i - 1])]
  <2>1. PICK b : Run(b, "entry", c, <<>>, n)
    BY RunExists
  <2>2. b = [i \in 0 .. n |-> IF i = 0 THEN c ELSE read_entry(b[i - 1])]
    BY <2>1 DEF Run, Step
  <2>3. h = [i \in 0 .. n |-> IF i = 0 THEN c ELSE read_entry(h[i - 1])]
    BY <2>2
  <2>4. Read(c) = n
    BY <1>2
  <2>5. read_frontier(r) = MapMade(h[n], c, n)
    BY <1>2, <2>4 DEF read_frontier, read_map, read_many, MapMade, Since
  <2> HIDE DEF h
  <2>6. \A E : Run(h, "entry", c, E, n)
    BY <2>3 DEF Run, Step
  <2>7. QED  BY <1>2, <2>5, <2>6
<1>3. QED  BY <1>1, <1>2

MapReader(kind, r) == IF kind = "attr" THEN parse_attr_map(r) ELSE read_frontier(r)

LEMMA TookMap ==
  ASSUME NEW kind \in {"attr", "entry"}, NEW p, NEW k, Payload(p, k), NEW i \in Nat, NEW got, Listed(got),
         NEW r, Took(r, p, i, k, got), NEW E \in Seq(Seq(Field)), Len(E) < Size["u16"],
         Lies(p, i, push("u16", Len(E)) \o FlattenSeq(E)),
         NEW xs, Listed(xs), Len(xs) = Len(E), Reads(kind, p, k, E, xs)
  PROVE  Took(MapReader(kind, r), p, i + (1 + Len(FlattenSeq(E))), k, Add(got, MapOf(xs)))
<1>p. k \in Int /\ Len(p) \in Nat
  BY DEF Payload
<1>n. Len(E) \in Nat
  BY LenProperties
<1>1. PICK n : n = Len(E)
  OBVIOUS
<1>2. n \in Nat /\ n < Size["u16"] /\ n % Size["u16"] = n /\ push("u16", n) \in Seq(Field) /\ Len(push("u16", n)) = 1
  BY <1>1, <1>n, Words DEF Number
<1>3. FlattenSeq(E) \in Seq(Field)
  <2>1. PICK f : Flat(E, n, f)
    BY <1>1, <1>n, FlattenedUp
  <2>2. QED  BY <2>1, <1>2 DEF Flat
<1>4. PICK F, m : F = FlattenSeq(E) /\ m = Len(F)
  OBVIOUS
<1>5. F \in Seq(Field) /\ m \in Nat
  BY <1>3, <1>4, LenProperties
<1>j. PICK j : j = i + (1 + m)
  OBVIOUS
<1>b. j = (i + 1) + m /\ j \in Nat
  BY <1>j, <1>5
<1>6. Lies(p, i, push("u16", n)) /\ Lies(p, i + 1, F)
  <2>1. Lies(p, i, push("u16", n) \o F)
    BY <1>1, <1>4
  <2>2. QED  BY <2>1, <1>p, <1>2, <1>5, LiesApart
<1>7. PICK c : c = read(r, "u16")
  OBVIOUS
<1>8. Took(c, p, i + 1, k, Add(got, n))
  BY <1>2, <1>6, <1>7, TookWord DEF Number
<1>g. PICK g : g = Add(got, n)
  OBVIOUS
<1>9. Last(g) = n /\ Listed(g) /\ Took(c, p, i + 1, k, g)
  BY <1>8, <1>g, Adds
<1>10. c.err = "None" => Read(c) = n /\ i + 1 <= k /\ c.got = g
  BY <1>9, <1>p, TookGot
<1>11. CASE c.err # "None"
  <2>1. MapReader(kind, r) = c
    BY <1>2, <1>7, <1>10, <1>11, AttrMapRuns, EntriesRun DEF MapReader
  <2>2. c.err = "PayloadTruncated" /\ ~(i + 1 <= k)
    BY <1>9, <1>11, <1>p, TookGot
  <2>3. ~(j <= k)
    BY <2>2, <1>5, <1>b, <1>p
  <2>4. QED  BY <1>4, <1>j, <2>1, <2>2, <2>3 DEF Took
<1>12. CASE c.err = "None"
  <2>1. PICK a : Run(a, kind, c, E, n) /\ MapReader(kind, r) = MapMade(a[n], c, n)
    <3>1. CASE kind = "attr"
      <4>1. \E a : parse_attr_map(r) = MapMade(a[n], c, n) /\ \A D : Run(a, "attr", c, D, n)
        BY <1>2, <1>7, <1>10, <1>12, AttrMapRuns
      <4>2. QED  BY <4>1, <3>1 DEF MapReader
    <3>2. CASE kind = "entry"
      <4>1. \E a : read_frontier(r) = MapMade(a[n], c, n) /\ \A D : Run(a, "entry", c, D, n)
        BY <1>2, <1>7, <1>10, <1>12, EntriesRun
      <4>2. QED  BY <4>1, <3>2 DEF MapReader
    <3>3. QED  BY <3>1, <3>2
  <2>4. PICK all : all = a[n]
    OBVIOUS
  <2>2. Took(all, p, j, k, Joined(g, xs))
    <3>1. Run(a, kind, c, E, Len(E)) /\ Lies(p, i + 1, FlattenSeq(E)) /\ i + 1 \in Nat
      BY <2>1, <1>1, <1>4, <1>6
    <3>2. Took(a[Len(E)], p, (i + 1) + Len(FlattenSeq(E)), k, Joined(g, xs))
      BY <3>1, <1>9, TookMany
    <3>3. QED  BY <3>2, <1>1, <1>4, <1>b, <2>4
  <2>5. Since(Joined(g, xs), g) = xs /\ Before(Joined(g, xs), n + 1) = got
    BY <1>1, <1>g, TookBack
  <2> DEFINE x == MapOf(Since(all.got, c.got))
  <2>7. j <= k => x = MapOf(xs)
    <3>1. j <= k => all.got = Joined(g, xs)
      BY <2>2, <1>b, <1>p, TookGot
    <3>2. QED  BY <3>1, <2>5, <1>10, <1>12
  <2> HIDE DEF x
  <2>8. Took(Made(all, n + 1, x), p, j, k, Add(got, MapOf(xs)))
    <3>1. PICK h, o, y : h = Joined(g, xs) /\ o = n + 1 /\ y = MapOf(xs)
      OBVIOUS
    <3>2. o \in Nat /\ Took(all, p, j, k, h) /\ (j <= k => x = y)
      BY <3>1, <1>2, <2>2, <2>7
    <3>3. Before(h, o) = got
      BY <2>5, <3>1, Zenon
    <3>4. Took(Made(all, o, x), p, j, k, Append(got, y))
      BY <3>2, <3>3, <1>b, <1>p, TookMade DEF Before
    <3>5. QED  BY <3>1, <3>4 DEF Add
  <2>10. QED  BY <2>1, <2>4, <2>8, <1>4, <1>j DEF MapMade, x
<1>13. QED  BY <1>11, <1>12

Narrowed(ids) == [j \in 1 .. Len(ids) |-> ids[j] % Size["u64"]]

LEMMA ListsOfIds ==
  ASSUME NEW ids \in Seq(Nat)
  PROVE  /\ Narrowed(ids) \in Seq(Nat) /\ Len(Narrowed(ids)) = Len(ids)
         /\ \A j \in 1 .. Len(ids) : Narrowed(ids)[j] = ids[j] % Size["u64"]
         /\ [j \in 1 .. Len(ids) |-> word("u64", ids[j])] \in Seq(Field)
         /\ Len([j \in 1 .. Len(ids) |-> word("u64", ids[j])]) = Len(ids)
         /\ push_uids(ids) \in Seq(Field) /\ Len(push_uids(ids)) = 1 + Len(ids)
<1>1. Len(ids) \in Nat
  BY LenProperties
<1>2. ASSUME NEW j \in 1 .. Len(ids)
      PROVE  ids[j] % Size["u64"] \in Nat /\ word("u64", ids[j]) \in Field
  <2>1. ids[j] \in Nat
    BY ElementOfSeq
  <2>2. ids[j] % Size["u64"] \in Nat
    BY <2>1, Words DEF Number
  <2>3. "u64" \in Width
    BY DEF Width
  <2>4. QED  BY <2>2, <2>3 DEF word, Field
<1>3. Narrowed(ids) \in Seq(Nat) /\ Len(Narrowed(ids)) = Len(ids)
  BY <1>1, <1>2 DEF Narrowed
<1>4. \A j \in 1 .. Len(ids) : Narrowed(ids)[j] = ids[j] % Size["u64"]
  BY DEF Narrowed
<1> DEFINE F == [j \in 1 .. Len(ids) |-> word("u64", ids[j])]
<1>5. F \in Seq(Field) /\ Len(F) = Len(ids)
  BY <1>1, <1>2
<1> HIDE DEF F
<1>6. push("u32", Len(ids)) \in Seq(Field) /\ Len(push("u32", Len(ids))) = 1
  BY <1>1, Words DEF Number
<1>7. push_uids(ids) = push("u32", Len(ids)) \o F
  BY DEF push_uids, F
<1>8. push_uids(ids) \in Seq(Field) /\ Len(push_uids(ids)) = 1 + Len(ids)
  <2>1. /\ push("u32", Len(ids)) \o F \in Seq(Field)
        /\ Len(push("u32", Len(ids)) \o F) = Len(push("u32", Len(ids))) + Len(F)
    BY <1>5, <1>6, ConcatProperties
  <2>2. QED  BY <2>1, <1>5, <1>6, <1>7
<1>9. QED  BY <1>3, <1>4, <1>5, <1>8 DEF F

LEMMA TookUids ==
  ASSUME NEW p, NEW k, Payload(p, k), NEW i \in Nat, NEW got, Listed(got), NEW r, Took(r, p, i, k, got),
         NEW ids, IsList(ids), Lies(p, i, push_uids(ids))
  PROVE  Took(read_uids(r), p, i + Len(push_uids(ids)), k, Add(got, Narrowed(ids)))
<1>p. k \in Int /\ Len(p) \in Nat
  BY DEF Payload
<1>0. ids \in Seq(Nat) /\ Len(ids) < Size["u32"]
  BY DEF IsList
<1>1. PICK n : n = Len(ids)
  OBVIOUS
<1>2. n \in Nat /\ n < Size["u32"]
  BY <1>0, <1>1, LenProperties
<1>3. n % Size["u32"] = n /\ push("u32", n) \in Seq(Field) /\ Len(push("u32", n)) = 1
  BY <1>2, Words DEF Number
<1> DEFINE G == [m \in 1 .. Len(ids) |-> word("u64", ids[m])]
<1>4. G \in Seq(Field) /\ Len(G) = n /\ push_uids(ids) = push("u32", n) \o G /\ Len(push_uids(ids)) = 1 + n
  BY <1>0, <1>1, ListsOfIds DEF push_uids
<1>5. ASSUME NEW m \in 1 .. n PROVE G[m] = [width |-> "u64", bits |-> Narrowed(ids)[m]]
  BY <1>0, <1>1, ListsOfIds DEF word
<1> HIDE DEF G
<1>j. PICK j : j = i + (1 + n)
  OBVIOUS
<1>b. j = (i + 1) + n /\ j \in Nat
  BY <1>j, <1>2
<1>6. Lies(p, i, push("u32", n)) /\ Lies(p, i + 1, G)
  <2>1. Lies(p, i, push("u32", n) \o G)
    BY <1>4
  <2>2. QED  BY <2>1, <1>p, <1>3, <1>4, LiesApart
<1>7. PICK c : c = read(r, "u32")
  OBVIOUS
<1>g. PICK g : g = Add(got, n)
  OBVIOUS
<1>8. Took(c, p, i + 1, k, g)
  BY <1>2, <1>3, <1>6, <1>7, <1>g, TookWord DEF Number
<1>9. Last(g) = n /\ Listed(g)
  BY <1>g, Adds
<1>10. CASE ~(i + 1 <= k)
  <2>1. c.err = "PayloadTruncated"
    BY <1>8, <1>10, <1>p, TookGot
  <2>2. read_uids(r) = c
    BY <2>1, <1>7 DEF read_uids
  <2>3. ~(j <= k)
    BY <1>2, <1>10, <1>b, <1>p
  <2>4. QED  BY <2>1, <2>2, <2>3, <1>4, <1>j DEF Took
<1>11. CASE i + 1 <= k
  <2>1. c.err = "None" /\ Read(c) = n /\ c.got = g
    BY <1>8, <1>9, <1>11, <1>p, TookGot
  <2> DEFINE ws == [m \in 1 .. n |-> "u64"]
  <2>2. ws \in Seq(Width) /\ Len(ws) = n /\ \A m \in 1 .. n : ws[m] = "u64"
    <3>1. "u64" \in Width
      BY DEF Width
    <3>2. QED  BY <3>1, <1>2
  <2> DEFINE all == read_all(c, ws)
  <2>3. read_uids(r) = Made(all, n + 1, Since(all.got, c.got))
    BY <2>1, <1>7 DEF read_uids, Since
  <2> HIDE DEF ws
  <2>4. PICK b : b = Narrowed(ids)
    OBVIOUS
  <2>5. Listed(b) /\ Len(b) = n
    BY <1>0, <1>1, <2>4, ListsOfIds DEF Listed
  <2>6. Spells(G, ws, b)
    BY <1>4, <1>5, <2>2, <2>4, <2>5 DEF Spells
  <2>7. Took(all, p, j, k, Joined(g, b))
    <3>1. PICK q : q = i + 1
      OBVIOUS
    <3>2. q \in Nat /\ Took(c, p, q, k, g) /\ Lies(p, q, G)
      BY <3>1, <1>6, <1>8
    <3>3. Took(all, p, q + Len(ws), k, Joined(g, b))
      BY <3>2, <1>9, <2>2, <2>5, <2>6, TookAll
    <3>4. QED  BY <3>1, <3>3, <2>2, <1>b
  <2> HIDE DEF all
  <2>9. Since(Joined(g, b), g) = b /\ Before(Joined(g, b), n + 1) = got
    BY <2>5, <1>g, TookBack
  <2> DEFINE x == Since(all.got, c.got)
  <2>12. j <= k => x = b
    <3>1. j <= k => all.got = Joined(g, b)
      BY <2>7, <1>b, <1>p, TookGot
    <3>2. QED  BY <3>1, <2>1, <2>9
  <2> HIDE DEF x
  <2>13. Took(Made(all, n + 1, x), p, j, k, Add(got, b))
    <3>1. PICK h, o : h = Joined(g, b) /\ o = n + 1
      OBVIOUS
    <3>2. o \in Nat /\ Took(all, p, j, k, h)
      BY <3>1, <1>2, <2>7
    <3>3. Before(h, o) = got
      BY <2>9, <3>1, Zenon
    <3>4. Took(Made(all, o, x), p, j, k, Append(got, b))
      BY <3>2, <3>3, <1>b, <1>p, <2>12, TookMade DEF Before
    <3>5. QED  BY <3>1, <3>4 DEF Add
  <2>14. QED  BY <2>3, <2>4, <2>13, <1>4, <1>j DEF x
<1>12. QED  BY <1>10, <1>11

-----------------------------------------------------------------------------
(* Attribute values *)

\* A reader that has failed reads nothing more.
LEMMA TookLate ==
  ASSUME NEW p, NEW i \in Nat, NEW k \in Int, NEW got, NEW r, Took(r, p, i, k, got), r.err # "None",
         NEW j \in Nat, i <= j
  PROVE  r.err = "PayloadTruncated" /\ ~(i <= k) /\ \A g : Took(r, p, j, k, g)
<1>1. r.err = "PayloadTruncated" /\ ~(i <= k)
  BY TookGot
<1>2. QED  BY <1>1 DEF Took

LEMMA TookRaw ==
  ASSUME NEW p, NEW k, Payload(p, k), NEW i \in Nat, NEW got, NEW r, Took(r, p, i, k, got),
         NEW w \in Width, NEW x, Lies(p, i, push_raw(w, x))
  PROVE  Took(read(r, w), p, i + 1, k, Add(got, x))
<1>1. Lies(p, i, <<[width |-> w, bits |-> x]>>)
  BY DEF push_raw
<1>2. Took(read(r, w), p, i + 1, k, Append(got, x))
  BY <1>1, TookRead
<1>3. QED  BY <1>2 DEF Add

\* A byte that says what follows.
LEMMA TookTag ==
  ASSUME NEW p, NEW k, Payload(p, k), NEW i \in Nat, NEW got, Listed(got), NEW r, Took(r, p, i, k, got),
         NEW n \in 0 .. 11, NEW F \in Seq(Field), Lies(p, i, push("u8", n) \o F)
  PROVE  /\ push("u8", n) \o F \in Seq(Field) /\ Len(push("u8", n) \o F) = 1 + Len(F) /\ Len(F) \in Nat
         /\ Lies(p, i + 1, F)
         /\ Took(read(r, "u8"), p, i + 1, k, Add(got, n))
         /\ Listed(Add(got, n))
         /\ read(r, "u8").err = "None" => Read(read(r, "u8")) = n
<1>p. Len(p) \in Nat /\ k \in Int
  BY DEF Payload
<1>1. n \in Nat /\ n < Size["u8"]
  <2>1. Size["u8"] \in Nat /\ Size["u8"] > 11
    BY WireAssumption
  <2>2. QED  BY <2>1
<1>2. n % Size["u8"] = n /\ push("u8", n) \in Seq(Field) /\ Len(push("u8", n)) = 1
  BY <1>1, Words DEF Number
<1>3. push("u8", n) \o F \in Seq(Field) /\ Len(push("u8", n) \o F) = 1 + Len(F) /\ Len(F) \in Nat
  BY <1>2, ConcatProperties, LenProperties
<1>4. Lies(p, i, push("u8", n)) /\ Lies(p, i + 1, F)
  BY <1>p, <1>2, LiesApart
<1>5. Took(read(r, "u8"), p, i + 1, k, Add(got, n))
  BY <1>1, <1>2, <1>4, TookWord DEF Number
<1>6. Listed(Add(got, n)) /\ Last(Add(got, n)) = n
  BY Adds
<1>7. read(r, "u8").err = "None" => Read(read(r, "u8")) = n
  BY <1>5, <1>6, <1>p, TookGot
<1>8. QED  BY <1>3, <1>4, <1>5, <1>6, <1>7

\* The value that is received for a value.
Heard(val) == IF "float" \in DOMAIN val THEN [float |-> Canonical(val.float)] ELSE val

\* What follows the tag of a value.
Body(val) ==
  CASE "bool" \in DOMAIN val    -> push("u8", IF val.bool THEN 1 ELSE 0)
    [] "int" \in DOMAIN val     -> push("u64", val.int)
    [] "float" \in DOMAIN val   -> push_raw("u64", Canonical(val.float))
    [] "text" \in DOMAIN val    -> push_str(val.text)
    [] "ternary" \in DOMAIN val -> push("u8", t_to_wire[val.ternary])
Tag(val) ==
  CASE "bool" \in DOMAIN val    -> 1
    [] "int" \in DOMAIN val     -> 2
    [] "float" \in DOMAIN val   -> 3
    [] "text" \in DOMAIN val    -> 4
    [] "ternary" \in DOMAIN val -> 6

\* To read what follows the tag.
ReadBody(tag) ==
  CASE Read(tag) = 1 -> LET v == read(tag, "u8") IN Made(v, 2, [bool |-> Read(v) # 0])
    [] Read(tag) \in {2, 7} -> LET v == read(tag, "u64") IN Made(v, 2, [int |-> Read(v)])
    [] Read(tag) = 3 -> LET v == read(tag, "u64")
                        IN Made(v, 2, [float |-> Canonical(Read(v))])
    [] Read(tag) = 4 -> LET v == read_str(tag) IN Made(v, 2, [text |-> Read(v)])
    [] Read(tag) = 6 -> LET v == wire_to_t(tag) IN Made(v, 2, [ternary |-> Read(v)])
    [] OTHER -> fail(tag, "UnsupportedAttrTag")

\* What a body is read as, after its tag.
Embodies(p, k, val) ==
  \A r, got : \A i \in Nat :
    Listed(got) /\ r.err = "None" /\ Read(r) = Tag(val) /\ Took(r, p, i, k, Add(got, Tag(val))) /\ Lies(p, i, Body(val))
      => Took(ReadBody(r), p, i + Len(Body(val)), k, Add(got, Heard(val)))

LEMMA Bools ==
  ASSUME NEW p, NEW k, Payload(p, k), NEW val \in [bool : BOOLEAN]
  PROVE  /\ Body(val) \in Seq(Field) /\ Tag(val) = 1 /\ push_val(val) = push("u8", 1) \o Body(val)
         /\ Embodies(p, k, val)
<1>p. k \in Int
  BY DEF Payload
<1>1. val = [bool |-> val.bool] /\ val.bool \in BOOLEAN /\ "bool" \in DOMAIN val /\ "float" \notin DOMAIN val
  OBVIOUS
<1>2. PICK n : n = IF val.bool THEN 1 ELSE 0
  OBVIOUS
<1>3. n \in Nat /\ n < Size["u8"] /\ (n # 0 <=> val.bool)
  <2>1. Size["u8"] \in Nat /\ Size["u8"] > 11
    BY WireAssumption
  <2>2. QED  BY <1>2, <2>1
<1>4. Body(val) = push("u8", n) /\ Tag(val) = 1 /\ push_val(val) = push("u8", 1) \o Body(val) /\ Heard(val) = val
  BY <1>1, <1>2 DEF Body, Tag, push_val, Heard
<1>5. n % Size["u8"] = n /\ push("u8", n) \in Seq(Field) /\ Len(push("u8", n)) = 1
  BY <1>3, Words DEF Number
<1>6. ASSUME NEW r, NEW got, NEW i \in Nat,
             Listed(got), r.err = "None", Read(r) = 1, Took(r, p, i, k, Add(got, 1)), Lies(p, i, push("u8", n))
      PROVE  Took(ReadBody(r), p, i + 1, k, Add(got, val))
  <2>1. PICK v : v = read(r, "u8")
    OBVIOUS
  <2>2. Took(v, p, i + 1, k, Add(Add(got, 1), n))
    BY <1>3, <1>5, <1>6, <2>1, TookWord DEF Number
  <2>3. Last(Add(Add(got, 1), n)) = n
    BY <1>6, Adds
  <2>4. i + 1 <= k => Read(v) = n
    BY <2>2, <2>3, <1>p, TookGot
  <2>5. PICK x : x = [bool |-> Read(v) # 0]
    OBVIOUS
  <2>6. i + 1 <= k => x = val
    <3>1. i + 1 <= k => (Read(v) # 0 <=> val.bool)
      BY <2>4, <1>3
    <3>2. QED  BY <3>1, <2>5, <1>1
  <2>7. Took(Made(v, 2, x), p, i + 1, k, Add(got, val))
    BY <1>6, <2>2, <2>6, <1>p, MadeTwo
  <2>8. ReadBody(r) = Made(v, 2, x)
    BY <1>6, <2>1, <2>5 DEF ReadBody
  <2>9. QED  BY <2>7, <2>8
<1>7. QED  BY <1>4, <1>5, <1>6 DEF Embodies

LEMMA Ints ==
  ASSUME NEW p, NEW k, Payload(p, k), NEW val \in [int : u64]
  PROVE  /\ Body(val) \in Seq(Field) /\ Tag(val) = 2 /\ push_val(val) = push("u8", 2) \o Body(val)
         /\ Embodies(p, k, val)
<1>p. k \in Int
  BY DEF Payload
<1>1. val = [int |-> val.int] /\ val.int \in u64 /\ "int" \in DOMAIN val /\ "float" \notin DOMAIN val /\ "bool" \notin DOMAIN val
  OBVIOUS
<1>2. PICK n : n = val.int
  OBVIOUS
<1>3. n \in Nat /\ n < Size["u64"]
  <2>1. Size["u64"] \in Nat
    BY Words DEF Number
  <2>2. QED  BY <1>1, <1>2, <2>1 DEF u64
<1>4. Body(val) = push("u64", n) /\ Tag(val) = 2 /\ push_val(val) = push("u8", 2) \o Body(val) /\ Heard(val) = val
  BY <1>1, <1>2 DEF Body, Tag, push_val, Heard
<1>5. n % Size["u64"] = n /\ push("u64", n) \in Seq(Field) /\ Len(push("u64", n)) = 1
  BY <1>3, Words DEF Number
<1>6. ASSUME NEW r, NEW got, NEW i \in Nat,
             Listed(got), r.err = "None", Read(r) = 2, Took(r, p, i, k, Add(got, 2)), Lies(p, i, push("u64", n))
      PROVE  Took(ReadBody(r), p, i + 1, k, Add(got, val))
  <2>1. PICK v : v = read(r, "u64")
    OBVIOUS
  <2>2. Took(v, p, i + 1, k, Add(Add(got, 2), n))
    BY <1>3, <1>5, <1>6, <2>1, TookWord DEF Number
  <2>3. Last(Add(Add(got, 2), n)) = n
    BY <1>6, Adds
  <2>4. i + 1 <= k => Read(v) = n
    BY <2>2, <2>3, <1>p, TookGot
  <2>5. PICK x : x = [int |-> Read(v)]
    OBVIOUS
  <2>6. i + 1 <= k => x = val
    BY <2>4, <2>5, <1>1, <1>2
  <2>7. Took(Made(v, 2, x), p, i + 1, k, Add(got, val))
    BY <1>6, <2>2, <2>6, <1>p, MadeTwo
  <2>8. ReadBody(r) = Made(v, 2, x)
    BY <1>6, <2>1, <2>5 DEF ReadBody
  <2>9. QED  BY <2>7, <2>8
<1>7. QED  BY <1>4, <1>5, <1>6 DEF Embodies

LEMMA Floats ==
  ASSUME NEW p, NEW k, Payload(p, k), NEW val \in [float : Float]
  PROVE  /\ Body(val) \in Seq(Field) /\ Tag(val) = 3 /\ push_val(val) = push("u8", 3) \o Body(val)
         /\ Embodies(p, k, val)
<1>p. k \in Int
  BY DEF Payload
<1>1. val = [float |-> val.float] /\ val.float \in Float /\ "float" \in DOMAIN val /\ "int" \notin DOMAIN val /\ "bool" \notin DOMAIN val
  OBVIOUS
<1>2. PICK f : f = Canonical(val.float)
  OBVIOUS
<1>3. f \in Float /\ Canonical(f) = f
  <2>1. "quiet NaN" \in Float
    BY WireAssumption
  <2>2. QED  BY <1>1, <1>2, <2>1 DEF Canonical
<1>4. Body(val) = push_raw("u64", f) /\ Tag(val) = 3 /\ push_val(val) = push("u8", 3) \o Body(val) /\ Heard(val) = [float |-> f]
  BY <1>1, <1>2 DEF Body, Tag, push_val, Heard
<1>5. "u64" \in Width /\ push_raw("u64", f) \in Seq(Field) /\ Len(push_raw("u64", f)) = 1
  <2>1. "u64" \in Width /\ f \in (Nat \cup Text) \cup Float
    BY <1>3 DEF Width
  <2>2. QED  BY <2>1, Raw
<1>6. ASSUME NEW r, NEW got, NEW i \in Nat,
             Listed(got), r.err = "None", Read(r) = 3, Took(r, p, i, k, Add(got, 3)), Lies(p, i, push_raw("u64", f))
      PROVE  Took(ReadBody(r), p, i + 1, k, Add(got, [float |-> f]))
  <2>1. PICK v : v = read(r, "u64")
    OBVIOUS
  <2>2. Took(v, p, i + 1, k, Add(Add(got, 3), f))
    BY <1>5, <1>6, <2>1, TookRaw
  <2>3. Last(Add(Add(got, 3), f)) = f
    BY <1>6, Adds
  <2>4. i + 1 <= k => Read(v) = f
    BY <2>2, <2>3, <1>p, TookGot
  <2>5. PICK x, y : x = [float |-> Canonical(Read(v))] /\ y = [float |-> f]
    OBVIOUS
  <2>6. i + 1 <= k => x = y
    BY <2>4, <2>5, <1>3
  <2>7. Took(Made(v, 2, x), p, i + 1, k, Add(got, y))
    BY <1>6, <2>2, <2>6, <1>p, MadeTwo
  <2>8. ReadBody(r) = Made(v, 2, x)
    BY <1>6, <2>1, <2>5 DEF ReadBody
  <2>9. QED  BY <2>5, <2>7, <2>8
<1>7. QED  BY <1>4, <1>5, <1>6 DEF Embodies

LEMMA Texts ==
  ASSUME NEW p, NEW k, Payload(p, k), NEW val \in [text : Text]
  PROVE  /\ Body(val) \in Seq(Field) /\ Tag(val) = 4 /\ push_val(val) = push("u8", 4) \o Body(val)
         /\ Embodies(p, k, val)
<1>p. k \in Int
  BY DEF Payload
<1>1. /\ val = [text |-> val.text] /\ val.text \in Text /\ "text" \in DOMAIN val
      /\ "float" \notin DOMAIN val /\ "int" \notin DOMAIN val /\ "bool" \notin DOMAIN val
  OBVIOUS
<1>2. PICK s : s = val.text
  OBVIOUS
<1>4. Body(val) = push_str(s) /\ Tag(val) = 4 /\ push_val(val) = push("u8", 4) \o Body(val) /\ Heard(val) = val
  BY <1>1, <1>2 DEF Body, Tag, push_val, Heard
<1>5. push_str(s) \in Seq(Field) /\ Len(push_str(s)) \in Nat
  <2>1. s \in Text
    BY <1>1, <1>2
  <2>2. push_str(s) \in Seq(Field)
    BY <2>1, Strings
  <2>3. QED  BY <2>2, LenProperties
<1>6. ASSUME NEW r, NEW got, NEW i \in Nat,
             Listed(got), r.err = "None", Read(r) = 4, Took(r, p, i, k, Add(got, 4)), Lies(p, i, push_str(s))
      PROVE  Took(ReadBody(r), p, i + Len(push_str(s)), k, Add(got, val))
  <2>1. PICK v : v = read_str(r)
    OBVIOUS
  <2>j. PICK j : j = i + Len(push_str(s))
    OBVIOUS
  <2>2. Took(v, p, j, k, Add(Add(got, 4), s)) /\ j \in Nat
    <3>1. Listed(Add(got, 4)) /\ s \in Text
      BY <1>1, <1>2, <1>6, Adds
    <3>2. Took(v, p, i + Len(push_str(s)), k, Add(Add(got, 4), s))
      BY <3>1, <1>6, <2>1, TookStr
    <3>3. QED  BY <3>2, <1>5, <2>j
  <2>3. Last(Add(Add(got, 4), s)) = s
    BY <1>6, Adds
  <2>4. j <= k => Read(v) = s
    BY <2>2, <2>3, <1>p, TookGot
  <2>5. PICK x : x = [text |-> Read(v)]
    OBVIOUS
  <2>6. j <= k => x = val
    BY <2>4, <2>5, <1>1, <1>2
  <2>7. Took(Made(v, 2, x), p, j, k, Add(got, val))
    BY <1>6, <2>2, <2>6, <1>p, MadeTwo
  <2>8. ReadBody(r) = Made(v, 2, x)
    BY <1>6, <2>1, <2>5 DEF ReadBody
  <2>9. QED  BY <2>7, <2>8, <2>j
<1>7. QED  BY <1>4, <1>5, <1>6 DEF Embodies

LEMMA Ternaries ==
  ASSUME NEW p, NEW k, Payload(p, k), NEW val \in [ternary : T]
  PROVE  /\ Body(val) \in Seq(Field) /\ Tag(val) = 6 /\ push_val(val) = push("u8", 6) \o Body(val)
         /\ Embodies(p, k, val)
<1>p. k \in Int
  BY DEF Payload
<1>1. /\ val = [ternary |-> val.ternary] /\ val.ternary \in T /\ "ternary" \in DOMAIN val
      /\ "text" \notin DOMAIN val /\ "float" \notin DOMAIN val /\ "int" \notin DOMAIN val /\ "bool" \notin DOMAIN val
  OBVIOUS
<1>2. PICK t, n : t = val.ternary /\ n = t_to_wire[t]
  OBVIOUS
<1>3. t \in T /\ n \in Nat /\ n < Size["u8"]
  BY <1>1, <1>2, SignedWords
<1>4. Body(val) = push("u8", n) /\ Tag(val) = 6 /\ push_val(val) = push("u8", 6) \o Body(val) /\ Heard(val) = val
  BY <1>1, <1>2 DEF Body, Tag, push_val, Heard
<1>5. push("u8", n) \in Seq(Field) /\ Len(push("u8", n)) = 1
  BY <1>3, Words DEF Number
<1>6. ASSUME NEW r, NEW got, NEW i \in Nat,
             Listed(got), r.err = "None", Read(r) = 6, Took(r, p, i, k, Add(got, 6)), Lies(p, i, push("u8", n))
      PROVE  Took(ReadBody(r), p, i + 1, k, Add(got, val))
  <2>1. PICK v : v = wire_to_t(r)
    OBVIOUS
  <2>2. Took(v, p, i + 1, k, Add(Add(got, 6), t))
    <3>1. Listed(Add(got, 6)) /\ Lies(p, i, push("u8", t_to_wire[t]))
      BY <1>2, <1>6, Adds
    <3>2. QED  BY <3>1, <1>3, <1>6, <2>1, TookT
  <2>3. Last(Add(Add(got, 6), t)) = t
    BY <1>6, Adds
  <2>4. i + 1 <= k => Read(v) = t
    BY <2>2, <2>3, <1>p, TookGot
  <2>5. PICK x : x = [ternary |-> Read(v)]
    OBVIOUS
  <2>6. i + 1 <= k => x = val
    BY <2>4, <2>5, <1>1, <1>2
  <2>7. Took(Made(v, 2, x), p, i + 1, k, Add(got, val))
    BY <1>6, <2>2, <2>6, <1>p, MadeTwo
  <2>8. ReadBody(r) = Made(v, 2, x)
    BY <1>6, <2>1, <2>5 DEF ReadBody
  <2>9. QED  BY <2>7, <2>8
<1>7. QED  BY <1>4, <1>5, <1>6 DEF Embodies

LEMMA Bodies ==
  ASSUME NEW p, NEW k, Payload(p, k), NEW val, IsVal(val)
  PROVE  /\ Body(val) \in Seq(Field) /\ Tag(val) \in 0 .. 11 /\ push_val(val) = push("u8", Tag(val)) \o Body(val)
         /\ Embodies(p, k, val)
<1>1. CASE val \in [bool : BOOLEAN]
  <2>1. /\ Body(val) \in Seq(Field) /\ Tag(val) = 1 /\ push_val(val) = push("u8", 1) \o Body(val)
        /\ Embodies(p, k, val)
    BY <1>1, Bools, Zenon
  <2>2. QED  BY <2>1
<1>2. CASE val \in [int : u64]
  <2>1. /\ Body(val) \in Seq(Field) /\ Tag(val) = 2 /\ push_val(val) = push("u8", 2) \o Body(val)
        /\ Embodies(p, k, val)
    BY <1>2, Ints, Zenon
  <2>2. QED  BY <2>1
<1>3. CASE val \in [float : Float]
  <2>1. /\ Body(val) \in Seq(Field) /\ Tag(val) = 3 /\ push_val(val) = push("u8", 3) \o Body(val)
        /\ Embodies(p, k, val)
    BY <1>3, Floats, Zenon
  <2>2. QED  BY <2>1
<1>4. CASE val \in [text : Text]
  <2>1. /\ Body(val) \in Seq(Field) /\ Tag(val) = 4 /\ push_val(val) = push("u8", 4) \o Body(val)
        /\ Embodies(p, k, val)
    BY <1>4, Texts, Zenon
  <2>2. QED  BY <2>1
<1>5. CASE val \in [ternary : T]
  <2>1. /\ Body(val) \in Seq(Field) /\ Tag(val) = 6 /\ push_val(val) = push("u8", 6) \o Body(val)
        /\ Embodies(p, k, val)
    BY <1>5, Ternaries, Zenon
  <2>2. QED  BY <2>1
<1>6. QED  BY <1>1, <1>2, <1>3, <1>4, <1>5 DEF IsVal

LEMMA TookVal ==
  ASSUME NEW p, NEW k, Payload(p, k), NEW i \in Nat, NEW got, Listed(got), NEW r, Took(r, p, i, k, got),
         NEW val, IsVal(val), Lies(p, i, push_val(val))
  PROVE  Took(read_val(r), p, i + Len(push_val(val)), k, Add(got, Heard(val)))
<1>p. k \in Int
  BY DEF Payload
<1>1. PICK n, F : n = Tag(val) /\ F = Body(val)
  OBVIOUS
<1>2. F \in Seq(Field) /\ n \in 0 .. 11 /\ push_val(val) = push("u8", n) \o F
  BY <1>1, Bodies
<1>3. PICK b : b = read(r, "u8")
  OBVIOUS
<1>4. /\ Len(push_val(val)) = 1 + Len(F) /\ Len(F) \in Nat
      /\ Lies(p, i + 1, F)
      /\ Took(b, p, i + 1, k, Add(got, n))
      /\ b.err = "None" => Read(b) = n
  <2>1. Lies(p, i, push("u8", n) \o F)
    BY <1>2
  <2>2. /\ Len(push("u8", n) \o F) = 1 + Len(F) /\ Len(F) \in Nat
        /\ Lies(p, i + 1, F)
        /\ Took(read(r, "u8"), p, i + 1, k, Add(got, n))
        /\ read(r, "u8").err = "None" => Read(read(r, "u8")) = n
    BY <1>2, <2>1, TookTag
  <2>3. QED  BY <1>2, <1>3, <2>2
<1>j. PICK j : j = i + 1 + Len(F)
  OBVIOUS
<1>5. j = (i + 1) + Len(F) /\ j = i + Len(push_val(val)) /\ j \in Nat /\ i + 1 <= j
  BY <1>4, <1>j
<1>6. CASE b.err # "None"
  <2>1. read_val(r) = b
    BY <1>3, <1>6 DEF read_val
  <2>2. Took(b, p, j, k, Add(got, Heard(val)))
    BY <1>4, <1>5, <1>6, <1>p, TookLate
  <2>3. QED  BY <1>5, <2>1, <2>2
<1>7. CASE b.err = "None"
  <2>1. read_val(r) = ReadBody(b)
    BY <1>3, <1>7 DEF read_val, ReadBody
  <2>2. Took(ReadBody(b), p, (i + 1) + Len(Body(val)), k, Add(got, Heard(val)))
    <3>1. Embodies(p, k, val)
      BY Bodies
    <3>2. PICK q : q = i + 1
      OBVIOUS
    <3>3. /\ Took(b, p, q, k, Add(got, Tag(val))) /\ Lies(p, q, Body(val)) /\ q \in Nat
          /\ Read(b) = Tag(val)
      BY <1>1, <1>4, <1>7, <3>2
    <3>4. Took(ReadBody(b), p, q + Len(Body(val)), k, Add(got, Heard(val)))
      BY <1>7, <3>1, <3>3 DEF Embodies
    <3>5. QED  BY <3>2, <3>4
  <2>3. QED  BY <1>1, <1>5, <2>1, <2>2
<1>8. QED  BY <1>6, <1>7

LEMMA Values ==
  ASSUME NEW val, IsVal(val)
  PROVE  push_val(val) \in Seq(Field) /\ Len(push_val(val)) \in Nat
<1>1. PICK p, k : p = <<>> /\ k = 0
  OBVIOUS
<1>2. Payload(p, k)
  BY <1>1, EmptySeq DEF Payload
<1>3. PICK n, F : n = Tag(val) /\ F = Body(val)
  OBVIOUS
<1>4. F \in Seq(Field) /\ n \in 0 .. 11 /\ push_val(val) = push("u8", n) \o F
  BY <1>2, <1>3, Bodies
<1>5. push("u8", n) \in Seq(Field)
  <2>1. n \in Nat
    BY <1>4
  <2>2. QED  BY <2>1, Words DEF Number
<1>6. push("u8", n) \o F \in Seq(Field)
  BY <1>4, <1>5, ConcatProperties
<1>7. QED  BY <1>4, <1>6, LenProperties

\* A pair of the last two things read.
LEMMA TookPair ==
  ASSUME NEW p, NEW i \in Nat, NEW k \in Int, NEW got, Listed(got), NEW x, NEW y,
         NEW r, Took(r, p, i, k, Add(Add(got, x), y))
  PROVE  Took(Pair(r), p, i, k, Add(got, <<x, y>>))
<1>1. PICK g, z, d : g = Add(Add(got, x), y) /\ z = SubSeq(r.got, Len(r.got) - 1, Len(r.got)) /\ d = <<x, y>>
  OBVIOUS
<1>2. SubSeq(g, Len(g) - 1, Len(g)) = <<x, y>>
  BY <1>1, TwoBack DEF Add
<1>3. i <= k => z = d
  <2>1. i <= k => r.got = g
    BY <1>1, TookGot
  <2>2. QED  BY <1>1, <1>2, <2>1
<1>4. Took(Made(r, 2, z), p, i, k, Add(got, d))
  BY <1>3, MadeTwo
<1>5. Pair(r) = Made(r, 2, z)
  BY <1>1 DEF Pair
<1>6. QED  BY <1>1, <1>4, <1>5

\* One written after another.
Cat(F, G) == F \o G

LEMMA CatApart ==
  ASSUME NEW F \in Seq(Field), NEW G \in Seq(Field)
  PROVE  /\ Cat(F, G) \in Seq(Field) /\ Len(Cat(F, G)) = Len(F) + Len(G)
         /\ Len(F) \in Nat /\ Len(G) \in Nat
         /\ \A p : \A i \in Nat : Len(p) \in Nat /\ Lies(p, i, Cat(F, G))
              => Lies(p, i, F) /\ Lies(p, i + Len(F), G)
<1>1. F \o G \in Seq(Field) /\ Len(F \o G) = Len(F) + Len(G) /\ Len(F) \in Nat /\ Len(G) \in Nat
  BY ConcatProperties, LenProperties
<1>2. ASSUME NEW p, NEW i \in Nat, Len(p) \in Nat, Lies(p, i, F \o G)
      PROVE  Lies(p, i, F) /\ Lies(p, i + Len(F), G)
  BY <1>2, LiesApart
<1>3. QED  BY <1>1, <1>2 DEF Cat

LEMMA TookAttr ==
  ASSUME NEW p, NEW k, Payload(p, k), NEW i \in Nat, NEW got, Listed(got), NEW r, Took(r, p, i, k, got),
         NEW key \in Nat, NEW val, IsVal(val), Lies(p, i, push_attr(key, val))
  PROVE  /\ Took(read_attr(r), p, i + Len(push_attr(key, val)), k, Add(got, <<key, Heard(val)>>))
<1>p. Len(p) \in Nat /\ k \in Int
  BY DEF Payload
<1>1. push("u16", 1) \in Seq(Field) /\ Len(push("u16", 1)) = 1 /\ 1 < Size["u16"]
  <2>1. 1 < Size["u16"]
    <3>1. Size["u16"] \in Nat /\ Size["u16"] > 1
      BY WireAssumption
    <3>2. QED  BY <3>1
  <2>2. QED  BY <2>1, Words DEF Number
<1>2. push_raw("utf8", key) \in Seq(Field) /\ Len(push_raw("utf8", key)) = 1 /\ key \in (Nat \cup Text) \cup Float
  <2>1. "utf8" \in Width /\ key \in (Nat \cup Text) \cup Float
    BY DEF Width
  <2>2. QED  BY <2>1, Raw
<1>3. PICK A, B, C : A = push("u16", 1) /\ B = push_raw("utf8", key) /\ C = push_val(val)
  OBVIOUS
<1>4. C \in Seq(Field) /\ Len(C) \in Nat /\ A \in Seq(Field) /\ B \in Seq(Field) /\ Len(A) = 1 /\ Len(B) = 1
  BY <1>1, <1>2, <1>3, Values
<1>5. push_attr(key, val) = Cat(Cat(A, B), C)
  BY <1>3 DEF push_attr, Cat
<1>6. Cat(A, B) \in Seq(Field) /\ Len(Cat(A, B)) = 2
  <2>1. Cat(A, B) \in Seq(Field) /\ Len(Cat(A, B)) = Len(A) + Len(B)
    BY <1>4, CatApart
  <2>2. QED  BY <2>1, <1>4
<1>7. Lies(p, i, Cat(A, B)) /\ Lies(p, i + 2, C) /\ Len(push_attr(key, val)) = 2 + Len(C)
  BY <1>4, <1>5, <1>6, <1>p, CatApart
<1>a. Lies(p, i, A) /\ Lies(p, i + 1, B)
  BY <1>4, <1>7, <1>p, CatApart
<1>8. PICK s, v : s = read_str(r) /\ v = read_val(s)
  OBVIOUS
<1>9. Took(s, p, i + 2, k, Add(got, key))
  BY <1>1, <1>2, <1>3, <1>a, <1>8, TookLong
<1>j. PICK q, j : q = i + 2 /\ j = q + Len(C)
  OBVIOUS
<1>10. q \in Nat /\ j \in Nat /\ j = i + Len(push_attr(key, val))
  BY <1>j, <1>4, <1>7
<1>11. Took(v, p, j, k, Add(Add(got, key), Heard(val)))
  <2>1. Listed(Add(got, key)) /\ Took(s, p, q, k, Add(got, key)) /\ Lies(p, q, push_val(val))
    BY <1>3, <1>7, <1>9, <1>j, Adds
  <2>2. Took(read_val(s), p, q + Len(push_val(val)), k, Add(Add(got, key), Heard(val)))
    BY <2>1, <1>10, TookVal
  <2>3. QED  BY <2>2, <1>3, <1>8, <1>j
<1>12. Took(Pair(v), p, j, k, Add(got, <<key, Heard(val)>>))
  BY <1>10, <1>11, <1>p, TookPair
<1>13. QED  BY <1>8, <1>10, <1>12 DEF read_attr

LEMMA Attrs ==
  ASSUME NEW key \in Nat, NEW val, IsVal(val)
  PROVE  push_attr(key, val) \in Seq(Field)
<1>1. push("u16", 1) \in Seq(Field)
  BY Words DEF Number
<1>2. push_raw("utf8", key) \in Seq(Field)
  <2>1. "utf8" \in Width /\ key \in (Nat \cup Text) \cup Float
    BY DEF Width
  <2>2. QED  BY <2>1, Raw
<1>3. push_val(val) \in Seq(Field)
  BY Values
<1>4. QED  BY <1>1, <1>2, <1>3, ConcatProperties DEF push_attr

-----------------------------------------------------------------------------
(* Several values in a row, and the order of the keys of a map *)

\* Fields read one after another.
Chain(c, r, ws, n) ==
  c[0] = r /\ read_all(r, ws) = c[n] /\ \A j \in 1 .. n : c[j] = read(c[j - 1], ws[j])

LEMMA ReadOn ==
  ASSUME NEW r, NEW ws, NEW n \in Nat, Len(ws) = n
  PROVE  \E c : Chain(c, r, ws, n)
<1>1. PICK a : Run(a, "read", r, ws, n)
  BY RunExists
<1>2. a = [j \in 0 .. n |-> IF j = 0 THEN r ELSE read(a[j - 1], ws[j])]
  BY <1>1 DEF Run, Step
<1> DEFINE c == CHOOSE x : x = [j \in 0 .. n |-> IF j = 0 THEN r ELSE read(x[j - 1], ws[j])]
<1>3. c = [j \in 0 .. n |-> IF j = 0 THEN r ELSE read(c[j - 1], ws[j])]
  BY <1>2
<1>4. read_all(r, ws) = c[n]
  BY DEF read_all
<1> HIDE DEF c
<1>5. c[0] = r
  BY <1>3
<1>6. ASSUME NEW j \in 1 .. n PROVE c[j] = read(c[j - 1], ws[j])
  <2>1. j \in 0 .. n /\ j # 0
    OBVIOUS
  <2>2. QED  BY <1>3, <2>1
<1>7. QED  BY <1>4, <1>5, <1>6 DEF Chain

LEMMA ReadOnTwo ==
  ASSUME NEW r, NEW a, NEW b
  PROVE  read_all(r, <<a, b>>) = read(read(r, a), b)
<1>1. PICK ws : ws = <<a, b>>
  OBVIOUS
<1>2. Len(ws) = 2 /\ ws[1] = a /\ ws[2] = b
  BY <1>1
<1>3. PICK c : c[0] = r /\ read_all(r, ws) = c[2] /\ \A j \in 1 .. 2 : c[j] = read(c[j - 1], ws[j])
  <2>1. PICK c : Chain(c, r, ws, 2)
    BY <1>2, ReadOn
  <2>2. QED  BY <2>1 DEF Chain
<1>4. c[1] = read(c[0], ws[1]) /\ c[2] = read(c[1], ws[2])
  <2>1. 1 \in 1 .. 2 /\ 2 \in 1 .. 2 /\ 1 - 1 = 0 /\ 2 - 1 = 1
    OBVIOUS
  <2>2. c[1] = read(c[1 - 1], ws[1]) /\ c[2] = read(c[2 - 1], ws[2])
    BY <1>3, <2>1
  <2>3. QED  BY <2>1, <2>2
<1>5. QED  BY <1>1, <1>2, <1>3, <1>4

LEMMA ReadOnThree ==
  ASSUME NEW r, NEW a, NEW b, NEW d
  PROVE  read_all(r, <<a, b, d>>) = read(read(read(r, a), b), d)
<1>1. PICK ws : ws = <<a, b, d>>
  OBVIOUS
<1>2. Len(ws) = 3 /\ ws[1] = a /\ ws[2] = b /\ ws[3] = d
  BY <1>1
<1>3. PICK c : c[0] = r /\ read_all(r, ws) = c[3] /\ \A j \in 1 .. 3 : c[j] = read(c[j - 1], ws[j])
  <2>1. PICK c : Chain(c, r, ws, 3)
    BY <1>2, ReadOn
  <2>2. QED  BY <2>1 DEF Chain
<1>4. c[1] = read(c[0], ws[1]) /\ c[2] = read(c[1], ws[2]) /\ c[3] = read(c[2], ws[3])
  <2>1. 1 \in 1 .. 3 /\ 2 \in 1 .. 3 /\ 3 \in 1 .. 3 /\ 1 - 1 = 0 /\ 2 - 1 = 1 /\ 3 - 1 = 2
    OBVIOUS
  <2>2. c[1] = read(c[1 - 1], ws[1]) /\ c[2] = read(c[2 - 1], ws[2]) /\ c[3] = read(c[3 - 1], ws[3])
    BY <1>3, <2>1
  <2>3. QED  BY <2>1, <2>2
<1>5. QED  BY <1>1, <1>2, <1>3, <1>4

LEMMA ReadOnFour ==
  ASSUME NEW r, NEW a, NEW b, NEW d, NEW e
  PROVE  read_all(r, <<a, b, d, e>>) = read(read(read(read(r, a), b), d), e)
<1>1. PICK ws : ws = <<a, b, d, e>>
  OBVIOUS
<1>2. Len(ws) = 4 /\ ws[1] = a /\ ws[2] = b /\ ws[3] = d /\ ws[4] = e
  BY <1>1
<1>3. PICK c : c[0] = r /\ read_all(r, ws) = c[4] /\ \A j \in 1 .. 4 : c[j] = read(c[j - 1], ws[j])
  <2>1. PICK c : Chain(c, r, ws, 4)
    BY <1>2, ReadOn
  <2>2. QED  BY <2>1 DEF Chain
<1>4. c[1] = read(c[0], ws[1]) /\ c[2] = read(c[1], ws[2]) /\ c[3] = read(c[2], ws[3]) /\ c[4] = read(c[3], ws[4])
  <2>1. /\ 1 \in 1 .. 4 /\ 2 \in 1 .. 4 /\ 3 \in 1 .. 4 /\ 4 \in 1 .. 4
        /\ 1 - 1 = 0 /\ 2 - 1 = 1 /\ 3 - 1 = 2 /\ 4 - 1 = 3
    OBVIOUS
  <2>2. /\ c[1] = read(c[1 - 1], ws[1]) /\ c[2] = read(c[2 - 1], ws[2])
        /\ c[3] = read(c[3 - 1], ws[3]) /\ c[4] = read(c[4 - 1], ws[4])
    BY <1>3, <2>1
  <2>3. QED  BY <2>1, <2>2
<1>5. QED  BY <1>1, <1>2, <1>3, <1>4

LEMMA ReadOnFive ==
  ASSUME NEW r, NEW a, NEW b, NEW d, NEW e, NEW f
  PROVE  read_all(r, <<a, b, d, e, f>>) = read(read(read(read(read(r, a), b), d), e), f)
<1>1. PICK ws : ws = <<a, b, d, e, f>>
  OBVIOUS
<1>2. Len(ws) = 5 /\ ws[1] = a /\ ws[2] = b /\ ws[3] = d /\ ws[4] = e /\ ws[5] = f
  BY <1>1
<1>3. PICK c : c[0] = r /\ read_all(r, ws) = c[5] /\ \A j \in 1 .. 5 : c[j] = read(c[j - 1], ws[j])
  <2>1. PICK c : Chain(c, r, ws, 5)
    BY <1>2, ReadOn
  <2>2. QED  BY <2>1 DEF Chain
<1>4. /\ c[1] = read(c[0], ws[1]) /\ c[2] = read(c[1], ws[2]) /\ c[3] = read(c[2], ws[3])
      /\ c[4] = read(c[3], ws[4]) /\ c[5] = read(c[4], ws[5])
  <2>1. /\ 1 \in 1 .. 5 /\ 2 \in 1 .. 5 /\ 3 \in 1 .. 5 /\ 4 \in 1 .. 5 /\ 5 \in 1 .. 5
        /\ 1 - 1 = 0 /\ 2 - 1 = 1 /\ 3 - 1 = 2 /\ 4 - 1 = 3 /\ 5 - 1 = 4
    OBVIOUS
  <2>2. /\ c[1] = read(c[1 - 1], ws[1]) /\ c[2] = read(c[2 - 1], ws[2])
        /\ c[3] = read(c[3 - 1], ws[3]) /\ c[4] = read(c[4 - 1], ws[4]) /\ c[5] = read(c[5 - 1], ws[5])
    BY <1>3, <2>1
  <2>3. QED  BY <2>1, <2>2
<1>5. QED  BY <1>1, <1>2, <1>3, <1>4

\* An entry of a frontier.
LEMMA TookEntry ==
  ASSUME NEW p, NEW k, Payload(p, k), NEW i \in Nat, NEW got, Listed(got), NEW r, Took(r, p, i, k, got),
         NEW m \in Nat, NEW n \in Nat, n < Size["u64"], Lies(p, i, push_entry(m, n))
  PROVE  /\ Took(read_entry(r), p, i + Len(push_entry(m, n)), k, Add(got, <<m % Size["u64"], n>>))
<1>p. Len(p) \in Nat /\ k \in Int
  BY DEF Payload
<1>1. PICK A, B, a : A = push("u64", m) /\ B = push("u64", n) /\ a = m % Size["u64"]
  OBVIOUS
<1>2. A \in Seq(Field) /\ Len(A) = 1 /\ B \in Seq(Field) /\ Len(B) = 1 /\ n % Size["u64"] = n
  BY <1>1, Words DEF Number
<1>3. push_entry(m, n) = Cat(A, B)
  BY <1>1 DEF push_entry, push_uid, Cat
<1>4. Lies(p, i, A) /\ Lies(p, i + 1, B) /\ Len(push_entry(m, n)) = 2
  <2>1. Len(Cat(A, B)) = Len(A) + Len(B)
    BY <1>2, CatApart
  <2>2. Lies(p, i, A) /\ Lies(p, i + Len(A), B)
    <3>1. Lies(p, i, Cat(A, B)) /\ A \in Seq(Field) /\ B \in Seq(Field) /\ Len(p) \in Nat
      BY <1>2, <1>3, <1>p
    <3>2. QED  BY <3>1, CatApart
  <2>3. QED  BY <2>1, <2>2, <1>2, <1>3
<1>5. PICK s, v : s = read(r, "u64") /\ v = read(s, "u64")
  OBVIOUS
<1>6. Took(s, p, i + 1, k, Add(got, a))
  BY <1>1, <1>4, <1>5, TookWord DEF Number
<1>7. Took(v, p, i + 2, k, Add(Add(got, a), n))
  <2>1. PICK q, g : q = i + 1 /\ g = Add(got, a)
    OBVIOUS
  <2>2. q \in Nat /\ Took(s, p, q, k, g) /\ Lies(p, q, push("u64", n))
    BY <2>1, <1>1, <1>4, <1>6
  <2>3. Took(v, p, q + 1, k, Add(g, n % Size["u64"]))
    BY <2>2, <1>5, TookWord DEF Number
  <2>4. q + 1 = i + 2
    BY <2>1
  <2>5. QED  BY <2>1, <2>3, <2>4, <1>2
<1>8. Took(Pair(v), p, i + 2, k, Add(got, <<a, n>>))
  BY <1>7, <1>p, TookPair
<1>9. read_entry(r) = Pair(v)
  BY <1>5, ReadOnTwo DEF read_entry
<1>10. QED  BY <1>1, <1>4, <1>8, <1>9

LEMMA Entries ==
  ASSUME NEW m \in Nat, NEW n \in Nat
  PROVE  push_entry(m, n) \in Seq(Field)
<1>1. push("u64", m) \in Seq(Field) /\ push("u64", n) \in Seq(Field)
  BY Words DEF Number
<1>2. QED  BY <1>1, ConcatProperties DEF push_entry, push_uid

\* The numbers of a set in their order, each of them once.
Ordered(s, S, n) == s \in [1 .. n -> S] /\ \A i, j \in 1 .. n : i < j => s[i] < s[j]

LEMMA OrderExists ==
  ASSUME NEW S \in SUBSET Nat, IsFiniteSet(S)
  PROVE  \E s : Ordered(s, S, Cardinality(S))
<1> DEFINE G == {m \in Nat : \A U \in SUBSET Nat : IsFiniteSet(U) /\ Cardinality(U) = m => \E s : Ordered(s, U, m)}
<1>1. 0 \in G
  <2>1. ASSUME NEW U \in SUBSET Nat, IsFiniteSet(U), Cardinality(U) = 0 PROVE \E s : Ordered(s, U, 0)
    <3>1. [x \in 1 .. 0 |-> 0] \in [1 .. 0 -> U]
      OBVIOUS
    <3>2. Ordered([x \in 1 .. 0 |-> 0], U, 0)
      BY <3>1 DEF Ordered
    <3>3. QED  BY <3>2
  <2>2. QED  BY <2>1
<1>2. ASSUME NEW m \in Nat, m \in G PROVE m + 1 \in G
  <2>1. ASSUME NEW U \in SUBSET Nat, IsFiniteSet(U), Cardinality(U) = m + 1
        PROVE  \E s : Ordered(s, U, m + 1)
    <3>1. U # {}
      BY <2>1, FS_EmptySet
    <3>2. PICK e \in U : \A x \in U : e <= x
      BY <3>1, LeastNat
    <3>3. PICK V : V = U \ {e}
      OBVIOUS
    <3>4. V \in SUBSET Nat /\ IsFiniteSet(V) /\ Cardinality(V) = m
      <4>1. IsFiniteSet(V) /\ Cardinality(V) = Cardinality(U) - 1
        BY <2>1, <3>2, <3>3, FS_RemoveElement
      <4>2. QED  BY <4>1, <2>1, <3>3
    <3>5. PICK t : Ordered(t, V, m)
      BY <1>2, <3>4
    <3> DEFINE s == [x \in 1 .. m + 1 |-> IF x = 1 THEN e ELSE t[x - 1]]
    <3>6. \A x \in 1 .. m : t[x] \in U /\ e < t[x]
      <4>1. ASSUME NEW x \in 1 .. m PROVE t[x] \in U /\ e < t[x]
        <5>1. t[x] \in V
          BY <3>5 DEF Ordered
        <5>2. t[x] \in U /\ t[x] # e /\ t[x] \in Nat /\ e \in Nat
          BY <5>1, <3>3
        <5>3. e <= t[x]
          BY <5>2, <3>2
        <5>4. QED  BY <5>2, <5>3
      <4>2. QED  BY <4>1
    <3>7. \A x, y \in 1 .. m : x < y => t[x] < t[y]
      BY <3>5 DEF Ordered
    <3>8. s \in [1 .. m + 1 -> U]
      BY <3>6
    <3>9. ASSUME NEW x \in 1 .. m + 1, NEW y \in 1 .. m + 1, x < y PROVE s[x] < s[y]
      <4>1. y # 1 /\ y - 1 \in 1 .. m /\ s[y] = t[y - 1]
        BY <3>9
      <4>2. CASE x = 1
        BY <4>1, <4>2, <3>6
      <4>3. CASE x # 1
        <5>1. x - 1 \in 1 .. m /\ x - 1 < y - 1 /\ s[x] = t[x - 1]
          BY <3>9, <4>3
        <5>2. QED  BY <5>1, <4>1, <3>7
      <4>4. QED  BY <4>2, <4>3
    <3>10. Ordered(s, U, m + 1)
      BY <3>8, <3>9 DEF Ordered
    <3>11. QED  BY <3>10
  <2>2. QED  BY <2>1
<1> HIDE DEF G
<1>3. Cardinality(S) \in Nat
  BY FS_CardinalityType
<1>4. Inductive(G, Cardinality(S))
  BY <1>1, <1>2 DEF Inductive
<1>5. Cardinality(S) \in G
  BY <1>3, <1>4, Upwards
<1>6. QED  BY <1>5 DEF G

\* Sorted enumerates a set, and comes to each of its numbers once.
Enumerates(s, S, n) ==
  /\ n \in Nat /\ \A i \in 1 .. n : s[i] \in S
  /\ \A x \in S : \E i \in 1 .. n : s[i] = x
  /\ \A i, j \in 1 .. n : s[i] = s[j] => i = j

LEMMA SortedEnumerates ==
  ASSUME NEW S \in SUBSET Nat, IsFiniteSet(S)
  PROVE  Enumerates(Sorted(S), S, Cardinality(S))
<1>1. PICK n : n = Cardinality(S)
  OBVIOUS
<1>2. n \in Nat
  BY <1>1, FS_CardinalityType
<1>3. PICK s : s = Sorted(S)
  OBVIOUS
<1>4. s \in [1 .. n -> S] /\ \A i, j \in 1 .. n : i < j => s[i] < s[j]
  <2>1. \E t : Ordered(t, S, n)
    BY <1>1, OrderExists
  <2>2. \E t \in [1 .. n -> S] : \A i, j \in 1 .. n : i < j => t[i] < t[j]
    BY <2>1 DEF Ordered
  <2>3. s = CHOOSE t \in [1 .. n -> S] : \A i, j \in 1 .. n : i < j => t[i] < t[j]
    BY <1>1, <1>3 DEF Sorted
  <2>4. QED  BY <2>2, <2>3, Zenon
<1>5. \A i \in 1 .. n : s[i] \in S
  BY <1>4
<1>6. ASSUME NEW i \in 1 .. n, NEW j \in 1 .. n, s[i] = s[j] PROVE i = j
  <2>1. s[i] \in Nat
    BY <1>5
  <2>2. ~(i < j) /\ ~(j < i)
    BY <2>1, <1>4, <1>6
  <2>3. QED  BY <2>2
<1>7. s \in Injection(1 .. n, S)
  BY <1>4, <1>6 DEF Injection, IsInjective
<1>8. s \in Surjection(1 .. n, S)
  <2>1. Cardinality(1 .. n) = n
    BY <1>2, FS_Interval
  <2>2. QED  BY <2>1, <1>1, <1>7, FS_Injection
<1>9. \A x \in S : \E i \in 1 .. n : s[i] = x
  BY <1>8 DEF Surjection
<1>10. QED  BY <1>1, <1>2, <1>3, <1>5, <1>6, <1>9 DEF Enumerates

-----------------------------------------------------------------------------
(* Maps read back *)

\* The keys in turn, each with its value.
Paired(xs, s, v, n) ==
  /\ DOMAIN xs = 1 .. n
  /\ \A i \in 1 .. n : xs[i][1] = s[i] /\ xs[i][2] = v[s[i]]

LEMMA MapOfAll ==
  ASSUME NEW s, NEW S, NEW n, Enumerates(s, S, n), NEW v, NEW xs, Paired(xs, s, v, n)
  PROVE  MapOf(xs) = [x \in S |-> v[x]]
<1>1. /\ n \in Nat /\ \A i \in 1 .. n : s[i] \in S
      /\ \A x \in S : \E i \in 1 .. n : s[i] = x
      /\ \A i, j \in 1 .. n : s[i] = s[j] => i = j
  BY DEF Enumerates
<1>2. DOMAIN xs = 1 .. n /\ \A i \in 1 .. n : xs[i][1] = s[i] /\ xs[i][2] = v[s[i]]
  BY DEF Paired
<1> DEFINE Of(x) == {i \in DOMAIN xs : xs[i][1] = x}
           D == {xs[i][1] : i \in DOMAIN xs}
<1>3. MapOf(xs) = [x \in D |-> xs[Max(Of(x))][2]]
  BY DEF MapOf
<1>4. D = S
  BY <1>1, <1>2
<1>5. ASSUME NEW x \in S PROVE xs[Max(Of(x))][2] = v[x]
  <2>1. PICK i \in 1 .. n : s[i] = x
    BY <1>1
  <2>2. Of(x) = {i}
    BY <1>1, <1>2, <2>1
  <2> HIDE DEF Of
  <2>3. Max(Of(x)) = i
    <3>1. i >= i
      BY <1>1
    <3>2. \A j \in {i} : j = i
      OBVIOUS
    <3>3. Max({i}) = i
      BY <3>1, <3>2 DEF Max
    <3>4. QED  BY <2>2, <3>3
  <2>4. QED  BY <1>2, <2>1, <2>3
<1> HIDE DEF D, Of
<1>6. [x \in D |-> xs[Max(Of(x))][2]] = [x \in S |-> v[x]]
  BY <1>4, <1>5
<1>7. QED  BY <1>3, <1>6

HeardAll(attrs) == [x \in DOMAIN attrs |-> Heard(attrs[x])]

\* The parts of a map of attributes.
AttrParts(attrs, n, E, xs) ==
  /\ n \in Nat /\ n < Size["u16"]
  /\ E \in Seq(Seq(Field)) /\ Len(E) = n /\ Listed(xs) /\ Len(xs) = n
  /\ write_attr_map(attrs) = push("u16", n) \o FlattenSeq(E)
  /\ MapOf(xs) = HeardAll(attrs)
  /\ \A j \in 1 .. n : \E key \in Nat : \E val :
       IsVal(val) /\ E[j] = push_attr(key, val) /\ xs[j] = <<key, Heard(val)>>

LEMMA AttrsApart ==
  ASSUME NEW attrs, IsAttrs(attrs)
  PROVE  \E n, E, xs : AttrParts(attrs, n, E, xs)
<1>1. /\ DOMAIN attrs \subseteq Nat /\ IsFiniteSet(DOMAIN attrs) /\ Cardinality(DOMAIN attrs) < Size["u16"]
      /\ \A x \in DOMAIN attrs : IsVal(attrs[x])
  BY DEF IsAttrs, HasKeys
<1>2. PICK S, n, s : S = DOMAIN attrs /\ n = Cardinality(S) /\ s = Sorted(S)
  OBVIOUS
<1>3. Enumerates(s, S, n)
  <2>1. S \in SUBSET Nat /\ IsFiniteSet(S)
    BY <1>1, <1>2
  <2>2. QED  BY <2>1, <1>2, SortedEnumerates
<1>4. n \in Nat /\ \A i \in 1 .. n : s[i] \in S /\ s[i] \in Nat /\ IsVal(attrs[s[i]])
  BY <1>1, <1>2, <1>3 DEF Enumerates
<1> DEFINE E == [i \in 1 .. n |-> push_attr(s[i], attrs[s[i]])]
           xs == [i \in 1 .. n |-> <<s[i], Heard(attrs[s[i]])>>]
<1>5. E \in Seq(Seq(Field)) /\ Len(E) = n /\ \A i \in 1 .. n : E[i] = push_attr(s[i], attrs[s[i]])
  <2>1. \A i \in 1 .. n : push_attr(s[i], attrs[s[i]]) \in Seq(Field)
    BY <1>4, Attrs
  <2>2. QED  BY <1>4, <2>1
<1>6. Listed(xs) /\ Len(xs) = n /\ DOMAIN xs = 1 .. n /\ \A i \in 1 .. n : xs[i] = <<s[i], Heard(attrs[s[i]])>>
  <2>1. PICK X : X = {xs[i] : i \in 1 .. n}
    OBVIOUS
  <2>2. xs \in [1 .. n -> X]
    BY <2>1
  <2>3. xs \in Seq(X) /\ Len(xs) = n
    BY <1>4, <2>2
  <2>4. QED  BY <2>3 DEF Listed
<1>7. write_attr_map(attrs) = push("u16", n) \o FlattenSeq(E)
  BY <1>2 DEF write_attr_map, push_map
<1>8. MapOf(xs) = HeardAll(attrs)
  <2>1. PICK v : v = HeardAll(attrs)
    OBVIOUS
  <2>2. \A x \in S : v[x] = Heard(attrs[x])
    BY <1>2, <2>1 DEF HeardAll
  <2>3. v = [x \in S |-> v[x]]
    BY <1>2, <2>1 DEF HeardAll
  <2>4. ASSUME NEW i \in 1 .. n PROVE xs[i][1] = s[i] /\ xs[i][2] = v[s[i]]
    <3>1. xs[i] = <<s[i], Heard(attrs[s[i]])>> /\ s[i] \in S
      BY <1>4, <1>6
    <3>2. QED  BY <3>1, <2>2
  <2> HIDE DEF xs
  <2>5. Paired(xs, s, v, n)
    BY <1>6, <2>4 DEF Paired
  <2>6. QED  BY <1>3, <2>1, <2>3, <2>5, MapOfAll
<1> HIDE DEF E, xs
<1>9. ASSUME NEW j \in 1 .. n
      PROVE  \E key \in Nat : \E val : IsVal(val) /\ E[j] = push_attr(key, val) /\ xs[j] = <<key, Heard(val)>>
  BY <1>4, <1>5, <1>6
<1>10. AttrParts(attrs, n, E, xs)
  BY <1>1, <1>2, <1>4, <1>5, <1>6, <1>7, <1>8, <1>9 DEF AttrParts
<1>11. QED  BY <1>10

LEMMA TookAttrs ==
  ASSUME NEW p, NEW k, Payload(p, k), NEW i \in Nat, NEW got, Listed(got), NEW r, Took(r, p, i, k, got),
         NEW attrs, IsAttrs(attrs), Lies(p, i, write_attr_map(attrs))
  PROVE  Took(parse_attr_map(r), p, i + Len(write_attr_map(attrs)), k, Add(got, HeardAll(attrs)))
<1>1. PICK n, E, xs : AttrParts(attrs, n, E, xs)
  BY AttrsApart
<1>2. /\ n \in Nat /\ n < Size["u16"]
      /\ E \in Seq(Seq(Field)) /\ Len(E) = n /\ Listed(xs) /\ Len(xs) = n
      /\ MapOf(xs) = HeardAll(attrs)
  BY <1>1 DEF AttrParts
<1>3. write_attr_map(attrs) = push("u16", Len(E)) \o FlattenSeq(E)
  BY <1>1 DEF AttrParts
<1>4. Reads("attr", p, k, E, xs)
  <2>1. ASSUME NEW j \in 1 .. Len(E), NEW s, NEW g, NEW h \in Nat,
               Listed(g), Took(s, p, h, k, g), Lies(p, h, E[j])
        PROVE  Took(Step("attr", s, E[j]), p, h + Len(E[j]), k, Add(g, xs[j]))
    <3>1. PICK key, val : key \in Nat /\ IsVal(val) /\ E[j] = push_attr(key, val) /\ xs[j] = <<key, Heard(val)>>
      BY <1>1, <1>2 DEF AttrParts
    <3>2. Took(read_attr(s), p, h + Len(push_attr(key, val)), k, Add(g, <<key, Heard(val)>>))
      BY <2>1, <3>1, TookAttr
    <3>3. Step("attr", s, E[j]) = read_attr(s)
      BY DEF Step
    <3>4. QED  BY <3>1, <3>2, <3>3
  <2>2. QED  BY <2>1 DEF Reads
<1>5. FlattenSeq(E) \in Seq(Field)
  <2>1. PICK f : Flat(E, n, f)
    BY <1>2, FlattenedUp
  <2>2. QED  BY <2>1, <1>2 DEF Flat
<1>6. Len(write_attr_map(attrs)) = 1 + Len(FlattenSeq(E))
  <2>1. push("u16", n) \in Seq(Field) /\ Len(push("u16", n)) = 1
    BY <1>2, Words DEF Number
  <2>2. PICK A, F : A = push("u16", n) /\ F = FlattenSeq(E)
    OBVIOUS
  <2>3. Len(Cat(A, F)) = Len(A) + Len(F)
    BY <1>5, <2>1, <2>2, CatApart
  <2>4. write_attr_map(attrs) = Cat(A, F)
    BY <1>2, <1>3, <2>2 DEF Cat
  <2>5. QED  BY <2>1, <2>2, <2>3, <2>4
<1>7. Took(MapReader("attr", r), p, i + (1 + Len(FlattenSeq(E))), k, Add(got, MapOf(xs)))
  <2>1. Lies(p, i, push("u16", Len(E)) \o FlattenSeq(E))
    BY <1>3
  <2>2. QED  BY <2>1, <1>2, <1>4, TookMap
<1>8. QED  BY <1>2, <1>6, <1>7 DEF MapReader

LEMMA AttrMaps ==
  ASSUME NEW attrs, IsAttrs(attrs)
  PROVE  write_attr_map(attrs) \in Seq(Field)
<1>1. PICK n, E, xs : AttrParts(attrs, n, E, xs)
  BY AttrsApart
<1>2. n \in Nat /\ E \in Seq(Seq(Field)) /\ Len(E) = n
  BY <1>1 DEF AttrParts
<1>3. write_attr_map(attrs) = push("u16", n) \o FlattenSeq(E)
  BY <1>1 DEF AttrParts
<1>4. FlattenSeq(E) \in Seq(Field)
  <2>1. PICK f : Flat(E, n, f)
    BY <1>2, FlattenedUp
  <2>2. QED  BY <2>1, <1>2 DEF Flat
<1>5. push("u16", n) \in Seq(Field)
  BY <1>2, Words DEF Number
<1>6. push("u16", n) \o FlattenSeq(E) \in Seq(Field)
  BY <1>4, <1>5, ConcatProperties
<1>7. QED  BY <1>3, <1>6

-----------------------------------------------------------------------------
(* Where a reader has come to in a payload *)

\* A reader that has come to the end of P, which lies at i, or to that of the payload.
Reached(r, p, i, P, k, got) ==
  /\ Payload(p, k) /\ i \in Nat /\ P \in Seq(Field) /\ Listed(got)
  /\ Took(r, p, i + Len(P), k, got)

\* What is written after P, and is read as x.
LEMMA Onwards ==
  ASSUME NEW p, NEW k, NEW i, NEW P, NEW got, NEW r, Reached(r, p, i, P, k, got),
         NEW F \in Seq(Field), NEW s, NEW x, Lies(p, i, Cat(P, F)),
         \A j \in Nat : Took(r, p, j, k, got) /\ Lies(p, j, F) => Took(s, p, j + Len(F), k, Add(got, x))
  PROVE  Reached(s, p, i, Cat(P, F), k, Add(got, x))
<1>1. Payload(p, k) /\ i \in Nat /\ P \in Seq(Field) /\ Listed(got) /\ Len(p) \in Nat
  BY DEF Reached, Payload
<1>2. /\ Cat(P, F) \in Seq(Field) /\ Len(Cat(P, F)) = Len(P) + Len(F) /\ Len(P) \in Nat /\ Len(F) \in Nat
      /\ Lies(p, i + Len(P), F)
  BY <1>1, CatApart
<1>3. PICK j : j = i + Len(P)
  OBVIOUS
<1>4. j \in Nat /\ Took(r, p, j, k, got) /\ Lies(p, j, F)
  BY <1>1, <1>2, <1>3 DEF Reached
<1>5. Took(s, p, j + Len(F), k, Add(got, x))
  BY <1>4
<1>6. j + Len(F) = i + Len(Cat(P, F))
  BY <1>1, <1>2, <1>3
<1>7. Listed(Add(got, x))
  BY <1>1, Adds
<1>8. QED  BY <1>1, <1>2, <1>5, <1>6, <1>7 DEF Reached

LEMMA Prefix ==
  ASSUME NEW p, Len(p) \in Nat, NEW i \in Nat, NEW P \in Seq(Field), NEW F \in Seq(Field), Lies(p, i, Cat(P, F))
  PROVE  Lies(p, i, P)
BY CatApart

LEMMA Began ==
  ASSUME NEW p, NEW k, Payload(p, k)
  PROVE  /\ Reached(Reader(SubSeq(p, 1, k)), p, 0, <<>>, k, <<>>)
         /\ \A F \in Seq(Field) : Cat(<<>>, F) = F
         /\ Lies(p, 0, p)
<1>1. p \in Seq(Field) /\ k \in 0 .. Len(p) /\ Len(p) \in Nat
  BY DEF Payload
<1>2. Took(Reader(SubSeq(p, 1, k)), p, 0, k, <<>>)
  BY <1>1 DEF Took, Reader
<1>3. <<>> \in Seq(Field) /\ Len(<<>>) = 0
  BY EmptySeq
<1>4. Reached(Reader(SubSeq(p, 1, k)), p, 0, <<>>, k, <<>>)
  <2>1. Listed(<<>>)
    BY ListedTuples
  <2>2. 0 + Len(<<>>) = 0
    BY <1>3
  <2>3. QED  BY <1>2, <1>3, <2>1, <2>2 DEF Reached
<1>5. \A F \in Seq(Field) : Cat(<<>>, F) = F
  BY ConcatEmptySeq DEF Cat
<1>6. Lies(p, 0, p)
  BY <1>1 DEF Lies
<1>7. QED  BY <1>4, <1>5, <1>6

LEMMA NextWord ==
  ASSUME NEW p, NEW k, NEW i, NEW P, NEW got, NEW r, Reached(r, p, i, P, k, got),
         NEW w \in Number, NEW n \in Nat, Lies(p, i, Cat(P, push(w, n)))
  PROVE  Reached(read(r, w), p, i, Cat(P, push(w, n)), k, Add(got, n % Size[w]))
<1>1. PICK F, s, x : F = push(w, n) /\ s = read(r, w) /\ x = n % Size[w]
  OBVIOUS
<1>2. F \in Seq(Field) /\ Len(F) = 1
  BY <1>1, Words
<1>3. ASSUME NEW j \in Nat, Took(r, p, j, k, got), Lies(p, j, F)
      PROVE  Took(s, p, j + Len(F), k, Add(got, x))
  <2>1. Payload(p, k) /\ Lies(p, j, push(w, n))
    BY <1>1, <1>3 DEF Reached
  <2>2. Took(s, p, j + 1, k, Add(got, x))
    BY <1>1, <1>3, <2>1, TookWord
  <2>3. QED  BY <2>2, <1>2
<1>4. Lies(p, i, Cat(P, F))
  BY <1>1
<1>5. Reached(s, p, i, Cat(P, F), k, Add(got, x))
  BY <1>2, <1>3, <1>4, Onwards
<1>6. QED  BY <1>1, <1>5

LEMMA NextStr ==
  ASSUME NEW p, NEW k, NEW i, NEW P, NEW got, NEW r, Reached(r, p, i, P, k, got),
         NEW t \in Text, Lies(p, i, Cat(P, push_str(t)))
  PROVE  Reached(read_str(r), p, i, Cat(P, push_str(t)), k, Add(got, t))
<1>1. PICK F, s : F = push_str(t) /\ s = read_str(r)
  OBVIOUS
<1>2. F \in Seq(Field)
  BY <1>1, Strings
<1>3. ASSUME NEW j \in Nat, Took(r, p, j, k, got), Lies(p, j, F)
      PROVE  Took(s, p, j + Len(F), k, Add(got, t))
  <2>1. Payload(p, k) /\ Listed(got) /\ Lies(p, j, push_str(t))
    BY <1>1, <1>3 DEF Reached
  <2>2. QED  BY <1>1, <1>3, <2>1, TookStr
<1>4. Lies(p, i, Cat(P, F))
  BY <1>1
<1>5. Reached(s, p, i, Cat(P, F), k, Add(got, t))
  BY <1>2, <1>3, <1>4, Onwards
<1>6. QED  BY <1>1, <1>5

LEMMA NextCode ==
  ASSUME NEW p, NEW k, NEW i, NEW P, NEW got, NEW r, Reached(r, p, i, P, k, got),
         NEW n \in 0 .. 11, NEW table, n < Len(table), NEW error, Lies(p, i, Cat(P, push("u8", n)))
  PROVE  Reached(read_code(r, table, error), p, i, Cat(P, push("u8", n)), k, Add(got, table[n + 1]))
<1>1. PICK F, s, x : F = push("u8", n) /\ s = read_code(r, table, error) /\ x = table[n + 1]
  OBVIOUS
<1>2. n \in Nat /\ n < Size["u8"] /\ F \in Seq(Field) /\ Len(F) = 1
  <2>1. Size["u8"] \in Nat /\ Size["u8"] > 11
    BY WireAssumption
  <2>2. n \in Nat /\ n < Size["u8"]
    BY <2>1
  <2>3. F \in Seq(Field) /\ Len(F) = 1
    BY <1>1, <2>2, Words DEF Number
  <2>4. QED  BY <2>2, <2>3
<1>3. ASSUME NEW j \in Nat, Took(r, p, j, k, got), Lies(p, j, F)
      PROVE  Took(s, p, j + Len(F), k, Add(got, x))
  <2>1. Payload(p, k) /\ Listed(got) /\ Lies(p, j, push("u8", n))
    BY <1>1, <1>3 DEF Reached
  <2>2. Took(s, p, j + 1, k, Add(got, x))
    BY <1>1, <1>2, <1>3, <2>1, TookCode
  <2>3. QED  BY <2>2, <1>2
<1>4. Lies(p, i, Cat(P, F))
  BY <1>1
<1>5. Reached(s, p, i, Cat(P, F), k, Add(got, x))
  BY <1>2, <1>3, <1>4, Onwards
<1>6. QED  BY <1>1, <1>5

LEMMA NextT ==
  ASSUME NEW p, NEW k, NEW i, NEW P, NEW got, NEW r, Reached(r, p, i, P, k, got),
         NEW t \in T, Lies(p, i, Cat(P, push("u8", t_to_wire[t])))
  PROVE  Reached(wire_to_t(r), p, i, Cat(P, push("u8", t_to_wire[t])), k, Add(got, t))
<1>1. PICK F, s : F = push("u8", t_to_wire[t]) /\ s = wire_to_t(r)
  OBVIOUS
<1>2. F \in Seq(Field) /\ Len(F) = 1
  <2>1. t_to_wire[t] \in Nat
    BY SignedWords
  <2>2. QED  BY <1>1, <2>1, Words DEF Number
<1>3. ASSUME NEW j \in Nat, Took(r, p, j, k, got), Lies(p, j, F)
      PROVE  Took(s, p, j + Len(F), k, Add(got, t))
  <2>1. Payload(p, k) /\ Listed(got) /\ Lies(p, j, push("u8", t_to_wire[t]))
    BY <1>1, <1>3 DEF Reached
  <2>2. Took(s, p, j + 1, k, Add(got, t))
    BY <1>1, <1>3, <2>1, TookT
  <2>3. QED  BY <2>2, <1>2
<1>4. Lies(p, i, Cat(P, F))
  BY <1>1
<1>5. Reached(s, p, i, Cat(P, F), k, Add(got, t))
  BY <1>2, <1>3, <1>4, Onwards
<1>6. QED  BY <1>1, <1>5

LEMMA NextUids ==
  ASSUME NEW p, NEW k, NEW i, NEW P, NEW got, NEW r, Reached(r, p, i, P, k, got),
         NEW ids, IsList(ids), Lies(p, i, Cat(P, push_uids(ids)))
  PROVE  Reached(read_uids(r), p, i, Cat(P, push_uids(ids)), k, Add(got, Narrowed(ids)))
<1>1. PICK F, s, x : F = push_uids(ids) /\ s = read_uids(r) /\ x = Narrowed(ids)
  OBVIOUS
<1>2. F \in Seq(Field)
  BY <1>1, ListsOfIds DEF IsList
<1>3. ASSUME NEW j \in Nat, Took(r, p, j, k, got), Lies(p, j, F)
      PROVE  Took(s, p, j + Len(F), k, Add(got, x))
  <2>1. Payload(p, k) /\ Listed(got) /\ Lies(p, j, push_uids(ids))
    BY <1>1, <1>3 DEF Reached
  <2>2. QED  BY <1>1, <1>3, <2>1, TookUids
<1>4. Lies(p, i, Cat(P, F))
  BY <1>1
<1>5. Reached(s, p, i, Cat(P, F), k, Add(got, x))
  BY <1>2, <1>3, <1>4, Onwards
<1>6. QED  BY <1>1, <1>5

LEMMA NextAttrs ==
  ASSUME NEW p, NEW k, NEW i, NEW P, NEW got, NEW r, Reached(r, p, i, P, k, got),
         NEW attrs, IsAttrs(attrs), Lies(p, i, Cat(P, write_attr_map(attrs)))
  PROVE  Reached(parse_attr_map(r), p, i, Cat(P, write_attr_map(attrs)), k, Add(got, HeardAll(attrs)))
<1>1. PICK F, s, x : F = write_attr_map(attrs) /\ s = parse_attr_map(r) /\ x = HeardAll(attrs)
  OBVIOUS
<1>2. F \in Seq(Field)
  BY <1>1, AttrMaps
<1>3. ASSUME NEW j \in Nat, Took(r, p, j, k, got), Lies(p, j, F)
      PROVE  Took(s, p, j + Len(F), k, Add(got, x))
  <2>1. Payload(p, k) /\ Listed(got) /\ Lies(p, j, write_attr_map(attrs))
    BY <1>1, <1>3 DEF Reached
  <2>2. QED  BY <1>1, <1>3, <2>1, TookAttrs
<1>4. Lies(p, i, Cat(P, F))
  BY <1>1
<1>5. Reached(s, p, i, Cat(P, F), k, Add(got, x))
  BY <1>2, <1>3, <1>4, Onwards
<1>6. QED  BY <1>1, <1>5

\* What is expected, and is so of what was read.
LEMMA NextExpect ==
  ASSUME NEW p, NEW k, NEW i, NEW P, NEW got, NEW r, Reached(r, p, i, P, k, got),
         NEW ok, r.got = got => ok, NEW error
  PROVE  Reached(expect(r, ok, error), p, i, P, k, got)
<1>1. PICK j : j = i + Len(P)
  OBVIOUS
<1>2. /\ Payload(p, k) /\ i \in Nat /\ P \in Seq(Field) /\ Listed(got)
      /\ Took(r, p, j, k, got) /\ k \in Int
  BY <1>1 DEF Reached, Payload
<1>3. j \in Nat
  BY <1>1, <1>2, LenProperties
<1>4. (j <= k => r.got = got) /\ (~(j <= k) => r.err = "PayloadTruncated")
  BY <1>2, <1>3, TookGot
<1>5. expect(r, ok, error) = r
  BY <1>2, <1>3, <1>4 DEF expect
<1>6. QED  BY <1>5

-----------------------------------------------------------------------------
(* What a payload that is cut to k fields is answered with. *)

Verdict(p, k, c) == IF k = Len(p) THEN [err |-> "None", op |-> c] ELSE [err |-> "PayloadTruncated"]

LEMMA Outcome ==
  ASSUME NEW p, NEW k, NEW got, NEW r, Reached(r, p, 0, p, k, got),
         NEW x, NEW c, r.got = got => x = c
  PROVE  Parsed(r, x) = Verdict(p, k, c)
<1>1. /\ k \in 0 .. Len(p) /\ Len(p) \in Nat /\ k \in Int
      /\ Took(r, p, Len(p), k, got)
  <2>1. Payload(p, k) /\ Took(r, p, 0 + Len(p), k, got)
    BY DEF Reached
  <2>2. Len(p) \in Nat /\ 0 + Len(p) = Len(p)
    BY <2>1 DEF Payload
  <2>3. QED  BY <2>1, <2>2 DEF Payload
<1>2. /\ Len(p) <= k => r.err = "None" /\ r.got = got
      /\ ~(Len(p) <= k) => r.err = "PayloadTruncated"
  BY <1>1, TookGot
<1>3. CASE k = Len(p)
  <2>1. r.err = "None" /\ x = c
    BY <1>1, <1>2, <1>3
  <2>2. QED  BY <2>1, <1>3 DEF Parsed, Verdict
<1>4. CASE k # Len(p)
  <2>1. r.err = "PayloadTruncated"
    BY <1>1, <1>2, <1>4
  <2>2. QED  BY <2>1, <1>4 DEF Parsed, Verdict
<1>5. QED  BY <1>3, <1>4

\* The things that were read, by their number.
LEMMA Grown ==
  ASSUME NEW g, NEW n \in Nat, Listed(g), Len(g) = n, NEW x
  PROVE  /\ Listed(Add(g, x)) /\ Len(Add(g, x)) = n + 1 /\ Add(g, x)[n + 1] = x
         /\ \A j \in 1 .. n : Add(g, x)[j] = g[j]
BY ListedAppend DEF Add

LEMMA GotOne ==
  ASSUME NEW a, NEW g, g = Add(<<>>, a)
  PROVE  Listed(g) /\ Len(g) = 1 /\ g[1] = a
BY ListedTuples, Grown

LEMMA GotTwo ==
  ASSUME NEW a, NEW b, NEW g, g = Add(Add(<<>>, a), b)
  PROVE  Listed(g) /\ Len(g) = 2 /\ g[1] = a /\ g[2] = b
<1>1. PICK h : h = Add(<<>>, a)
  OBVIOUS
<1>2. Listed(h) /\ Len(h) = 1 /\ h[1] = a
  BY <1>1, GotOne
<1>3. PICK n : n = 1
  OBVIOUS
<1>4. /\ Listed(Add(h, b)) /\ Len(Add(h, b)) = n + 1 /\ Add(h, b)[n + 1] = b
      /\ \A j \in 1 .. n : Add(h, b)[j] = h[j]
  <2>1. n \in Nat /\ Listed(h) /\ Len(h) = n
    BY <1>2, <1>3
  <2>2. QED  BY <2>1, Grown
<1>5. QED  BY <1>1, <1>2, <1>3, <1>4

LEMMA GotThree ==
  ASSUME NEW a, NEW b, NEW d, NEW g, g = Add(Add(Add(<<>>, a), b), d)
  PROVE  Listed(g) /\ Len(g) = 3 /\ g[1] = a /\ g[2] = b /\ g[3] = d
<1>1. PICK h : h = Add(Add(<<>>, a), b)
  OBVIOUS
<1>2. Listed(h) /\ Len(h) = 2 /\ h[1] = a /\ h[2] = b
  BY <1>1, GotTwo
<1>3. PICK n : n = 2
  OBVIOUS
<1>4. /\ Listed(Add(h, d)) /\ Len(Add(h, d)) = n + 1 /\ Add(h, d)[n + 1] = d
      /\ \A j \in 1 .. n : Add(h, d)[j] = h[j]
  <2>1. n \in Nat /\ Listed(h) /\ Len(h) = n
    BY <1>2, <1>3
  <2>2. QED  BY <2>1, Grown
<1>5. QED  BY <1>1, <1>2, <1>3, <1>4

LEMMA GotFour ==
  ASSUME NEW a, NEW b, NEW d, NEW e, NEW g, g = Add(Add(Add(Add(<<>>, a), b), d), e)
  PROVE  Listed(g) /\ Len(g) = 4 /\ g[1] = a /\ g[2] = b /\ g[3] = d /\ g[4] = e
<1>1. PICK h : h = Add(Add(Add(<<>>, a), b), d)
  OBVIOUS
<1>2. Listed(h) /\ Len(h) = 3 /\ h[1] = a /\ h[2] = b /\ h[3] = d
  BY <1>1, GotThree
<1>3. PICK n : n = 3
  OBVIOUS
<1>4. /\ Listed(Add(h, e)) /\ Len(Add(h, e)) = n + 1 /\ Add(h, e)[n + 1] = e
      /\ \A j \in 1 .. n : Add(h, e)[j] = h[j]
  <2>1. n \in Nat /\ Listed(h) /\ Len(h) = n
    BY <1>2, <1>3
  <2>2. QED  BY <2>1, Grown
<1>5. QED  BY <1>1, <1>2, <1>3, <1>4

LEMMA GotFive ==
  ASSUME NEW a, NEW b, NEW d, NEW e, NEW f, NEW g, g = Add(Add(Add(Add(Add(<<>>, a), b), d), e), f)
  PROVE  Listed(g) /\ Len(g) = 5 /\ g[1] = a /\ g[2] = b /\ g[3] = d /\ g[4] = e /\ g[5] = f
<1>1. PICK h : h = Add(Add(Add(Add(<<>>, a), b), d), e)
  OBVIOUS
<1>2. Listed(h) /\ Len(h) = 4 /\ h[1] = a /\ h[2] = b /\ h[3] = d /\ h[4] = e
  BY <1>1, GotFour
<1>3. PICK n : n = 4
  OBVIOUS
<1>4. /\ Listed(Add(h, f)) /\ Len(Add(h, f)) = n + 1 /\ Add(h, f)[n + 1] = f
      /\ \A j \in 1 .. n : Add(h, f)[j] = h[j]
  <2>1. n \in Nat /\ Listed(h) /\ Len(h) = n
    BY <1>2, <1>3
  <2>2. QED  BY <2>1, Grown
<1>5. QED  BY <1>1, <1>2, <1>3, <1>4

-----------------------------------------------------------------------------
(* Operations that are carried *)

\* An operation that is received as c, and refused when it is cut short.
Delivers(opcode, p, c) ==
  p \in Seq(Field) /\ \A k \in 0 .. Len(p) : parse_payload(opcode, SubSeq(p, 1, k)) = Verdict(p, k, c)

\* That has the form of an operation the format has room for.
Fits(o, c) == IsOperation(c) /\ c.op = o.op /\ Expressible(c) /\ (Expressible(o) => c = o)

Understood(o, c) == Delivers(opcode_for[o.op], write_payload(o), c) /\ Fits(o, c)
Carried(o) == \E c : Understood(o, c)

LEMMA Narrowing ==
  ASSUME NEW n \in Nat
  PROVE  /\ n % Size["u64"] \in Nat /\ n % Size["u64"] < Size["u64"]
         /\ n < Size["u64"] => n % Size["u64"] = n
         /\ n \in u64 => n % Size["u64"] = n
         /\ n % Size["u64"] \in u64
         /\ push("u64", n) \in Seq(Field) /\ push_uid(n) = push("u64", n)
<1>1. /\ Size["u64"] \in Nat /\ n % Size["u64"] \in 0 .. Size["u64"] - 1
      /\ n < Size["u64"] => n % Size["u64"] = n
      /\ push("u64", n) \in Seq(Field)
  BY Words DEF Number
<1>2. QED  BY <1>1 DEF u64, push_uid

LEMMA Opcodes ==
  ASSUME NEW F
  PROVE  /\ parse_payload(opcode_for["NodeCreate"], F) = parse_node_create(Reader(F))
         /\ parse_payload(opcode_for["EdgeConnect"], F) = parse_edge_connect(Reader(F))
         /\ parse_payload(opcode_for["SetValue"], F) = parse_set_value(Reader(F))
         /\ parse_payload(opcode_for["Propagate"], F) = parse_node(Reader(F), "Propagate")
         /\ parse_payload(opcode_for["Subscribe"], F) = parse_two(Reader(F), "Subscribe", "src", "sub")
         /\ parse_payload(opcode_for["DelNode"], F) = parse_node(Reader(F), "DelNode")
         /\ parse_payload(opcode_for["DelEdge"], F) = parse_node(Reader(F), "DelEdge")
         /\ parse_payload(opcode_for["Demand"], F) = parse_node(Reader(F), "Demand")
         /\ parse_payload(opcode_for["SetMode"], F) = parse_set_mode(Reader(F))
         /\ parse_payload(opcode_for["Reflect"], F) = parse_node(Reader(F), "Reflect")
         /\ parse_payload(opcode_for["Stabilize"], F) = parse_stabilize(Reader(F))
         /\ parse_payload(opcode_for["PartitionCreate"], F) = parse_partition_create(Reader(F))
         /\ parse_payload(opcode_for["PartitionBind"], F) = parse_two(Reader(F), "PartitionBind", "node", "partition")
         /\ parse_payload(opcode_for["SetPartitionAuthority"], F) = parse_set_partition_authority(Reader(F))
         /\ parse_payload(opcode_for["SetEdgeLabel"], F) = parse_set_edge_label(Reader(F))
         /\ parse_payload(opcode_for["SetStabilizationConfig"], F) = parse_config(Reader(F))
         /\ parse_payload(opcode_for["SetExecutionPolicy"], F) = parse_policy(Reader(F))
         /\ parse_payload(opcode_for["RegionDeclare"], F) = parse_region(Reader(F))
BY DEF parse_payload, opcode_for

LEMMA NodeRead ==
  ASSUME NEW n \in Nat, NEW p, p = push_uid(n), NEW k \in 0 .. Len(p), NEW name
  PROVE  /\ p \in Seq(Field)
         /\ parse_node(Reader(SubSeq(p, 1, k)), name) = Verdict(p, k, [op |-> name, node |-> n % Size["u64"]])
<1>1. p = push("u64", n) /\ p \in Seq(Field)
  BY Narrowing
<1>2. Payload(p, k)
  BY <1>1, LenProperties DEF Payload
<1>3. PICK r, s : r = Reader(SubSeq(p, 1, k)) /\ s = read(r, "u64")
  OBVIOUS
<1>4. Reached(r, p, 0, <<>>, k, <<>>) /\ Cat(<<>>, p) = p /\ Lies(p, 0, p)
  BY <1>1, <1>2, <1>3, Began
<1>5. PICK g : g = Add(<<>>, n % Size["u64"])
  OBVIOUS
<1>6. Reached(s, p, 0, p, k, g)
  <2>1. Lies(p, 0, Cat(<<>>, push("u64", n)))
    BY <1>1, <1>4
  <2>2. Reached(read(r, "u64"), p, 0, Cat(<<>>, push("u64", n)), k, Add(<<>>, n % Size["u64"]))
    BY <1>4, <2>1, NextWord DEF Number
  <2>3. QED  BY <2>2, <1>1, <1>3, <1>4, <1>5
<1>7. g[1] = n % Size["u64"]
  BY <1>5, GotOne
<1>8. PICK x, c : x = [op |-> name, node |-> s.got[1]] /\ c = [op |-> name, node |-> n % Size["u64"]]
  OBVIOUS
<1>9. s.got = g => x = c
  BY <1>7, <1>8
<1>10. Parsed(s, x) = Verdict(p, k, c)
  BY <1>6, <1>9, Outcome
<1>11. parse_node(r, name) = Parsed(s, x)
  BY <1>3, <1>8 DEF parse_node
<1>12. QED  BY <1>1, <1>3, <1>8, <1>10, <1>11

LEMMA NodeOps ==
  ASSUME NEW o \in [op : {"Propagate", "DelNode", "DelEdge", "Demand", "Reflect"}, node : Nat]
  PROVE  Carried(o)
<1>1. PICK name, n, p : name = o.op /\ n = o.node /\ p = push_uid(n)
  OBVIOUS
<1>2. n \in Nat /\ name \in {"Propagate", "DelNode", "DelEdge", "Demand", "Reflect"} /\ o = [op |-> name, node |-> n]
  BY <1>1
<1>3. write_payload(o) = p
  BY <1>1, <1>2 DEF write_payload
<1>4. PICK c : c = [op |-> name, node |-> n % Size["u64"]]
  OBVIOUS
<1>5. \A k \in 0 .. Len(p) : parse_node(Reader(SubSeq(p, 1, k)), name) = Verdict(p, k, c)
  BY <1>1, <1>2, <1>4, NodeRead
<1>6. p \in Seq(Field)
  BY <1>1, <1>2, Narrowing
<1>7. Delivers(opcode_for[name], p, c)
  <2>2. ASSUME NEW k \in 0 .. Len(p) PROVE parse_payload(opcode_for[name], SubSeq(p, 1, k)) = Verdict(p, k, c)
    <3>2. parse_payload(opcode_for[name], SubSeq(p, 1, k)) = parse_node(Reader(SubSeq(p, 1, k)), name)
      BY <1>2, Opcodes
    <3>3. QED  BY <3>2, <1>5
  <2>3. QED  BY <2>2, <1>6 DEF Delivers
<1>8. Fits(o, c)
  <2>1. /\ n % Size["u64"] \in Nat /\ n % Size["u64"] < Size["u64"]
        /\ n < Size["u64"] => n % Size["u64"] = n
    BY <1>2, Narrowing
  <2>2. IsOperation(c)
    BY <1>2, <1>4, <2>1 DEF IsOperation
  <2>3. c.op = o.op
    BY <1>2, <1>4
  <2>4. Expressible(c)
    <3>1. IdsIn(c) = {n % Size["u64"]}
      BY <1>4, <1>2 DEF IdsIn, IdsOf, IdFields
    <3>2. QED  BY <3>1, <2>1, <1>2, <1>4 DEF Expressible
  <2>5. ASSUME Expressible(o) PROVE c = o
    <3>1. IdsIn(o) = {n}
      BY <1>2 DEF IdsIn, IdsOf, IdFields
    <3>2. n < Size["u64"]
      BY <2>5, <3>1 DEF Expressible
    <3>3. QED  BY <3>2, <2>1, <1>2, <1>4
  <2>6. QED  BY <2>2, <2>3, <2>4, <2>5 DEF Fits
<1>9. QED  BY <1>1, <1>3, <1>7, <1>8 DEF Understood, Carried

-----------------------------------------------------------------------------
(* Payloads of two to five numbers *)

LEMMA MoreTwo ==
  ASSUME NEW p, NEW k, NEW i, NEW P, NEW got, NEW r, Reached(r, p, i, P, k, got),
         NEW w1 \in Number, NEW n1 \in Nat,
         NEW w2 \in Number, NEW n2 \in Nat,
         Lies(p, i, Cat(Cat(P, push(w1, n1)), push(w2, n2)))
  PROVE  Reached(read_all(r, <<w1, w2>>), p, i, Cat(Cat(P, push(w1, n1)), push(w2, n2)), k,
                 Add(Add(got, n1 % Size[w1]), n2 % Size[w2]))
<1>1. PICK Q, s, g : /\ Q = Cat(P, push(w1, n1))
                     /\ s = read(r, w1) /\ g = Add(got, n1 % Size[w1])
  OBVIOUS
<1>2. P \in Seq(Field) /\ i \in Nat /\ Len(p) \in Nat
  BY DEF Reached, Payload
<1>3. Q \in Seq(Field)
  BY <1>1, <1>2, Words, CatApart
<1>4. Lies(p, i, Cat(Q, push(w2, n2)))
  BY <1>1
<1>5. Lies(p, i, Q)
  <2>1. push(w2, n2) \in Seq(Field)
    BY Words
  <2>2. QED  BY <1>2, <1>3, <1>4, <2>1, Prefix
<1>6. Reached(s, p, i, Q, k, g)
  BY <1>1, <1>5, NextWord
<1>7. Reached(read(s, w2), p, i, Cat(Q, push(w2, n2)), k, Add(g, n2 % Size[w2]))
  BY <1>4, <1>6, NextWord
<1>8. read_all(r, <<w1, w2>>) = read(s, w2)
  BY <1>1, ReadOnTwo
<1>9. QED  BY <1>1, <1>7, <1>8

LEMMA MoreThree ==
  ASSUME NEW p, NEW k, NEW i, NEW P, NEW got, NEW r, Reached(r, p, i, P, k, got),
         NEW w1 \in Number, NEW n1 \in Nat,
         NEW w2 \in Number, NEW n2 \in Nat,
         NEW w3 \in Number, NEW n3 \in Nat,
         Lies(p, i, Cat(Cat(Cat(P, push(w1, n1)), push(w2, n2)), push(w3, n3)))
  PROVE  Reached(read_all(r, <<w1, w2, w3>>), p, i, Cat(Cat(Cat(P, push(w1, n1)), push(w2, n2)), push(w3, n3)), k,
                 Add(Add(Add(got, n1 % Size[w1]), n2 % Size[w2]), n3 % Size[w3]))
<1>1. PICK Q, s, g : /\ Q = Cat(Cat(P, push(w1, n1)), push(w2, n2))
                     /\ s = read_all(r, <<w1, w2>>) /\ g = Add(Add(got, n1 % Size[w1]), n2 % Size[w2])
  OBVIOUS
<1>2. P \in Seq(Field) /\ i \in Nat /\ Len(p) \in Nat
  BY DEF Reached, Payload
<1>3. Q \in Seq(Field)
  BY <1>1, <1>2, Words, CatApart
<1>4. Lies(p, i, Cat(Q, push(w3, n3)))
  BY <1>1
<1>5. Lies(p, i, Q)
  <2>1. push(w3, n3) \in Seq(Field)
    BY Words
  <2>2. QED  BY <1>2, <1>3, <1>4, <2>1, Prefix
<1>6. Reached(s, p, i, Q, k, g)
  BY <1>1, <1>5, MoreTwo
<1>7. Reached(read(s, w3), p, i, Cat(Q, push(w3, n3)), k, Add(g, n3 % Size[w3]))
  BY <1>4, <1>6, NextWord
<1>8. read_all(r, <<w1, w2, w3>>) = read(s, w3)
  BY <1>1, ReadOnTwo, ReadOnThree
<1>9. QED  BY <1>1, <1>7, <1>8

LEMMA MoreFour ==
  ASSUME NEW p, NEW k, NEW i, NEW P, NEW got, NEW r, Reached(r, p, i, P, k, got),
         NEW w1 \in Number, NEW n1 \in Nat,
         NEW w2 \in Number, NEW n2 \in Nat,
         NEW w3 \in Number, NEW n3 \in Nat,
         NEW w4 \in Number, NEW n4 \in Nat,
         Lies(p, i, Cat(Cat(Cat(Cat(P, push(w1, n1)), push(w2, n2)), push(w3, n3)), push(w4, n4)))
  PROVE  Reached(read_all(r, <<w1, w2, w3, w4>>), p, i, Cat(Cat(Cat(Cat(P, push(w1, n1)), push(w2, n2)), push(w3, n3)), push(w4, n4)), k,
                 Add(Add(Add(Add(got, n1 % Size[w1]), n2 % Size[w2]), n3 % Size[w3]), n4 % Size[w4]))
<1>1. PICK Q, s, g : /\ Q = Cat(Cat(Cat(P, push(w1, n1)), push(w2, n2)), push(w3, n3))
                     /\ s = read_all(r, <<w1, w2, w3>>) /\ g = Add(Add(Add(got, n1 % Size[w1]), n2 % Size[w2]), n3 % Size[w3])
  OBVIOUS
<1>2. P \in Seq(Field) /\ i \in Nat /\ Len(p) \in Nat
  BY DEF Reached, Payload
<1>3. Q \in Seq(Field)
  BY <1>1, <1>2, Words, CatApart
<1>4. Lies(p, i, Cat(Q, push(w4, n4)))
  BY <1>1
<1>5. Lies(p, i, Q)
  <2>1. push(w4, n4) \in Seq(Field)
    BY Words
  <2>2. QED  BY <1>2, <1>3, <1>4, <2>1, Prefix
<1>6. Reached(s, p, i, Q, k, g)
  BY <1>1, <1>5, MoreThree
<1>7. Reached(read(s, w4), p, i, Cat(Q, push(w4, n4)), k, Add(g, n4 % Size[w4]))
  BY <1>4, <1>6, NextWord
<1>8. read_all(r, <<w1, w2, w3, w4>>) = read(s, w4)
  BY <1>1, ReadOnThree, ReadOnFour
<1>9. QED  BY <1>1, <1>7, <1>8

LEMMA MoreFive ==
  ASSUME NEW p, NEW k, NEW i, NEW P, NEW got, NEW r, Reached(r, p, i, P, k, got),
         NEW w1 \in Number, NEW n1 \in Nat,
         NEW w2 \in Number, NEW n2 \in Nat,
         NEW w3 \in Number, NEW n3 \in Nat,
         NEW w4 \in Number, NEW n4 \in Nat,
         NEW w5 \in Number, NEW n5 \in Nat,
         Lies(p, i, Cat(Cat(Cat(Cat(Cat(P, push(w1, n1)), push(w2, n2)), push(w3, n3)), push(w4, n4)), push(w5, n5)))
  PROVE  Reached(read_all(r, <<w1, w2, w3, w4, w5>>), p, i, Cat(Cat(Cat(Cat(Cat(P, push(w1, n1)), push(w2, n2)), push(w3, n3)), push(w4, n4)), push(w5, n5)), k,
                 Add(Add(Add(Add(Add(got, n1 % Size[w1]), n2 % Size[w2]), n3 % Size[w3]), n4 % Size[w4]), n5 % Size[w5]))
<1>1. PICK Q, s, g : /\ Q = Cat(Cat(Cat(Cat(P, push(w1, n1)), push(w2, n2)), push(w3, n3)), push(w4, n4))
                     /\ s = read_all(r, <<w1, w2, w3, w4>>) /\ g = Add(Add(Add(Add(got, n1 % Size[w1]), n2 % Size[w2]), n3 % Size[w3]), n4 % Size[w4])
  OBVIOUS
<1>2. P \in Seq(Field) /\ i \in Nat /\ Len(p) \in Nat
  BY DEF Reached, Payload
<1>3. Q \in Seq(Field)
  BY <1>1, <1>2, Words, CatApart
<1>4. Lies(p, i, Cat(Q, push(w5, n5)))
  BY <1>1
<1>5. Lies(p, i, Q)
  <2>1. push(w5, n5) \in Seq(Field)
    BY Words
  <2>2. QED  BY <1>2, <1>3, <1>4, <2>1, Prefix
<1>6. Reached(s, p, i, Q, k, g)
  BY <1>1, <1>5, MoreFour
<1>7. Reached(read(s, w5), p, i, Cat(Q, push(w5, n5)), k, Add(g, n5 % Size[w5]))
  BY <1>4, <1>6, NextWord
<1>8. read_all(r, <<w1, w2, w3, w4, w5>>) = read(s, w5)
  BY <1>1, ReadOnFour, ReadOnFive
<1>9. QED  BY <1>1, <1>7, <1>8

\* What is written after what lies there lies there too, so far.
LEMMA Payloads ==
  ASSUME NEW p \in Seq(Field), NEW k \in 0 .. Len(p)
  PROVE  /\ Payload(p, k) /\ Len(p) \in Nat /\ Lies(p, 0, p)
         /\ Reached(Reader(SubSeq(p, 1, k)), p, 0, <<>>, k, <<>>)
         /\ \A F \in Seq(Field) : Cat(<<>>, F) = F
<1>1. Payload(p, k)
  BY LenProperties DEF Payload
<1>2. QED  BY <1>1, Began DEF Payload

WrittenTwo(p, w1, n1, w2, n2) ==
  /\ w1 \in Number /\ w2 \in Number /\ n1 \in Nat /\ n2 \in Nat
  /\ p = Cat(push(w1, n1), push(w2, n2))
ReadTwo(p, w1, n1, w2, n2) ==
  /\ p \in Seq(Field)
  /\ \E g : /\ g[1] = n1 % Size[w1] /\ g[2] = n2 % Size[w2]
           /\ \A k \in 0 .. Len(p) : Reached(read_all(Reader(SubSeq(p, 1, k)), <<w1, w2>>), p, 0, p, k, g)

LEMMA WholeTwo ==
  ASSUME NEW p, NEW w1, NEW n1, NEW w2, NEW n2, WrittenTwo(p, w1, n1, w2, n2)
  PROVE  ReadTwo(p, w1, n1, w2, n2)
<1>0. /\ w1 \in Number /\ w2 \in Number /\ n1 \in Nat /\ n2 \in Nat
      /\ p = Cat(push(w1, n1), push(w2, n2))
  BY DEF WrittenTwo
<1>1. p \in Seq(Field)
  BY <1>0, Words, CatApart
<1>2. PICK g : g = Add(Add(<<>>, n1 % Size[w1]), n2 % Size[w2])
  OBVIOUS
<1>3. g[1] = n1 % Size[w1] /\ g[2] = n2 % Size[w2]
  BY <1>2, GotTwo
<1>4. ASSUME NEW k \in 0 .. Len(p)
      PROVE  Reached(read_all(Reader(SubSeq(p, 1, k)), <<w1, w2>>), p, 0, p, k, g)
  <2>1. PICK r : r = Reader(SubSeq(p, 1, k))
    OBVIOUS
  <2>2. Reached(r, p, 0, <<>>, k, <<>>) /\ Lies(p, 0, p) /\ \A F \in Seq(Field) : Cat(<<>>, F) = F
    BY <1>1, <2>1, Payloads
  <2>3. Cat(<<>>, push(w1, n1)) = push(w1, n1)
    <3>1. push(w1, n1) \in Seq(Field)
      BY <1>0, Words
    <3>2. QED  BY <2>2, <3>1
  <2>4. p = Cat(Cat(<<>>, push(w1, n1)), push(w2, n2))
    BY <1>0, <2>3
  <2>5. Lies(p, 0, Cat(Cat(<<>>, push(w1, n1)), push(w2, n2)))
    BY <2>2, <2>4
  <2>6. Reached(read_all(r, <<w1, w2>>), p, 0, Cat(Cat(<<>>, push(w1, n1)), push(w2, n2)), k, Add(Add(<<>>, n1 % Size[w1]), n2 % Size[w2]))
    <3>1. PICK P, h : P = <<>> /\ h = <<>>
      OBVIOUS
    <3>2. Reached(r, p, 0, P, k, h) /\ Lies(p, 0, Cat(Cat(P, push(w1, n1)), push(w2, n2)))
      BY <2>2, <2>5, <3>1
    <3>3. Reached(read_all(r, <<w1, w2>>), p, 0, Cat(Cat(P, push(w1, n1)), push(w2, n2)), k, Add(Add(h, n1 % Size[w1]), n2 % Size[w2]))
      BY <1>0, <3>2, MoreTwo
    <3>4. QED  BY <3>1, <3>3
  <2>7. QED  BY <1>2, <2>1, <2>4, <2>6
<1>5. QED  BY <1>1, <1>3, <1>4 DEF ReadTwo

WrittenThree(p, w1, n1, w2, n2, w3, n3) ==
  /\ w1 \in Number /\ w2 \in Number /\ w3 \in Number /\ n1 \in Nat /\ n2 \in Nat /\ n3 \in Nat
  /\ p = Cat(Cat(push(w1, n1), push(w2, n2)), push(w3, n3))
ReadThree(p, w1, n1, w2, n2, w3, n3) ==
  /\ p \in Seq(Field)
  /\ \E g : /\ g[1] = n1 % Size[w1] /\ g[2] = n2 % Size[w2] /\ g[3] = n3 % Size[w3]
           /\ \A k \in 0 .. Len(p) : Reached(read_all(Reader(SubSeq(p, 1, k)), <<w1, w2, w3>>), p, 0, p, k, g)

LEMMA WholeThree ==
  ASSUME NEW p, NEW w1, NEW n1, NEW w2, NEW n2, NEW w3, NEW n3, WrittenThree(p, w1, n1, w2, n2, w3, n3)
  PROVE  ReadThree(p, w1, n1, w2, n2, w3, n3)
<1>0. /\ w1 \in Number /\ w2 \in Number /\ w3 \in Number /\ n1 \in Nat /\ n2 \in Nat /\ n3 \in Nat
      /\ p = Cat(Cat(push(w1, n1), push(w2, n2)), push(w3, n3))
  BY DEF WrittenThree
<1>1. p \in Seq(Field)
  BY <1>0, Words, CatApart
<1>2. PICK g : g = Add(Add(Add(<<>>, n1 % Size[w1]), n2 % Size[w2]), n3 % Size[w3])
  OBVIOUS
<1>3. g[1] = n1 % Size[w1] /\ g[2] = n2 % Size[w2] /\ g[3] = n3 % Size[w3]
  BY <1>2, GotThree
<1>4. ASSUME NEW k \in 0 .. Len(p)
      PROVE  Reached(read_all(Reader(SubSeq(p, 1, k)), <<w1, w2, w3>>), p, 0, p, k, g)
  <2>1. PICK r : r = Reader(SubSeq(p, 1, k))
    OBVIOUS
  <2>2. Reached(r, p, 0, <<>>, k, <<>>) /\ Lies(p, 0, p) /\ \A F \in Seq(Field) : Cat(<<>>, F) = F
    BY <1>1, <2>1, Payloads
  <2>3. Cat(<<>>, push(w1, n1)) = push(w1, n1)
    <3>1. push(w1, n1) \in Seq(Field)
      BY <1>0, Words
    <3>2. QED  BY <2>2, <3>1
  <2>4. p = Cat(Cat(Cat(<<>>, push(w1, n1)), push(w2, n2)), push(w3, n3))
    BY <1>0, <2>3
  <2>5. Lies(p, 0, Cat(Cat(Cat(<<>>, push(w1, n1)), push(w2, n2)), push(w3, n3)))
    BY <2>2, <2>4
  <2>6. Reached(read_all(r, <<w1, w2, w3>>), p, 0, Cat(Cat(Cat(<<>>, push(w1, n1)), push(w2, n2)), push(w3, n3)), k, Add(Add(Add(<<>>, n1 % Size[w1]), n2 % Size[w2]), n3 % Size[w3]))
    <3>1. PICK P, h : P = <<>> /\ h = <<>>
      OBVIOUS
    <3>2. Reached(r, p, 0, P, k, h) /\ Lies(p, 0, Cat(Cat(Cat(P, push(w1, n1)), push(w2, n2)), push(w3, n3)))
      BY <2>2, <2>5, <3>1
    <3>3. Reached(read_all(r, <<w1, w2, w3>>), p, 0, Cat(Cat(Cat(P, push(w1, n1)), push(w2, n2)), push(w3, n3)), k, Add(Add(Add(h, n1 % Size[w1]), n2 % Size[w2]), n3 % Size[w3]))
      BY <1>0, <3>2, MoreThree
    <3>4. QED  BY <3>1, <3>3
  <2>7. QED  BY <1>2, <2>1, <2>4, <2>6
<1>5. QED  BY <1>1, <1>3, <1>4 DEF ReadThree

WrittenFour(p, w1, n1, w2, n2, w3, n3, w4, n4) ==
  /\ w1 \in Number /\ w2 \in Number /\ w3 \in Number /\ w4 \in Number /\ n1 \in Nat /\ n2 \in Nat /\ n3 \in Nat /\ n4 \in Nat
  /\ p = Cat(Cat(Cat(push(w1, n1), push(w2, n2)), push(w3, n3)), push(w4, n4))
ReadFour(p, w1, n1, w2, n2, w3, n3, w4, n4) ==
  /\ p \in Seq(Field)
  /\ \E g : /\ g[1] = n1 % Size[w1] /\ g[2] = n2 % Size[w2] /\ g[3] = n3 % Size[w3] /\ g[4] = n4 % Size[w4]
           /\ \A k \in 0 .. Len(p) : Reached(read_all(Reader(SubSeq(p, 1, k)), <<w1, w2, w3, w4>>), p, 0, p, k, g)

LEMMA WholeFour ==
  ASSUME NEW p, NEW w1, NEW n1, NEW w2, NEW n2, NEW w3, NEW n3, NEW w4, NEW n4, WrittenFour(p, w1, n1, w2, n2, w3, n3, w4, n4)
  PROVE  ReadFour(p, w1, n1, w2, n2, w3, n3, w4, n4)
<1>0. /\ w1 \in Number /\ w2 \in Number /\ w3 \in Number /\ w4 \in Number /\ n1 \in Nat /\ n2 \in Nat /\ n3 \in Nat /\ n4 \in Nat
      /\ p = Cat(Cat(Cat(push(w1, n1), push(w2, n2)), push(w3, n3)), push(w4, n4))
  BY DEF WrittenFour
<1>1. p \in Seq(Field)
  BY <1>0, Words, CatApart
<1>2. PICK g : g = Add(Add(Add(Add(<<>>, n1 % Size[w1]), n2 % Size[w2]), n3 % Size[w3]), n4 % Size[w4])
  OBVIOUS
<1>3. g[1] = n1 % Size[w1] /\ g[2] = n2 % Size[w2] /\ g[3] = n3 % Size[w3] /\ g[4] = n4 % Size[w4]
  BY <1>2, GotFour
<1>4. ASSUME NEW k \in 0 .. Len(p)
      PROVE  Reached(read_all(Reader(SubSeq(p, 1, k)), <<w1, w2, w3, w4>>), p, 0, p, k, g)
  <2>1. PICK r : r = Reader(SubSeq(p, 1, k))
    OBVIOUS
  <2>2. Reached(r, p, 0, <<>>, k, <<>>) /\ Lies(p, 0, p) /\ \A F \in Seq(Field) : Cat(<<>>, F) = F
    BY <1>1, <2>1, Payloads
  <2>3. Cat(<<>>, push(w1, n1)) = push(w1, n1)
    <3>1. push(w1, n1) \in Seq(Field)
      BY <1>0, Words
    <3>2. QED  BY <2>2, <3>1
  <2>4. p = Cat(Cat(Cat(Cat(<<>>, push(w1, n1)), push(w2, n2)), push(w3, n3)), push(w4, n4))
    BY <1>0, <2>3
  <2>5. Lies(p, 0, Cat(Cat(Cat(Cat(<<>>, push(w1, n1)), push(w2, n2)), push(w3, n3)), push(w4, n4)))
    BY <2>2, <2>4
  <2>6. Reached(read_all(r, <<w1, w2, w3, w4>>), p, 0, Cat(Cat(Cat(Cat(<<>>, push(w1, n1)), push(w2, n2)), push(w3, n3)), push(w4, n4)), k, Add(Add(Add(Add(<<>>, n1 % Size[w1]), n2 % Size[w2]), n3 % Size[w3]), n4 % Size[w4]))
    <3>1. PICK P, h : P = <<>> /\ h = <<>>
      OBVIOUS
    <3>2. Reached(r, p, 0, P, k, h) /\ Lies(p, 0, Cat(Cat(Cat(Cat(P, push(w1, n1)), push(w2, n2)), push(w3, n3)), push(w4, n4)))
      BY <2>2, <2>5, <3>1
    <3>3. Reached(read_all(r, <<w1, w2, w3, w4>>), p, 0, Cat(Cat(Cat(Cat(P, push(w1, n1)), push(w2, n2)), push(w3, n3)), push(w4, n4)), k, Add(Add(Add(Add(h, n1 % Size[w1]), n2 % Size[w2]), n3 % Size[w3]), n4 % Size[w4]))
      BY <1>0, <3>2, MoreFour
    <3>4. QED  BY <3>1, <3>3
  <2>7. QED  BY <1>2, <2>1, <2>4, <2>6
<1>5. QED  BY <1>1, <1>3, <1>4 DEF ReadFour

WrittenFive(p, w1, n1, w2, n2, w3, n3, w4, n4, w5, n5) ==
  /\ w1 \in Number /\ w2 \in Number /\ w3 \in Number /\ w4 \in Number /\ w5 \in Number /\ n1 \in Nat /\ n2 \in Nat /\ n3 \in Nat /\ n4 \in Nat /\ n5 \in Nat
  /\ p = Cat(Cat(Cat(Cat(push(w1, n1), push(w2, n2)), push(w3, n3)), push(w4, n4)), push(w5, n5))
ReadFive(p, w1, n1, w2, n2, w3, n3, w4, n4, w5, n5) ==
  /\ p \in Seq(Field)
  /\ \E g : /\ g[1] = n1 % Size[w1] /\ g[2] = n2 % Size[w2] /\ g[3] = n3 % Size[w3] /\ g[4] = n4 % Size[w4] /\ g[5] = n5 % Size[w5]
           /\ \A k \in 0 .. Len(p) : Reached(read_all(Reader(SubSeq(p, 1, k)), <<w1, w2, w3, w4, w5>>), p, 0, p, k, g)

LEMMA WholeFive ==
  ASSUME NEW p, NEW w1, NEW n1, NEW w2, NEW n2, NEW w3, NEW n3, NEW w4, NEW n4, NEW w5, NEW n5, WrittenFive(p, w1, n1, w2, n2, w3, n3, w4, n4, w5, n5)
  PROVE  ReadFive(p, w1, n1, w2, n2, w3, n3, w4, n4, w5, n5)
<1>0. /\ w1 \in Number /\ w2 \in Number /\ w3 \in Number /\ w4 \in Number /\ w5 \in Number /\ n1 \in Nat /\ n2 \in Nat /\ n3 \in Nat /\ n4 \in Nat /\ n5 \in Nat
      /\ p = Cat(Cat(Cat(Cat(push(w1, n1), push(w2, n2)), push(w3, n3)), push(w4, n4)), push(w5, n5))
  BY DEF WrittenFive
<1>1. p \in Seq(Field)
  BY <1>0, Words, CatApart
<1>2. PICK g : g = Add(Add(Add(Add(Add(<<>>, n1 % Size[w1]), n2 % Size[w2]), n3 % Size[w3]), n4 % Size[w4]), n5 % Size[w5])
  OBVIOUS
<1>3. g[1] = n1 % Size[w1] /\ g[2] = n2 % Size[w2] /\ g[3] = n3 % Size[w3] /\ g[4] = n4 % Size[w4] /\ g[5] = n5 % Size[w5]
  BY <1>2, GotFive
<1>4. ASSUME NEW k \in 0 .. Len(p)
      PROVE  Reached(read_all(Reader(SubSeq(p, 1, k)), <<w1, w2, w3, w4, w5>>), p, 0, p, k, g)
  <2>1. PICK r : r = Reader(SubSeq(p, 1, k))
    OBVIOUS
  <2>2. Reached(r, p, 0, <<>>, k, <<>>) /\ Lies(p, 0, p) /\ \A F \in Seq(Field) : Cat(<<>>, F) = F
    BY <1>1, <2>1, Payloads
  <2>3. Cat(<<>>, push(w1, n1)) = push(w1, n1)
    <3>1. push(w1, n1) \in Seq(Field)
      BY <1>0, Words
    <3>2. QED  BY <2>2, <3>1
  <2>4. p = Cat(Cat(Cat(Cat(Cat(<<>>, push(w1, n1)), push(w2, n2)), push(w3, n3)), push(w4, n4)), push(w5, n5))
    BY <1>0, <2>3
  <2>5. Lies(p, 0, Cat(Cat(Cat(Cat(Cat(<<>>, push(w1, n1)), push(w2, n2)), push(w3, n3)), push(w4, n4)), push(w5, n5)))
    BY <2>2, <2>4
  <2>6. Reached(read_all(r, <<w1, w2, w3, w4, w5>>), p, 0, Cat(Cat(Cat(Cat(Cat(<<>>, push(w1, n1)), push(w2, n2)), push(w3, n3)), push(w4, n4)), push(w5, n5)), k, Add(Add(Add(Add(Add(<<>>, n1 % Size[w1]), n2 % Size[w2]), n3 % Size[w3]), n4 % Size[w4]), n5 % Size[w5]))
    <3>1. PICK P, h : P = <<>> /\ h = <<>>
      OBVIOUS
    <3>2. Reached(r, p, 0, P, k, h) /\ Lies(p, 0, Cat(Cat(Cat(Cat(Cat(P, push(w1, n1)), push(w2, n2)), push(w3, n3)), push(w4, n4)), push(w5, n5)))
      BY <2>2, <2>5, <3>1
    <3>3. PICK Q, u, d : /\ Q = Cat(Cat(Cat(Cat(P, push(w1, n1)), push(w2, n2)), push(w3, n3)), push(w4, n4))
                         /\ u = read_all(r, <<w1, w2, w3, w4>>)
                         /\ d = Add(Add(Add(Add(h, n1 % Size[w1]), n2 % Size[w2]), n3 % Size[w3]), n4 % Size[w4])
      OBVIOUS
    <3>4. Lies(p, 0, Cat(Q, push(w5, n5))) /\ Q \in Seq(Field) /\ push(w5, n5) \in Seq(Field)
      <4>1. P \in Seq(Field)
        BY <3>1, EmptySeq
      <4>2. Q \in Seq(Field) /\ push(w5, n5) \in Seq(Field)
        BY <1>0, <4>1, <3>3, Words, CatApart
      <4>3. QED  BY <4>2, <3>2, <3>3
    <3>5. Lies(p, 0, Q) /\ Len(p) \in Nat
      <4>1. Len(p) \in Nat
        BY <1>1, LenProperties
      <4>2. QED  BY <4>1, <3>4, Prefix
    <3>6. Reached(u, p, 0, Q, k, d)
      BY <1>0, <3>2, <3>3, <3>5, MoreFour
    <3>7. Reached(read(u, w5), p, 0, Cat(Q, push(w5, n5)), k, Add(d, n5 % Size[w5]))
      BY <1>0, <3>4, <3>6, NextWord
    <3>8. read_all(r, <<w1, w2, w3, w4, w5>>) = read(u, w5)
      BY <3>3, ReadOnFour, ReadOnFive
    <3>9. QED  BY <3>1, <3>3, <3>7, <3>8
  <2>7. QED  BY <1>2, <2>1, <2>4, <2>6
<1>5. QED  BY <1>1, <1>3, <1>4 DEF ReadFive

\* The operations on two ids.
TwoIds(name, first, second, m, n) ==
  [f \in {"op", first, second} |-> IF f = "op" THEN name ELSE IF f = first THEN m ELSE n]

LEMMA TwoRead ==
  ASSUME NEW m \in Nat, NEW n \in Nat, NEW p, p = Cat(push_uid(m), push_uid(n)),
         NEW name, NEW first, NEW second, NEW c, c = TwoIds(name, first, second, m % Size["u64"], n % Size["u64"])
  PROVE  /\ p \in Seq(Field)
         /\ \A k \in 0 .. Len(p) : parse_two(Reader(SubSeq(p, 1, k)), name, first, second) = Verdict(p, k, c)
<1>1. PICK w : w = "u64"
  OBVIOUS
<1>2. WrittenTwo(p, w, m, w, n)
  BY <1>1 DEF WrittenTwo, Number, push_uid
<1>3. ReadTwo(p, w, m, w, n)
  BY <1>2, WholeTwo
<1>4. PICK g : /\ g[1] = m % Size[w] /\ g[2] = n % Size[w]
               /\ \A k \in 0 .. Len(p) : Reached(read_all(Reader(SubSeq(p, 1, k)), <<w, w>>), p, 0, p, k, g)
  BY <1>3 DEF ReadTwo
<1>5. ASSUME NEW k \in 0 .. Len(p)
      PROVE  parse_two(Reader(SubSeq(p, 1, k)), name, first, second) = Verdict(p, k, c)
  <2>1. PICK r, s : r = Reader(SubSeq(p, 1, k)) /\ s = read_all(r, <<"u64", "u64">>)
    OBVIOUS
  <2>2. Reached(s, p, 0, p, k, g)
    BY <1>1, <1>4, <2>1
  <2>3. PICK x : x = TwoIds(name, first, second, s.got[1], s.got[2])
    OBVIOUS
  <2>4. s.got = g => x = c
    BY <1>1, <1>4, <2>3
  <2>5. Parsed(s, x) = Verdict(p, k, c)
    BY <2>2, <2>4, Outcome
  <2>6. parse_two(r, name, first, second) = Parsed(s, x)
    BY <2>1, <2>3 DEF parse_two, TwoIds
  <2>7. QED  BY <2>1, <2>5, <2>6
<1>6. QED  BY <1>3, <1>5 DEF ReadTwo

LEMMA SubscribeOps ==
  ASSUME NEW o \in [op : {"Subscribe"}, src : Nat, sub : Nat]
  PROVE  Carried(o)
<1>1. PICK m, n, p : m = o.src /\ n = o.sub /\ p = Cat(push_uid(m), push_uid(n))
  OBVIOUS
<1>2. m \in Nat /\ n \in Nat /\ o = [op |-> "Subscribe", src |-> m, sub |-> n]
  BY <1>1
<1>3. write_payload(o) = p
  BY <1>1, <1>2 DEF write_payload, write_extension, Cat
<1>4. PICK a, b : a = m % Size["u64"] /\ b = n % Size["u64"]
  OBVIOUS
<1>5. PICK c : c = [op |-> "Subscribe", src |-> a, sub |-> b]
  OBVIOUS
<1>6. c = TwoIds("Subscribe", "src", "sub", m % Size["u64"], n % Size["u64"])
  BY <1>4, <1>5 DEF TwoIds
<1>7. /\ p \in Seq(Field)
      /\ \A k \in 0 .. Len(p) : parse_two(Reader(SubSeq(p, 1, k)), "Subscribe", "src", "sub") = Verdict(p, k, c)
  BY <1>1, <1>2, <1>6, TwoRead
<1>8. Delivers(opcode_for["Subscribe"], p, c)
  BY <1>7, Opcodes DEF Delivers
<1>9. Fits(o, c)
  <2>1. /\ a \in Nat /\ a < Size["u64"] /\ b \in Nat /\ b < Size["u64"]
        /\ m < Size["u64"] => a = m
        /\ n < Size["u64"] => b = n
    BY <1>2, <1>4, Narrowing
  <2>2. IsOperation(c) /\ c.op = o.op
    BY <1>2, <1>5, <2>1 DEF IsOperation
  <2>3. Expressible(c)
    <3>1. IdsIn(c) = {a, b}
      BY <1>5 DEF IdsIn, IdsOf, IdFields
    <3>2. QED  BY <3>1, <2>1, <1>5 DEF Expressible
  <2>4. ASSUME Expressible(o) PROVE c = o
    <3>1. IdsIn(o) = {m, n}
      BY <1>2 DEF IdsIn, IdsOf, IdFields
    <3>2. m < Size["u64"] /\ n < Size["u64"]
      BY <2>4, <3>1 DEF Expressible
    <3>3. QED  BY <3>2, <2>1, <1>2, <1>5
  <2>5. QED  BY <2>2, <2>3, <2>4 DEF Fits
<1>10. QED  BY <1>2, <1>3, <1>8, <1>9 DEF Understood, Carried

LEMMA BindOps ==
  ASSUME NEW o \in [op : {"PartitionBind"}, node : Nat, partition : Nat]
  PROVE  Carried(o)
<1>1. PICK m, n, p : m = o.node /\ n = o.partition /\ p = Cat(push_uid(m), push_uid(n))
  OBVIOUS
<1>2. m \in Nat /\ n \in Nat /\ o = [op |-> "PartitionBind", node |-> m, partition |-> n]
  BY <1>1
<1>3. write_payload(o) = p
  BY <1>1, <1>2 DEF write_payload, write_authority, Cat
<1>4. PICK a, b : a = m % Size["u64"] /\ b = n % Size["u64"]
  OBVIOUS
<1>5. PICK c : c = [op |-> "PartitionBind", node |-> a, partition |-> b]
  OBVIOUS
<1>6. c = TwoIds("PartitionBind", "node", "partition", m % Size["u64"], n % Size["u64"])
  BY <1>4, <1>5 DEF TwoIds
<1>7. /\ p \in Seq(Field)
      /\ \A k \in 0 .. Len(p) : parse_two(Reader(SubSeq(p, 1, k)), "PartitionBind", "node", "partition") = Verdict(p, k, c)
  BY <1>1, <1>2, <1>6, TwoRead
<1>8. Delivers(opcode_for["PartitionBind"], p, c)
  BY <1>7, Opcodes DEF Delivers
<1>9. Fits(o, c)
  <2>1. /\ a \in Nat /\ a < Size["u64"] /\ b \in Nat /\ b < Size["u64"]
        /\ m < Size["u64"] => a = m
        /\ n < Size["u64"] => b = n
    BY <1>2, <1>4, Narrowing
  <2>2. IsOperation(c) /\ c.op = o.op
    BY <1>2, <1>5, <2>1 DEF IsOperation
  <2>3. Expressible(c)
    <3>1. IdsIn(c) = {a, b}
      BY <1>5 DEF IdsIn, IdsOf, IdFields
    <3>2. QED  BY <3>1, <2>1, <1>5 DEF Expressible
  <2>4. ASSUME Expressible(o) PROVE c = o
    <3>1. IdsIn(o) = {m, n}
      BY <1>2 DEF IdsIn, IdsOf, IdFields
    <3>2. m < Size["u64"] /\ n < Size["u64"]
      BY <2>4, <3>1 DEF Expressible
    <3>3. QED  BY <3>2, <2>1, <1>2, <1>5
  <2>5. QED  BY <2>2, <2>3, <2>4 DEF Fits
<1>10. QED  BY <1>2, <1>3, <1>8, <1>9 DEF Understood, Carried

\* An id, and what follows it.
LEMMA OneId ==
  ASSUME NEW n \in Nat, NEW F \in Seq(Field), NEW p, p = Cat(push_uid(n), F)
  PROVE  /\ p \in Seq(Field) /\ push_uid(n) \in Seq(Field)
         /\ \E g : /\ g = Add(<<>>, n % Size["u64"])
                  /\ \A k \in 0 .. Len(p) :
                        /\ Reached(read(Reader(SubSeq(p, 1, k)), "u64"), p, 0, push_uid(n), k, g)
                        /\ Lies(p, 0, Cat(push_uid(n), F))
<1>1. PICK P : P = push_uid(n)
  OBVIOUS
<1>2. P = push("u64", n) /\ P \in Seq(Field)
  BY <1>1, Narrowing
<1>3. p \in Seq(Field)
  BY <1>1, <1>2, CatApart
<1>4. ASSUME NEW k \in 0 .. Len(p)
      PROVE  /\ Reached(read(Reader(SubSeq(p, 1, k)), "u64"), p, 0, P, k, Add(<<>>, n % Size["u64"]))
             /\ Lies(p, 0, Cat(P, F))
  <2>1. PICK r : r = Reader(SubSeq(p, 1, k))
    OBVIOUS
  <2>2. /\ Reached(r, p, 0, <<>>, k, <<>>) /\ Cat(<<>>, P) = P /\ Lies(p, 0, p) /\ Len(p) \in Nat
    BY <1>2, <1>3, <2>1, Payloads
  <2>3. Lies(p, 0, Cat(P, F))
    BY <2>2, <1>1
  <2>4. Lies(p, 0, P)
    BY <1>2, <2>2, <2>3, Prefix
  <2>5. Lies(p, 0, Cat(<<>>, push("u64", n)))
    BY <1>2, <2>2, <2>4
  <2>6. Reached(read(r, "u64"), p, 0, Cat(<<>>, push("u64", n)), k, Add(<<>>, n % Size["u64"]))
    BY <2>2, <2>5, NextWord DEF Number
  <2>7. QED  BY <1>2, <2>1, <2>2, <2>3, <2>6
<1>5. QED  BY <1>1, <1>2, <1>3, <1>4

LEMMA SetValueOps ==
  ASSUME NEW o \in [op : {"SetValue"}, node : Nat, val : T]
  PROVE  Carried(o)
<1>1. PICK n, t, F, p : n = o.node /\ t = o.val /\ F = push("u8", t_to_wire[t]) /\ p = Cat(push_uid(n), F)
  OBVIOUS
<1>2. n \in Nat /\ t \in T /\ o = [op |-> "SetValue", node |-> n, val |-> t]
  BY <1>1
<1>3. write_payload(o) = p
  BY <1>1, <1>2 DEF write_payload, write_extension, Cat
<1>4. F \in Seq(Field)
  <2>1. t_to_wire[t] \in Nat
    BY <1>2, SignedWords
  <2>2. QED  BY <1>1, <2>1, Words DEF Number
<1>5. PICK a : a = n % Size["u64"]
  OBVIOUS
<1>6. PICK c : c = [op |-> "SetValue", node |-> a, val |-> t]
  OBVIOUS
<1>7. /\ p \in Seq(Field)
      /\ \E g : /\ g = Add(<<>>, a)
               /\ \A k \in 0 .. Len(p) :
                     /\ Reached(read(Reader(SubSeq(p, 1, k)), "u64"), p, 0, push_uid(n), k, g)
                     /\ Lies(p, 0, Cat(push_uid(n), F))
  BY <1>1, <1>2, <1>4, <1>5, OneId
<1>8. PICK g : /\ g = Add(<<>>, a)
               /\ \A k \in 0 .. Len(p) :
                     /\ Reached(read(Reader(SubSeq(p, 1, k)), "u64"), p, 0, push_uid(n), k, g)
                     /\ Lies(p, 0, Cat(push_uid(n), F))
  BY <1>7
<1>9. PICK h : h = Add(g, t)
  OBVIOUS
<1>10. h[1] = a /\ h[2] = t
  BY <1>8, <1>9, GotTwo
<1>11. ASSUME NEW k \in 0 .. Len(p)
       PROVE  parse_set_value(Reader(SubSeq(p, 1, k))) = Verdict(p, k, c)
  <2>1. PICK r, s : r = Reader(SubSeq(p, 1, k)) /\ s = wire_to_t(read(r, "u64"))
    OBVIOUS
  <2>2. Reached(s, p, 0, p, k, h)
    <3>1. Reached(read(r, "u64"), p, 0, push_uid(n), k, g) /\ Lies(p, 0, Cat(push_uid(n), push("u8", t_to_wire[t])))
      BY <1>1, <1>8, <2>1
    <3>2. Reached(s, p, 0, Cat(push_uid(n), push("u8", t_to_wire[t])), k, Add(g, t))
      BY <1>2, <2>1, <3>1, NextT
    <3>3. QED  BY <1>1, <1>9, <3>2
  <2>3. PICK x : x = [op |-> "SetValue", node |-> s.got[1], val |-> s.got[2]]
    OBVIOUS
  <2>4. s.got = h => x = c
    BY <1>6, <1>10, <2>3
  <2>5. Parsed(s, x) = Verdict(p, k, c)
    BY <2>2, <2>4, Outcome
  <2>6. parse_set_value(r) = Parsed(s, x)
    BY <2>1, <2>3 DEF parse_set_value
  <2>7. QED  BY <2>1, <2>5, <2>6
<1>12. Delivers(opcode_for["SetValue"], p, c)
  BY <1>7, <1>11, Opcodes DEF Delivers
<1>13. Fits(o, c)
  <2>1. a \in Nat /\ a < Size["u64"] /\ (n < Size["u64"] => a = n)
    BY <1>2, <1>5, Narrowing
  <2>2. IsOperation(c) /\ c.op = o.op
    BY <1>2, <1>6, <2>1 DEF IsOperation
  <2>3. Expressible(c)
    <3>1. IdsIn(c) = {a}
      BY <1>6 DEF IdsIn, IdsOf, IdFields
    <3>2. QED  BY <3>1, <2>1, <1>6 DEF Expressible
  <2>4. ASSUME Expressible(o) PROVE c = o
    <3>1. IdsIn(o) = {n}
      BY <1>2 DEF IdsIn, IdsOf, IdFields
    <3>2. n < Size["u64"]
      BY <2>4, <3>1 DEF Expressible
    <3>3. QED  BY <3>2, <2>1, <1>2, <1>6
  <2>5. QED  BY <2>2, <2>3, <2>4 DEF Fits
<1>14. QED  BY <1>2, <1>3, <1>12, <1>13 DEF Understood, Carried

LEMMA SetModeOps ==
  ASSUME NEW o \in [op : {"SetMode"}, node : Nat, mode : DOMAIN mode_byte]
  PROVE  Carried(o)
<1>1. PICK n, t, z, F, p : /\ n = o.node /\ t = o.mode /\ z = mode_byte[t]
                           /\ F = push("u8", z) /\ p = Cat(push_uid(n), F)
  OBVIOUS
<1>2. n \in Nat /\ t \in {"Eager", "Lazy", "Stabilizing"} /\ o = [op |-> "SetMode", node |-> n, mode |-> t]
  BY <1>1 DEF mode_byte
<1>3. write_payload(o) = p
  BY <1>1, <1>2 DEF write_payload, Cat
<1>t. PICK table : table = <<"Eager", "Lazy", "Stabilizing">>
  OBVIOUS
<1>z. z \in 0 .. 11 /\ z < Len(table) /\ table[z + 1] = t
  BY <1>1, <1>2, <1>t DEF mode_byte
<1>4. F \in Seq(Field)
  <2>1. z \in Nat
    BY <1>z
  <2>2. QED  BY <1>1, <2>1, Words DEF Number
<1>5. PICK a : a = n % Size["u64"]
  OBVIOUS
<1>6. PICK c : c = [op |-> "SetMode", node |-> a, mode |-> t]
  OBVIOUS
<1>7. /\ p \in Seq(Field)
      /\ \E g : /\ g = Add(<<>>, a)
               /\ \A k \in 0 .. Len(p) :
                     /\ Reached(read(Reader(SubSeq(p, 1, k)), "u64"), p, 0, push_uid(n), k, g)
                     /\ Lies(p, 0, Cat(push_uid(n), F))
  BY <1>1, <1>2, <1>4, <1>5, OneId
<1>8. PICK g : /\ g = Add(<<>>, a)
               /\ \A k \in 0 .. Len(p) :
                     /\ Reached(read(Reader(SubSeq(p, 1, k)), "u64"), p, 0, push_uid(n), k, g)
                     /\ Lies(p, 0, Cat(push_uid(n), F))
  BY <1>7
<1>9. PICK h : h = Add(g, t)
  OBVIOUS
<1>10. h[1] = a /\ h[2] = t
  BY <1>8, <1>9, GotTwo
<1>11. ASSUME NEW k \in 0 .. Len(p)
       PROVE  parse_set_mode(Reader(SubSeq(p, 1, k))) = Verdict(p, k, c)
  <2>1. PICK r, s : r = Reader(SubSeq(p, 1, k)) /\ s = read_code(read(r, "u64"), table, "UnknownExecMode")
    OBVIOUS
  <2>2. Reached(s, p, 0, p, k, h)
    <3>1. Reached(read(r, "u64"), p, 0, push_uid(n), k, g) /\ Lies(p, 0, Cat(push_uid(n), push("u8", z)))
      BY <1>1, <1>8, <2>1
    <3>2. Reached(s, p, 0, Cat(push_uid(n), push("u8", z)), k, Add(g, table[z + 1]))
      BY <1>z, <2>1, <3>1, NextCode
    <3>3. QED  BY <1>1, <1>9, <1>z, <3>2
  <2>3. PICK x : x = [op |-> "SetMode", node |-> s.got[1], mode |-> s.got[2]]
    OBVIOUS
  <2>4. s.got = h => x = c
    BY <1>6, <1>10, <2>3
  <2>5. Parsed(s, x) = Verdict(p, k, c)
    BY <2>2, <2>4, Outcome
  <2>6. parse_set_mode(r) = Parsed(s, x)
    BY <1>t, <2>1, <2>3 DEF parse_set_mode
  <2>7. QED  BY <2>1, <2>5, <2>6
<1>12. Delivers(opcode_for["SetMode"], p, c)
  BY <1>7, <1>11, Opcodes DEF Delivers
<1>13. Fits(o, c)
  <2>1. a \in Nat /\ a < Size["u64"] /\ (n < Size["u64"] => a = n)
    BY <1>2, <1>5, Narrowing
  <2>2. IsOperation(c) /\ c.op = o.op
    BY <1>2, <1>6, <2>1 DEF IsOperation, mode_byte
  <2>3. Expressible(c)
    <3>1. IdsIn(c) = {a}
      BY <1>6 DEF IdsIn, IdsOf, IdFields
    <3>2. QED  BY <3>1, <2>1, <1>6 DEF Expressible
  <2>4. ASSUME Expressible(o) PROVE c = o
    <3>1. IdsIn(o) = {n}
      BY <1>2 DEF IdsIn, IdsOf, IdFields
    <3>2. n < Size["u64"]
      BY <2>4, <3>1 DEF Expressible
    <3>3. QED  BY <3>2, <2>1, <1>2, <1>6
  <2>5. QED  BY <2>2, <2>3, <2>4 DEF Fits
<1>14. QED  BY <1>2, <1>3, <1>12, <1>13 DEF Understood, Carried

LEMMA CreateOps ==
  ASSUME NEW o \in [op : {"PartitionCreate"}, partition : Nat, root : Nat, class : u64, domain : Scope]
  PROVE  Carried(o)
<1>1. PICK m, n, d, e, z, p : /\ m = o.partition /\ n = o.root /\ d = o.class /\ e = o.domain.bits /\ z = o.domain.root
                              /\ p = Cat(Cat(Cat(push("u64", m), push("u64", n)), push("u64", d)), push("u64", e))
  OBVIOUS
<1>2. /\ m \in Nat /\ n \in Nat /\ d \in u64 /\ e \in u64 /\ z \in Nat
      /\ o = [op |-> "PartitionCreate", partition |-> m, root |-> n, class |-> d, domain |-> [bits |-> e, root |-> z]]
  BY <1>1 DEF Scope
<1>3. write_payload(o) = p
  BY <1>1, <1>2 DEF write_payload, write_authority, write_declaration, push_uid, Cat
<1>4. PICK a, b, w : a = m % Size["u64"] /\ b = n % Size["u64"] /\ w = "u64"
  OBVIOUS
<1>5. d \in Nat /\ e \in Nat /\ d % Size["u64"] = d /\ e % Size["u64"] = e
  <2>1. d \in Nat /\ e \in Nat
    BY <1>2 DEF u64
  <2>2. QED  BY <1>2, <2>1, Narrowing
<1>6. PICK c : c = [op |-> "PartitionCreate", partition |-> a, root |-> b, class |-> d, domain |-> [bits |-> e, root |-> a]]
  OBVIOUS
<1>7. ReadFour(p, w, m, w, n, w, d, w, e)
  <2>1. WrittenFour(p, w, m, w, n, w, d, w, e)
    BY <1>1, <1>2, <1>4, <1>5 DEF WrittenFour, Number
  <2>2. QED  BY <2>1, WholeFour
<1>8. PICK g : /\ g[1] = m % Size[w] /\ g[2] = n % Size[w] /\ g[3] = d % Size[w] /\ g[4] = e % Size[w]
               /\ \A k \in 0 .. Len(p) : Reached(read_all(Reader(SubSeq(p, 1, k)), <<w, w, w, w>>), p, 0, p, k, g)
  BY <1>7 DEF ReadFour
<1>9. ASSUME NEW k \in 0 .. Len(p)
      PROVE  parse_partition_create(Reader(SubSeq(p, 1, k))) = Verdict(p, k, c)
  <2>1. PICK r, s : r = Reader(SubSeq(p, 1, k)) /\ s = read_all(r, <<"u64", "u64", "u64", "u64">>)
    OBVIOUS
  <2>2. Reached(s, p, 0, p, k, g)
    BY <1>4, <1>8, <2>1
  <2>3. PICK x : x = [op |-> "PartitionCreate", partition |-> s.got[1], root |-> s.got[2],
                      class |-> s.got[3], domain |-> [bits |-> s.got[4], root |-> s.got[1]]]
    OBVIOUS
  <2>4. s.got = g => x = c
    BY <1>4, <1>5, <1>6, <1>8, <2>3
  <2>5. Parsed(s, x) = Verdict(p, k, c)
    BY <2>2, <2>4, Outcome
  <2>6. parse_partition_create(r) = Parsed(s, x)
    BY <2>1, <2>3 DEF parse_partition_create
  <2>7. QED  BY <2>1, <2>5, <2>6
<1>10. Delivers(opcode_for["PartitionCreate"], p, c)
  BY <1>7, <1>9, Opcodes DEF Delivers, ReadFour
<1>11. Fits(o, c)
  <2>1. /\ a \in Nat /\ a < Size["u64"] /\ b \in Nat /\ b < Size["u64"]
        /\ m < Size["u64"] => a = m
        /\ n < Size["u64"] => b = n
    BY <1>2, <1>4, Narrowing
  <2>2. IsOperation(c) /\ c.op = o.op
    <3>1. c \in [op : {"PartitionCreate"}, partition : Nat, root : Nat, class : u64, domain : Scope]
      BY <1>2, <1>6, <2>1 DEF Scope
    <3>2. c.op = o.op
      BY <1>2, <1>6
    <3>3. QED  BY <3>1, <3>2 DEF IsOperation
  <2>3. Expressible(c)
    <3>1. IdsIn(c) = {a, b}
      BY <1>6 DEF IdsIn, IdsOf, IdFields
    <3>2. QED  BY <3>1, <2>1, <1>6 DEF Expressible
  <2>4. ASSUME Expressible(o) PROVE c = o
    <3>1. IdsIn(o) = {m, n}
      BY <1>2 DEF IdsIn, IdsOf, IdFields
    <3>2. m < Size["u64"] /\ n < Size["u64"] /\ z = m
      BY <2>4, <3>1, <1>2 DEF Expressible
    <3>3. QED  BY <3>2, <2>1, <1>2, <1>6
  <2>5. QED  BY <2>2, <2>3, <2>4 DEF Fits
<1>12. QED  BY <1>2, <1>3, <1>10, <1>11 DEF Understood, Carried

LEMMA AuthorityOps ==
  ASSUME NEW o \in [op : {"SetPartitionAuthority"}, partition : Nat, class : u64, domain : Scope]
  PROVE  Carried(o)
<1>1. PICK m, d, e, z, p : /\ m = o.partition /\ d = o.class /\ e = o.domain.bits /\ z = o.domain.root
                           /\ p = Cat(Cat(push("u64", m), push("u64", d)), push("u64", e))
  OBVIOUS
<1>2. /\ m \in Nat /\ d \in u64 /\ e \in u64 /\ z \in Nat
      /\ o = [op |-> "SetPartitionAuthority", partition |-> m, class |-> d, domain |-> [bits |-> e, root |-> z]]
  BY <1>1 DEF Scope
<1>3. write_payload(o) = p
  <2>1. push("u64", m) \in Seq(Field)
    BY <1>2, Narrowing
  <2>2. push("u64", m) \o <<>> = push("u64", m)
    BY <2>1, ConcatEmptySeq
  <2>3. write_declaration(o) = push("u64", m)
    BY <1>2, <2>2 DEF write_declaration, push_uid
  <2>4. QED  BY <1>1, <1>2, <2>3 DEF write_payload, write_authority, Cat
<1>4. PICK a, w : a = m % Size["u64"] /\ w = "u64"
  OBVIOUS
<1>5. d \in Nat /\ e \in Nat /\ d % Size["u64"] = d /\ e % Size["u64"] = e
  <2>1. d \in Nat /\ e \in Nat
    BY <1>2 DEF u64
  <2>2. QED  BY <1>2, <2>1, Narrowing
<1>6. PICK c : c = [op |-> "SetPartitionAuthority", partition |-> a, class |-> d, domain |-> [bits |-> e, root |-> 0]]
  OBVIOUS
<1>7. ReadThree(p, w, m, w, d, w, e)
  <2>1. WrittenThree(p, w, m, w, d, w, e)
    BY <1>1, <1>2, <1>4, <1>5 DEF WrittenThree, Number
  <2>2. QED  BY <2>1, WholeThree
<1>8. PICK g : /\ g[1] = m % Size[w] /\ g[2] = d % Size[w] /\ g[3] = e % Size[w]
               /\ \A k \in 0 .. Len(p) : Reached(read_all(Reader(SubSeq(p, 1, k)), <<w, w, w>>), p, 0, p, k, g)
  BY <1>7 DEF ReadThree
<1>9. ASSUME NEW k \in 0 .. Len(p)
      PROVE  parse_set_partition_authority(Reader(SubSeq(p, 1, k))) = Verdict(p, k, c)
  <2>1. PICK r, s : r = Reader(SubSeq(p, 1, k)) /\ s = read_all(r, <<"u64", "u64", "u64">>)
    OBVIOUS
  <2>2. Reached(s, p, 0, p, k, g)
    BY <1>4, <1>8, <2>1
  <2>3. PICK x : x = [op |-> "SetPartitionAuthority", partition |-> s.got[1],
                      class |-> s.got[2], domain |-> [bits |-> s.got[3], root |-> 0]]
    OBVIOUS
  <2>4. s.got = g => x = c
    BY <1>4, <1>5, <1>6, <1>8, <2>3
  <2>5. Parsed(s, x) = Verdict(p, k, c)
    BY <2>2, <2>4, Outcome
  <2>6. parse_set_partition_authority(r) = Parsed(s, x)
    BY <2>1, <2>3 DEF parse_set_partition_authority
  <2>7. QED  BY <2>1, <2>5, <2>6
<1>10. Delivers(opcode_for["SetPartitionAuthority"], p, c)
  BY <1>7, <1>9, Opcodes DEF Delivers, ReadThree
<1>11. Fits(o, c)
  <2>1. a \in Nat /\ a < Size["u64"] /\ (m < Size["u64"] => a = m)
    BY <1>2, <1>4, Narrowing
  <2>2. IsOperation(c) /\ c.op = o.op
    <3>1. c \in [op : {"SetPartitionAuthority"}, partition : Nat, class : u64, domain : Scope]
      BY <1>2, <1>6, <2>1 DEF Scope
    <3>2. c.op = o.op
      BY <1>2, <1>6
    <3>3. QED  BY <3>1, <3>2 DEF IsOperation
  <2>3. Expressible(c)
    <3>1. IdsIn(c) = {a}
      BY <1>6 DEF IdsIn, IdsOf, IdFields
    <3>2. QED  BY <3>1, <2>1, <1>6 DEF Expressible
  <2>4. ASSUME Expressible(o) PROVE c = o
    <3>1. IdsIn(o) = {m}
      BY <1>2 DEF IdsIn, IdsOf, IdFields
    <3>2. m < Size["u64"] /\ z = 0
      BY <2>4, <3>1, <1>2 DEF Expressible
    <3>3. QED  BY <3>2, <2>1, <1>2, <1>6
  <2>5. QED  BY <2>2, <2>3, <2>4 DEF Fits
<1>12. QED  BY <1>2, <1>3, <1>10, <1>11 DEF Understood, Carried

Masks == {"wildcard", "attribute_only", "structural", "boundary"}

LEMMA Bytes ==
  ASSUME NEW n \in Nat
  PROVE  /\ n % Size["u8"] \in u64 /\ n % Size["u8"] < Size["u8"] /\ n % Size["u8"] \in Nat
         /\ n < Size["u8"] => n % Size["u8"] = n
         /\ n <= 11 => n % Size["u8"] = n
         /\ push("u8", n) \in Seq(Field)
<1>1. /\ Size["u8"] \in Nat /\ n % Size["u8"] \in 0 .. Size["u8"] - 1
      /\ n < Size["u8"] => n % Size["u8"] = n
      /\ push("u8", n) \in Seq(Field) /\ Size["u64"] \in Nat
  BY Words DEF Number
<1>2. Size["u8"] <= Size["u64"] /\ Size["u8"] > 11
  BY WireAssumption
<1>3. QED  BY <1>1, <1>2 DEF u64

LEMMA LabelOps ==
  ASSUME NEW o \in [op : {"SetEdgeLabel"}, src : Nat, tgt : Nat,
                    label : [class : u64, capability : u64, scope : Scope, mask : Masks]]
  PROVE  Carried(o)
<1>1. PICK m, n, d, h, e, z, y, p :
        /\ m = o.src /\ n = o.tgt /\ d = o.label.class /\ h = o.label.capability
        /\ e = o.label.scope.bits /\ z = o.label.scope.root /\ y = o.label.mask
        /\ p = Cat(Cat(Cat(Cat(push("u64", m), push("u64", n)), push("u64", d)), push("u8", h)), push("u64", e))
  OBVIOUS
<1>2. /\ m \in Nat /\ n \in Nat /\ d \in u64 /\ h \in u64 /\ e \in u64 /\ z \in Nat
      /\ o = [op |-> "SetEdgeLabel", src |-> m, tgt |-> n,
              label |-> [class |-> d, capability |-> h, scope |-> [bits |-> e, root |-> z], mask |-> y]]
  BY <1>1 DEF Scope
<1>3. write_payload(o) = p
  BY <1>1, <1>2 DEF write_payload, write_authority, push_uid, Cat
<1>4. PICK a, b, f, w, v : a = m % Size["u64"] /\ b = n % Size["u64"] /\ f = h % Size["u8"] /\ w = "u64" /\ v = "u8"
  OBVIOUS
<1>5. d \in Nat /\ e \in Nat /\ h \in Nat /\ d % Size["u64"] = d /\ e % Size["u64"] = e
  <2>1. d \in Nat /\ e \in Nat /\ h \in Nat
    BY <1>2 DEF u64
  <2>2. QED  BY <1>2, <2>1, Narrowing
<1>6. PICK c : c = [op |-> "SetEdgeLabel", src |-> a, tgt |-> b,
                    label |-> [class |-> d, capability |-> f, scope |-> [bits |-> e, root |-> 0], mask |-> "wildcard"]]
  OBVIOUS
<1>7. ReadFive(p, w, m, w, n, w, d, v, h, w, e)
  <2>1. WrittenFive(p, w, m, w, n, w, d, v, h, w, e)
    BY <1>1, <1>2, <1>4, <1>5 DEF WrittenFive, Number
  <2>2. QED  BY <2>1, WholeFive
<1>8. PICK g : /\ g[1] = m % Size[w] /\ g[2] = n % Size[w] /\ g[3] = d % Size[w] /\ g[4] = h % Size[v] /\ g[5] = e % Size[w]
               /\ \A k \in 0 .. Len(p) : Reached(read_all(Reader(SubSeq(p, 1, k)), <<w, w, w, v, w>>), p, 0, p, k, g)
  BY <1>7 DEF ReadFive
<1>9. ASSUME NEW k \in 0 .. Len(p)
      PROVE  parse_set_edge_label(Reader(SubSeq(p, 1, k))) = Verdict(p, k, c)
  <2>1. PICK r, s : r = Reader(SubSeq(p, 1, k)) /\ s = read_all(r, <<"u64", "u64", "u64", "u8", "u64">>)
    OBVIOUS
  <2>2. Reached(s, p, 0, p, k, g)
    BY <1>4, <1>8, <2>1
  <2>3. PICK x : x = [op |-> "SetEdgeLabel", src |-> s.got[1], tgt |-> s.got[2],
                      label |-> [class |-> s.got[3], capability |-> s.got[4], mask |-> "wildcard",
                                 scope |-> [bits |-> s.got[5], root |-> 0]]]
    OBVIOUS
  <2>4. s.got = g => x = c
    BY <1>4, <1>5, <1>6, <1>8, <2>3
  <2>5. Parsed(s, x) = Verdict(p, k, c)
    BY <2>2, <2>4, Outcome
  <2>6. parse_set_edge_label(r) = Parsed(s, x)
    BY <2>1, <2>3 DEF parse_set_edge_label
  <2>7. QED  BY <2>1, <2>5, <2>6
<1>10. Delivers(opcode_for["SetEdgeLabel"], p, c)
  BY <1>7, <1>9, Opcodes DEF Delivers, ReadFive
<1>11. Fits(o, c)
  <2>1. /\ a \in Nat /\ a < Size["u64"] /\ b \in Nat /\ b < Size["u64"]
        /\ m < Size["u64"] => a = m
        /\ n < Size["u64"] => b = n
    BY <1>2, <1>4, Narrowing
  <2>f. f \in u64 /\ f < Size["u8"] /\ (h < Size["u8"] => f = h)
    BY <1>4, <1>5, Bytes
  <2>2. IsOperation(c) /\ c.op = o.op
    <3>1. c \in [op : {"SetEdgeLabel"}, src : Nat, tgt : Nat,
                 label : [class : u64, capability : u64, scope : Scope,
                          mask : {"wildcard", "attribute_only", "structural", "boundary"}]]
      BY <1>2, <1>6, <2>1, <2>f DEF Scope
    <3>2. c.op = o.op
      BY <1>2, <1>6
    <3>3. QED  BY <3>1, <3>2 DEF IsOperation
  <2>3. Expressible(c)
    <3>1. IdsIn(c) = {a, b}
      BY <1>6 DEF IdsIn, IdsOf, IdFields
    <3>2. QED  BY <3>1, <2>1, <2>f, <1>6 DEF Expressible, Narrow
  <2>4. ASSUME Expressible(o) PROVE c = o
    <3>1. IdsIn(o) = {m, n}
      BY <1>2 DEF IdsIn, IdsOf, IdFields
    <3>2. m < Size["u64"] /\ n < Size["u64"] /\ h < Size["u8"] /\ z = 0 /\ y = "wildcard"
      BY <2>4, <3>1, <1>2 DEF Expressible, Narrow
    <3>3. QED  BY <3>2, <2>1, <2>f, <1>2, <1>6
  <2>5. QED  BY <2>2, <2>3, <2>4 DEF Fits
<1>12. QED  BY <1>2, <1>3, <1>10, <1>11 DEF Understood, Carried

LEMMA Counts ==
  ASSUME NEW n \in Nat
  PROVE  /\ n % Size["u32"] < Size["u32"] /\ n % Size["u32"] \in Nat
         /\ n < Size["u32"] => n % Size["u32"] = n
         /\ push("u32", n) \in Seq(Field)
<1>1. /\ Size["u32"] \in Nat /\ n % Size["u32"] \in 0 .. Size["u32"] - 1
      /\ n < Size["u32"] => n % Size["u32"] = n
      /\ push("u32", n) \in Seq(Field)
  BY Words DEF Number
<1>2. QED  BY <1>1

Strategies == [kind : {"FullL3"}, mask : {0}] \cup [kind : {"Restricted"}, mask : Nat]

LEMMA StrategyByte ==
  ASSUME NEW s \in Strategies, NEW b, b = IF s.kind = "FullL3" THEN 0 ELSE s.mask,
         NEW t, t = StrategyOf(b % Size["u8"])
  PROVE  /\ b \in Nat /\ t \in Strategies
         /\ t.kind = "Restricted" => t.mask \in 1 .. Size["u8"] - 1
         /\ (s.kind = "Restricted" => s.mask \in 1 .. Size["u8"] - 1) => t = s
<1>1. b \in Nat
  BY DEF Strategies
<1>2. PICK f : f = b % Size["u8"]
  OBVIOUS
<1>3. f \in Nat /\ f < Size["u8"] /\ (b < Size["u8"] => f = b) /\ Size["u8"] \in Nat /\ Size["u8"] > 11
  BY <1>1, <1>2, Bytes, WireAssumption
<1>4. t = IF f = 0 THEN [kind |-> "FullL3", mask |-> 0] ELSE [kind |-> "Restricted", mask |-> f]
  BY <1>2 DEF StrategyOf
<1>5. t \in Strategies /\ (t.kind = "Restricted" => t.mask \in 1 .. Size["u8"] - 1)
  BY <1>3, <1>4 DEF Strategies
<1>6. ASSUME s.kind = "Restricted" => s.mask \in 1 .. Size["u8"] - 1 PROVE t = s
  <2>1. CASE s \in [kind : {"FullL3"}, mask : {0}]
    <3>1. s = [kind |-> "FullL3", mask |-> 0] /\ b = 0
      BY <2>1
    <3>2. f = 0
      BY <3>1, <1>3
    <3>3. QED  BY <3>1, <3>2, <1>4
  <2>2. CASE s \in [kind : {"Restricted"}, mask : Nat]
    <3>1. s = [kind |-> "Restricted", mask |-> b] /\ b \in 1 .. Size["u8"] - 1
      BY <2>2, <1>6
    <3>2. f = b /\ f # 0
      BY <3>1, <1>3
    <3>3. QED  BY <3>1, <3>2, <1>4
  <2>3. QED  BY <2>1, <2>2 DEF Strategies
<1>7. QED  BY <1>1, <1>5, <1>6

Domains == {"LocalOnly", "Federated", "Inherit"}
Convergences == {"Canonical", "Witness", "BudgetExhausted"}

LEMMA ConfigOps ==
  ASSUME NEW o \in [op : {"SetStabilizationConfig"}, node : Nat, strategy : Strategies,
                    domain : Domains, max_iterations : Nat, convergence : Convergences]
  PROVE  Carried(o)
<1>1. PICK m, s, y, n, z : m = o.node /\ s = o.strategy /\ y = o.domain /\ n = o.max_iterations /\ z = o.convergence
  OBVIOUS
<1>2. /\ m \in Nat /\ s \in Strategies /\ y \in Domains /\ n \in Nat /\ z \in Convergences
      /\ o = [op |-> "SetStabilizationConfig", node |-> m, strategy |-> s, domain |-> y,
              max_iterations |-> n, convergence |-> z]
  BY <1>1
<1>3. PICK b, d, e, t : /\ b = IF s.kind = "FullL3" THEN 0 ELSE s.mask
                        /\ d = [LocalOnly |-> 0, Federated |-> 1, Inherit |-> 2][y]
                        /\ e = [Canonical |-> 0, Witness |-> 1, BudgetExhausted |-> 2][z]
                        /\ t = StrategyOf(b % Size["u8"])
  OBVIOUS
<1>4. /\ d \in Nat /\ d <= 11
      /\ y = CASE d = 0 -> "LocalOnly" [] d = 1 -> "Federated" [] OTHER -> "Inherit"
      /\ e \in Nat /\ e <= 11
      /\ z = CASE e = 0 -> "Canonical" [] e = 1 -> "Witness" [] OTHER -> "BudgetExhausted"
  BY <1>2, <1>3 DEF Domains, Convergences
<1>5. /\ b \in Nat /\ t \in Strategies
      /\ t.kind = "Restricted" => t.mask \in 1 .. Size["u8"] - 1
      /\ (s.kind = "Restricted" => s.mask \in 1 .. Size["u8"] - 1) => t = s
  BY <1>2, <1>3, StrategyByte
<1>6. d % Size["u8"] = d /\ e % Size["u8"] = e
  BY <1>4, Bytes
<1>7. PICK a, f, w, v, u : a = m % Size["u64"] /\ f = n % Size["u32"] /\ w = "u64" /\ v = "u8" /\ u = "u32"
  OBVIOUS
<1>8. PICK p : p = Cat(Cat(Cat(Cat(push(w, m), push(v, b)), push(v, d)), push(u, n)), push(v, e))
  OBVIOUS
<1>9. write_payload(o) = p
  BY <1>2, <1>3, <1>7, <1>8 DEF write_payload, write_config, push_uid, Cat
<1>10. PICK c : c = [op |-> "SetStabilizationConfig", node |-> a, strategy |-> t, domain |-> y,
                     max_iterations |-> f, convergence |-> z]
  OBVIOUS
<1>11. ReadFive(p, w, m, v, b, v, d, u, n, v, e)
  <2>1. WrittenFive(p, w, m, v, b, v, d, u, n, v, e)
    BY <1>2, <1>4, <1>5, <1>7, <1>8 DEF WrittenFive, Number
  <2>2. QED  BY <2>1, WholeFive
<1>12. PICK g : /\ g[1] = m % Size[w] /\ g[2] = b % Size[v] /\ g[3] = d % Size[v] /\ g[4] = n % Size[u] /\ g[5] = e % Size[v]
                /\ \A k \in 0 .. Len(p) : Reached(read_all(Reader(SubSeq(p, 1, k)), <<w, v, v, u, v>>), p, 0, p, k, g)
  BY <1>11 DEF ReadFive
<1>13. ASSUME NEW k \in 0 .. Len(p)
       PROVE  parse_config(Reader(SubSeq(p, 1, k))) = Verdict(p, k, c)
  <2>1. PICK r, q : r = Reader(SubSeq(p, 1, k)) /\ q = read_all(r, <<"u64", "u8", "u8", "u32", "u8">>)
    OBVIOUS
  <2>2. Reached(q, p, 0, p, k, g)
    BY <1>7, <1>12, <2>1
  <2>3. PICK y1, z1 : /\ y1 = CASE q.got[3] = 0 -> "LocalOnly" [] q.got[3] = 1 -> "Federated" [] OTHER -> "Inherit"
                      /\ z1 = CASE q.got[5] = 0 -> "Canonical" [] q.got[5] = 1 -> "Witness" [] OTHER -> "BudgetExhausted"
    OBVIOUS
  <2>4. PICK x : x = [op |-> "SetStabilizationConfig", node |-> q.got[1],
                      strategy |-> StrategyOf(q.got[2]), max_iterations |-> q.got[4],
                      domain |-> y1, convergence |-> z1]
    OBVIOUS
  <2>5. q.got = g => x = c
    <3>1. q.got = g => q.got[1] = a /\ StrategyOf(q.got[2]) = t /\ q.got[3] = d /\ q.got[4] = f /\ q.got[5] = e
      BY <1>3, <1>6, <1>7, <1>12
    <3>2. q.got = g => y1 = y /\ z1 = z
      BY <3>1, <2>3, <1>4
    <3>3. QED  BY <3>1, <3>2, <2>4, <1>10
  <2>6. Parsed(q, x) = Verdict(p, k, c)
    BY <2>2, <2>5, Outcome
  <2>7. parse_config(r) = Parsed(q, x)
    BY <2>1, <2>3, <2>4 DEF parse_config
  <2>8. QED  BY <2>1, <2>6, <2>7
<1>14. Delivers(opcode_for["SetStabilizationConfig"], p, c)
  BY <1>11, <1>13, Opcodes DEF Delivers, ReadFive
<1>15. Fits(o, c)
  <2>1. a \in Nat /\ a < Size["u64"] /\ (m < Size["u64"] => a = m)
    BY <1>2, <1>7, Narrowing
  <2>2. f \in Nat /\ f < Size["u32"] /\ (n < Size["u32"] => f = n)
    BY <1>2, <1>7, Counts
  <2>3. IsOperation(c) /\ c.op = o.op
    <3>1. c \in [op : {"SetStabilizationConfig"}, node : Nat,
             strategy : [kind : {"FullL3"}, mask : {0}] \cup [kind : {"Restricted"}, mask : Nat],
             domain : {"LocalOnly", "Federated", "Inherit"}, max_iterations : Nat,
             convergence : {"Canonical", "Witness", "BudgetExhausted"}]
      BY <1>2, <1>5, <1>10, <2>1, <2>2 DEF Strategies, Domains, Convergences
    <3>2. c.op = o.op
      BY <1>2, <1>10
    <3>3. QED  BY <3>1, <3>2 DEF IsOperation
  <2>4. Expressible(c)
    <3>1. IdsIn(c) = {a}
      BY <1>10 DEF IdsIn, IdsOf, IdFields
    <3>2. QED  BY <3>1, <2>1, <2>2, <1>5, <1>10 DEF Expressible
  <2>5. ASSUME Expressible(o) PROVE c = o
    <3>1. IdsIn(o) = {m}
      BY <1>2 DEF IdsIn, IdsOf, IdFields
    <3>2. m < Size["u64"] /\ n < Size["u32"] /\ (s.kind = "Restricted" => s.mask \in 1 .. Size["u8"] - 1)
      BY <2>5, <3>1, <1>2 DEF Expressible
    <3>3. QED  BY <3>2, <2>1, <2>2, <1>2, <1>5, <1>10
  <2>6. QED  BY <2>3, <2>4, <2>5 DEF Fits
<1>16. QED  BY <1>2, <1>9, <1>14, <1>15 DEF Understood, Carried

Retries == [kind : {"Fail"}, attempts : {0}] \cup [kind : {"Retry"}, attempts : Nat]
Priorities == {"Normal", "High", "Low"}

LEMMA PolicyOps ==
  ASSUME NEW o \in [op : {"SetExecutionPolicy"}, node : Nat, priority : Priorities, retry : Retries]
  PROVE  Carried(o)
<1>1. PICK m, y, z : m = o.node /\ y = o.priority /\ z = o.retry
  OBVIOUS
<1>2. /\ m \in Nat /\ y \in Priorities /\ z \in Retries
      /\ o = [op |-> "SetExecutionPolicy", node |-> m, priority |-> y, retry |-> z]
  BY <1>1
<1>3. PICK d, e, t : /\ d = [Normal |-> 0, High |-> 1, Low |-> 2][y]
                     /\ e = [Fail |-> 0, Retry |-> 1][z.kind]
                     /\ t = IF e = 1 THEN [kind |-> "Retry", attempts |-> 3] ELSE [kind |-> "Fail", attempts |-> 0]
  OBVIOUS
<1>4. /\ d \in Nat /\ d <= 11 /\ y = CASE d = 1 -> "High" [] d = 2 -> "Low" [] OTHER -> "Normal"
  BY <1>2, <1>3 DEF Priorities
<1>5. /\ e \in Nat /\ e <= 11 /\ t \in Retries /\ (t.kind = "Retry" => t.attempts = 3)
      /\ (z.kind = "Retry" => z.attempts = 3) => t = z
  <2>1. CASE z \in [kind : {"Fail"}, attempts : {0}]
    <3>1. z = [kind |-> "Fail", attempts |-> 0]
      BY <2>1
    <3>2. e = 0 /\ t = z
      BY <3>1, <1>3
    <3>3. QED  BY <3>1, <3>2 DEF Retries
  <2>2. CASE z \in [kind : {"Retry"}, attempts : Nat]
    <3>1. z = [kind |-> "Retry", attempts |-> z.attempts]
      BY <2>2
    <3>2. e = 1 /\ t = [kind |-> "Retry", attempts |-> 3]
      BY <3>1, <1>3
    <3>3. QED  BY <3>1, <3>2 DEF Retries
  <2>3. QED  BY <2>1, <2>2, <1>2 DEF Retries
<1>6. d % Size["u8"] = d /\ e % Size["u8"] = e
  BY <1>4, <1>5, Bytes
<1>7. PICK a, w, v : a = m % Size["u64"] /\ w = "u64" /\ v = "u8"
  OBVIOUS
<1>8. PICK p : p = Cat(Cat(push(w, m), push(v, d)), push(v, e))
  OBVIOUS
<1>9. write_payload(o) = p
  BY <1>2, <1>3, <1>7, <1>8 DEF write_payload, write_policy, push_uid, Cat
<1>10. PICK c : c = [op |-> "SetExecutionPolicy", node |-> a, priority |-> y, retry |-> t]
  OBVIOUS
<1>11. ReadThree(p, w, m, v, d, v, e)
  <2>1. WrittenThree(p, w, m, v, d, v, e)
    BY <1>2, <1>4, <1>5, <1>7, <1>8 DEF WrittenThree, Number
  <2>2. QED  BY <2>1, WholeThree
<1>12. PICK g : /\ g[1] = m % Size[w] /\ g[2] = d % Size[v] /\ g[3] = e % Size[v]
                /\ \A k \in 0 .. Len(p) : Reached(read_all(Reader(SubSeq(p, 1, k)), <<w, v, v>>), p, 0, p, k, g)
  BY <1>11 DEF ReadThree
<1>13. ASSUME NEW k \in 0 .. Len(p)
       PROVE  parse_policy(Reader(SubSeq(p, 1, k))) = Verdict(p, k, c)
  <2>1. PICK r, q : r = Reader(SubSeq(p, 1, k)) /\ q = read_all(r, <<"u64", "u8", "u8">>)
    OBVIOUS
  <2>2. Reached(q, p, 0, p, k, g)
    BY <1>7, <1>12, <2>1
  <2>3. PICK y1, z1 : /\ y1 = CASE q.got[2] = 1 -> "High" [] q.got[2] = 2 -> "Low" [] OTHER -> "Normal"
                      /\ z1 = IF q.got[3] = 1 THEN [kind |-> "Retry", attempts |-> 3] ELSE [kind |-> "Fail", attempts |-> 0]
    OBVIOUS
  <2>4. PICK x : x = [op |-> "SetExecutionPolicy", node |-> q.got[1], priority |-> y1, retry |-> z1]
    OBVIOUS
  <2>5. q.got = g => x = c
    <3>1. q.got = g => q.got[1] = a /\ q.got[2] = d /\ q.got[3] = e
      BY <1>6, <1>7, <1>12
    <3>2. q.got = g => y1 = y /\ z1 = t
      BY <3>1, <2>3, <1>3, <1>4
    <3>3. QED  BY <3>1, <3>2, <2>4, <1>10
  <2>6. Parsed(q, x) = Verdict(p, k, c)
    BY <2>2, <2>5, Outcome
  <2>7. parse_policy(r) = Parsed(q, x)
    BY <2>1, <2>3, <2>4 DEF parse_policy
  <2>8. QED  BY <2>1, <2>6, <2>7
<1>14. Delivers(opcode_for["SetExecutionPolicy"], p, c)
  BY <1>11, <1>13, Opcodes DEF Delivers, ReadThree
<1>15. Fits(o, c)
  <2>1. a \in Nat /\ a < Size["u64"] /\ (m < Size["u64"] => a = m)
    BY <1>2, <1>7, Narrowing
  <2>3. IsOperation(c) /\ c.op = o.op
    <3>1. c \in [op : {"SetExecutionPolicy"}, node : Nat, priority : {"Normal", "High", "Low"},
             retry : [kind : {"Fail"}, attempts : {0}] \cup [kind : {"Retry"}, attempts : Nat]]
      BY <1>2, <1>5, <1>10, <2>1 DEF Retries, Priorities
    <3>2. c.op = o.op
      BY <1>2, <1>10
    <3>3. QED  BY <3>1, <3>2 DEF IsOperation
  <2>4. Expressible(c)
    <3>1. IdsIn(c) = {a}
      BY <1>10 DEF IdsIn, IdsOf, IdFields
    <3>2. QED  BY <3>1, <2>1, <1>5, <1>10 DEF Expressible
  <2>5. ASSUME Expressible(o) PROVE c = o
    <3>1. IdsIn(o) = {m}
      BY <1>2 DEF IdsIn, IdsOf, IdFields
    <3>2. m < Size["u64"] /\ (z.kind = "Retry" => z.attempts = 3)
      BY <2>5, <3>1, <1>2 DEF Expressible
    <3>3. QED  BY <3>2, <2>1, <1>2, <1>5, <1>10
  <2>6. QED  BY <2>3, <2>4, <2>5 DEF Fits
<1>16. QED  BY <1>2, <1>9, <1>14, <1>15 DEF Understood, Carried

LEMMA NarrowedIds ==
  ASSUME NEW ids, IsList(ids)
  PROVE  /\ IsList(Narrowed(ids)) /\ (Narrowed(ids) = <<>> <=> ids = <<>>)
         /\ \A x \in ToSet(Narrowed(ids)) : x < Size["u64"]
         /\ (\A x \in ToSet(ids) : x < Size["u64"]) => Narrowed(ids) = ids
         /\ push_uids(ids) \in Seq(Field)
<1>1. ids \in Seq(Nat) /\ Len(ids) < Size["u32"] /\ Len(ids) \in Nat /\ DOMAIN ids = 1 .. Len(ids)
  BY LenProperties DEF IsList
<1>2. PICK n, h : n = Len(ids) /\ h = Narrowed(ids)
  OBVIOUS
<1>3. /\ h \in Seq(Nat) /\ Len(h) = n /\ push_uids(ids) \in Seq(Field)
      /\ \A j \in 1 .. n : h[j] = ids[j] % Size["u64"]
  BY <1>1, <1>2, ListsOfIds
<1>4. DOMAIN h = 1 .. n /\ \A j \in 1 .. n : ids[j] \in Nat
  BY <1>1, <1>2, <1>3, LenProperties, ElementOfSeq
<1>5. IsList(h)
  BY <1>1, <1>2, <1>3 DEF IsList
<1>6. h = <<>> <=> ids = <<>>
  BY <1>1, <1>2, <1>3, EmptySeq
<1>7. ASSUME NEW x \in ToSet(h) PROVE x < Size["u64"]
  <2>1. PICK j \in 1 .. n : x = h[j]
    BY <1>4, <1>7 DEF ToSet
  <2>2. PICK m : m = ids[j]
    OBVIOUS
  <2>3. m \in Nat /\ x = m % Size["u64"]
    BY <2>1, <2>2, <1>3, <1>4
  <2>4. m % Size["u64"] < Size["u64"]
    BY <2>3, Narrowing
  <2>5. QED  BY <2>3, <2>4
<1>8. ASSUME \A x \in ToSet(ids) : x < Size["u64"] PROVE h = ids
  <2>1. ASSUME NEW j \in 1 .. n PROVE h[j] = ids[j]
    <3>1. ids[j] \in ToSet(ids)
      BY <1>1, <1>2 DEF ToSet
    <3>2. ids[j] < Size["u64"] /\ ids[j] \in Nat
      BY <3>1, <1>4, <1>8
    <3>3. ids[j] % Size["u64"] = ids[j]
      BY <3>2, Narrowing
    <3>4. QED  BY <3>3, <1>3
  <2>2. QED  BY <2>1, <1>1, <1>2, <1>3, SeqEqual
<1>9. QED  BY <1>2, <1>3, <1>5, <1>6, <1>7, <1>8

LEMMA StabilizeOps ==
  ASSUME NEW o \in [op : {"Stabilize"}, all : BOOLEAN, ids : Seq(Nat)], IsList(o.ids)
  PROVE  Carried(o)
<1>1. PICK y, z, ids, h : y = o.all /\ z = o.ids /\ ids = (IF y THEN <<>> ELSE z) /\ h = Narrowed(ids)
  OBVIOUS
<1>2. y \in BOOLEAN /\ z \in Seq(Nat) /\ o = [op |-> "Stabilize", all |-> y, ids |-> z]
  BY <1>1
<1>3. IsList(ids)
  <2>1. <<>> \in Seq(Nat) /\ Len(<<>>) = 0 /\ Size["u32"] \in Nat \ {0}
    BY EmptySeq, Words DEF Number
  <2>2. IsList(<<>>)
    BY <2>1 DEF IsList
  <2>3. QED  BY <2>2, <1>1
<1>4. PICK p : p = push_uids(ids)
  OBVIOUS
<1>5. /\ IsList(h) /\ (h = <<>> <=> ids = <<>>) /\ h \in Seq(Nat)
      /\ \A x \in ToSet(h) : x < Size["u64"]
      /\ (\A x \in ToSet(ids) : x < Size["u64"]) => h = ids
      /\ p \in Seq(Field)
  BY <1>1, <1>3, <1>4, NarrowedIds DEF IsList
<1>6. write_payload(o) = p
  <2>1. CASE y
    <3>1. ids = <<>> /\ Len(ids) = 0
      BY <1>1, <2>1, EmptySeq
    <3>2. [i \in 1 .. Len(ids) |-> word("u64", ids[i])] = <<>>
      BY <3>1
    <3>3. push("u32", 0) \o <<>> = push("u32", 0)
      <4>1. push("u32", 0) \in Seq(Field)
        BY Counts
      <4>2. QED  BY <4>1, ConcatEmptySeq
    <3>4. p = push("u32", 0)
      BY <3>1, <3>2, <3>3, <1>4 DEF push_uids
    <3>5. QED  BY <3>4, <2>1, <1>2 DEF write_payload, write_stabilize
  <2>2. CASE ~y
    BY <2>2, <1>1, <1>2, <1>4 DEF write_payload, write_stabilize
  <2>3. QED  BY <2>1, <2>2
<1>7. PICK b, c : b = (h = <<>>) /\ c = [op |-> "Stabilize", all |-> b, ids |-> h]
  OBVIOUS
<1>8. PICK g : g = Add(<<>>, h)
  OBVIOUS
<1>9. Last(g) = h
  BY <1>8, ListedTuples, Adds
<1>10. ASSUME NEW k \in 0 .. Len(p)
       PROVE  parse_stabilize(Reader(SubSeq(p, 1, k))) = Verdict(p, k, c)
  <2>1. PICK r, s : r = Reader(SubSeq(p, 1, k)) /\ s = read_uids(r)
    OBVIOUS
  <2>2. Reached(s, p, 0, p, k, g)
    <3>1. Reached(r, p, 0, <<>>, k, <<>>) /\ Lies(p, 0, p) /\ Cat(<<>>, p) = p
      BY <1>5, <2>1, Payloads
    <3>2. Lies(p, 0, Cat(<<>>, push_uids(ids)))
      BY <3>1, <1>4
    <3>3. Reached(s, p, 0, Cat(<<>>, push_uids(ids)), k, Add(<<>>, Narrowed(ids)))
      BY <1>3, <2>1, <3>1, <3>2, NextUids
    <3>4. QED  BY <3>1, <3>3, <1>1, <1>4, <1>8
  <2>3. PICK x : x = [op |-> "Stabilize", all |-> Read(s) = <<>>, ids |-> Read(s)]
    OBVIOUS
  <2>4. s.got = g => x = c
    BY <1>7, <1>9, <2>3 DEF Read
  <2>5. Parsed(s, x) = Verdict(p, k, c)
    BY <2>2, <2>4, Outcome
  <2>6. parse_stabilize(r) = Parsed(s, x)
    BY <2>1, <2>3 DEF parse_stabilize
  <2>7. QED  BY <2>1, <2>5, <2>6
<1>11. Delivers(opcode_for["Stabilize"], p, c)
  BY <1>5, <1>10, Opcodes DEF Delivers
<1>12. Fits(o, c)
  <2>1. b \in BOOLEAN /\ c.op = "Stabilize" /\ c.all = b /\ c.ids = h
    BY <1>7
  <2>2. IsOperation(c) /\ c.op = o.op
    <3>1. c \in [op : {"Stabilize"}, all : BOOLEAN, ids : Seq(Nat)] /\ IsList(c.ids)
      BY <1>5, <1>7, <2>1
    <3>2. QED  BY <3>1, <2>1, <1>2 DEF IsOperation
  <2>3. Expressible(c)
    <3>1. IdsIn(c) = ToSet(h)
      BY <1>7 DEF IdsIn, IdsOf, IdFields
    <3>2. QED  BY <3>1, <2>1, <1>5, <1>7 DEF Expressible
  <2>4. ASSUME Expressible(o) PROVE c = o
    <3>1. IdsIn(o) = ToSet(z)
      BY <1>2 DEF IdsIn, IdsOf, IdFields
    <3>2. (\A x \in ToSet(z) : x < Size["u64"]) /\ (y <=> z = <<>>)
      BY <2>4, <3>1, <1>2 DEF Expressible
    <3>3. ids = z
      BY <3>2, <1>1
    <3>4. h = z /\ b = y
      BY <3>2, <3>3, <1>2, <1>5, <1>7
    <3>5. QED  BY <3>4, <1>2, <1>7
  <2>5. QED  BY <2>2, <2>3, <2>4 DEF Fits
<1>13. QED  BY <1>2, <1>6, <1>11, <1>12 DEF Understood, Carried

-----------------------------------------------------------------------------
(* Boundaries of regions *)

\* The boundary that is received for a boundary.
HeardBoundary(b) ==
  CASE b.how = "DepClosure"      -> [how |-> "DepClosure", max_depth |-> b.max_depth % Size["u32"]]
    [] b.how = "ExplicitSet"     -> [how |-> "ExplicitSet", nodes |-> Narrowed(b.nodes)]
    [] b.how = "PartitionScoped" -> [how |-> "PartitionScoped", partition |-> b.partition % Size["u64"]]

\* A pair of things read made into one.
LEMMA MadeOf ==
  ASSUME NEW p, NEW i \in Nat, NEW k \in Int, NEW got, Listed(got), NEW n, NEW m,
         NEW d, Took(d, p, i, k, Add(Add(got, n), m)), NEW x, NEW y, Read(d) = m => x = y
  PROVE  Took(Made(d, 2, x), p, i, k, Add(got, y))
<1>1. Last(Add(Add(got, n), m)) = m
  BY Adds
<1>2. i <= k => x = y
  BY <1>1, TookGot
<1>3. QED  BY <1>2, MadeTwo

LEMMA TookDepth ==
  ASSUME NEW p, NEW k, Payload(p, k), NEW i \in Nat, NEW got, Listed(got), NEW r, Took(r, p, i, k, got),
         NEW n \in Nat, NEW F, F = push("u32", n), Lies(p, i, Cat(push("u8", 0), F)),
         NEW y, y = [how |-> "DepClosure", max_depth |-> n % Size["u32"]]
  PROVE  Took(read_boundary(r), p, i + 2, k, Add(got, y))
<1>p. k \in Int
  BY DEF Payload
<1>1. F \in Seq(Field)
  BY Counts
<1>2. PICK b, d : b = read(r, "u8") /\ d = read(b, "u32")
  OBVIOUS
<1>3. /\ Lies(p, i + 1, F) /\ Took(b, p, i + 1, k, Add(got, 0)) /\ Listed(Add(got, 0))
      /\ b.err = "None" => Read(b) = 0
  <2>1. 0 \in 0 .. 11 /\ Lies(p, i, push("u8", 0) \o F)
    BY DEF Cat
  <2>2. QED  BY <2>1, <1>1, <1>2, TookTag
<1>q. PICK q, j : q = i + 1 /\ j = i + 2
  OBVIOUS
<1>4. q \in Nat /\ j \in Nat /\ q <= j /\ j = q + 1
  BY <1>q
<1>5. Took(b, p, q, k, Add(got, 0)) /\ Lies(p, q, push("u32", n))
  BY <1>3, <1>q
<1>6. CASE b.err # "None"
  <2>1. read_boundary(r) = b
    BY <1>2, <1>6 DEF read_boundary
  <2>2. Took(b, p, j, k, Add(got, y))
    BY <1>4, <1>5, <1>6, <1>p, TookLate
  <2>3. QED  BY <1>q, <2>1, <2>2
<1>7. CASE b.err = "None"
  <2>1. Took(d, p, j, k, Add(Add(got, 0), n % Size["u32"]))
    BY <1>2, <1>4, <1>5, TookWord DEF Number
  <2>2. PICK x : x = [how |-> "DepClosure", max_depth |-> Read(d)]
    OBVIOUS
  <2>3. Took(Made(d, 2, x), p, j, k, Add(got, y))
    <3>1. Read(d) = n % Size["u32"] => x = y
      BY <2>2
    <3>2. QED  BY <3>1, <2>1, <1>4, <1>p, MadeOf
  <2>4. read_boundary(r) = Made(d, 2, x)
    BY <1>2, <1>3, <1>7, <2>2 DEF read_boundary
  <2>5. QED  BY <1>q, <2>3, <2>4
<1>8. QED  BY <1>6, <1>7

LEMMA TookPartition ==
  ASSUME NEW p, NEW k, Payload(p, k), NEW i \in Nat, NEW got, Listed(got), NEW r, Took(r, p, i, k, got),
         NEW n \in Nat, NEW F, F = push("u64", n), Lies(p, i, Cat(push("u8", 2), F)),
         NEW y, y = [how |-> "PartitionScoped", partition |-> n % Size["u64"]]
  PROVE  Took(read_boundary(r), p, i + 2, k, Add(got, y))
<1>p. k \in Int
  BY DEF Payload
<1>1. F \in Seq(Field)
  BY Narrowing
<1>2. PICK b, d : b = read(r, "u8") /\ d = read(b, "u64")
  OBVIOUS
<1>3. /\ Lies(p, i + 1, F) /\ Took(b, p, i + 1, k, Add(got, 2)) /\ Listed(Add(got, 2))
      /\ b.err = "None" => Read(b) = 2
  <2>1. 2 \in 0 .. 11 /\ Lies(p, i, push("u8", 2) \o F)
    BY DEF Cat
  <2>2. QED  BY <2>1, <1>1, <1>2, TookTag
<1>q. PICK q, j : q = i + 1 /\ j = i + 2
  OBVIOUS
<1>4. q \in Nat /\ j \in Nat /\ q <= j /\ j = q + 1
  BY <1>q
<1>5. Took(b, p, q, k, Add(got, 2)) /\ Lies(p, q, push("u64", n))
  BY <1>3, <1>q
<1>6. CASE b.err # "None"
  <2>1. read_boundary(r) = b
    BY <1>2, <1>6 DEF read_boundary
  <2>2. Took(b, p, j, k, Add(got, y))
    BY <1>4, <1>5, <1>6, <1>p, TookLate
  <2>3. QED  BY <1>q, <2>1, <2>2
<1>7. CASE b.err = "None"
  <2>1. Took(d, p, j, k, Add(Add(got, 2), n % Size["u64"]))
    BY <1>2, <1>4, <1>5, TookWord DEF Number
  <2>2. PICK x : x = [how |-> "PartitionScoped", partition |-> Read(d)]
    OBVIOUS
  <2>3. Took(Made(d, 2, x), p, j, k, Add(got, y))
    <3>1. Read(d) = n % Size["u64"] => x = y
      BY <2>2
    <3>2. QED  BY <3>1, <2>1, <1>4, <1>p, MadeOf
  <2>4. read_boundary(r) = Made(d, 2, x)
    BY <1>2, <1>3, <1>7, <2>2 DEF read_boundary
  <2>5. QED  BY <1>q, <2>3, <2>4
<1>8. QED  BY <1>6, <1>7

LEMMA TookNodes ==
  ASSUME NEW p, NEW k, Payload(p, k), NEW i \in Nat, NEW got, Listed(got), NEW r, Took(r, p, i, k, got),
         NEW ids, IsList(ids), NEW F, F = push_uids(ids), Lies(p, i, Cat(push("u8", 1), F)),
         NEW y, y = [how |-> "ExplicitSet", nodes |-> Narrowed(ids)]
  PROVE  Took(read_boundary(r), p, i + 1 + Len(F), k, Add(got, y))
<1>p. k \in Int
  BY DEF Payload
<1>1. F \in Seq(Field) /\ Len(F) \in Nat
  BY NarrowedIds, LenProperties
<1>2. PICK b, d : b = read(r, "u8") /\ d = read_uids(b)
  OBVIOUS
<1>3. /\ Lies(p, i + 1, F) /\ Took(b, p, i + 1, k, Add(got, 1)) /\ Listed(Add(got, 1))
      /\ b.err = "None" => Read(b) = 1
  <2>1. 1 \in 0 .. 11 /\ Lies(p, i, push("u8", 1) \o F)
    BY DEF Cat
  <2>2. QED  BY <2>1, <1>1, <1>2, TookTag
<1>q. PICK q, j : q = i + 1 /\ j = i + 1 + Len(F)
  OBVIOUS
<1>4. q \in Nat /\ j \in Nat /\ q <= j /\ j = q + Len(push_uids(ids))
  BY <1>1, <1>q
<1>5. Took(b, p, q, k, Add(got, 1)) /\ Lies(p, q, push_uids(ids))
  BY <1>3, <1>q
<1>6. CASE b.err # "None"
  <2>1. read_boundary(r) = b
    BY <1>2, <1>6 DEF read_boundary
  <2>2. Took(b, p, j, k, Add(got, y))
    BY <1>4, <1>5, <1>6, <1>p, TookLate
  <2>3. QED  BY <1>q, <2>1, <2>2
<1>7. CASE b.err = "None"
  <2>1. Took(d, p, j, k, Add(Add(got, 1), Narrowed(ids)))
    BY <1>2, <1>3, <1>4, <1>5, TookUids
  <2>2. PICK x : x = [how |-> "ExplicitSet", nodes |-> Read(d)]
    OBVIOUS
  <2>3. Took(Made(d, 2, x), p, j, k, Add(got, y))
    <3>1. Read(d) = Narrowed(ids) => x = y
      BY <2>2
    <3>2. QED  BY <3>1, <2>1, <1>4, <1>p, MadeOf
  <2>4. read_boundary(r) = Made(d, 2, x)
    BY <1>2, <1>3, <1>7, <2>2 DEF read_boundary
  <2>5. QED  BY <1>q, <2>3, <2>4
<1>8. QED  BY <1>6, <1>7

LEMMA NextBoundary ==
  ASSUME NEW p, NEW k, NEW i, NEW P, NEW got, NEW r, Reached(r, p, i, P, k, got),
         NEW b, IsBoundary(b), Lies(p, i, Cat(P, push_boundary(b)))
  PROVE  Reached(read_boundary(r), p, i, Cat(P, push_boundary(b)), k, Add(got, HeardBoundary(b)))
<1>1. PICK F, s, y : F = push_boundary(b) /\ s = read_boundary(r) /\ y = HeardBoundary(b)
  OBVIOUS
<1>0. Payload(p, k) /\ Listed(got)
  BY DEF Reached
<1>2. /\ F \in Seq(Field)
      /\ \A j \in Nat : Took(r, p, j, k, got) /\ Lies(p, j, F) => Took(s, p, j + Len(F), k, Add(got, y))
  <2>1. CASE b \in [how : {"DepClosure"}, max_depth : Nat]
    <3>1. PICK n, A, G : n = b.max_depth /\ A = push("u8", 0) /\ G = push("u32", n)
      OBVIOUS
    <3>2. /\ n \in Nat /\ F = Cat(A, G) /\ y = [how |-> "DepClosure", max_depth |-> n % Size["u32"]]
      BY <1>1, <2>1, <3>1 DEF push_boundary, HeardBoundary, Cat
    <3>3. A \in Seq(Field) /\ G \in Seq(Field) /\ Len(A) = 1 /\ Len(G) = 1
      BY <3>1, <3>2, Words DEF Number
    <3>4. F \in Seq(Field) /\ Len(F) = 2
      <4>1. Cat(A, G) \in Seq(Field) /\ Len(Cat(A, G)) = Len(A) + Len(G)
        BY <3>3, CatApart
      <4>2. QED  BY <4>1, <3>2, <3>3
    <3>5. ASSUME NEW j \in Nat, Took(r, p, j, k, got), Lies(p, j, F) PROVE Took(s, p, j + 2, k, Add(got, y))
      <4>1. Lies(p, j, Cat(push("u8", 0), G))
        BY <3>1, <3>2, <3>5
      <4>2. QED  BY <4>1, <1>0, <1>1, <3>1, <3>2, <3>5, TookDepth
    <3>6. QED  BY <3>4, <3>5
  <2>2. CASE b \in [how : {"PartitionScoped"}, partition : Nat]
    <3>1. PICK n, A, G : n = b.partition /\ A = push("u8", 2) /\ G = push("u64", n)
      OBVIOUS
    <3>2. /\ n \in Nat /\ F = Cat(A, G) /\ y = [how |-> "PartitionScoped", partition |-> n % Size["u64"]]
      BY <1>1, <2>2, <3>1 DEF push_boundary, HeardBoundary, Cat, push_uid
    <3>3. A \in Seq(Field) /\ G \in Seq(Field) /\ Len(A) = 1 /\ Len(G) = 1
      BY <3>1, <3>2, Words DEF Number
    <3>4. F \in Seq(Field) /\ Len(F) = 2
      <4>1. Cat(A, G) \in Seq(Field) /\ Len(Cat(A, G)) = Len(A) + Len(G)
        BY <3>3, CatApart
      <4>2. QED  BY <4>1, <3>2, <3>3
    <3>5. ASSUME NEW j \in Nat, Took(r, p, j, k, got), Lies(p, j, F) PROVE Took(s, p, j + 2, k, Add(got, y))
      <4>1. Lies(p, j, Cat(push("u8", 2), G))
        BY <3>1, <3>2, <3>5
      <4>2. QED  BY <4>1, <1>0, <1>1, <3>1, <3>2, <3>5, TookPartition
    <3>6. QED  BY <3>4, <3>5
  <2>3. CASE b \in [how : {"ExplicitSet"}, nodes : Seq(Nat)] /\ IsList(b.nodes)
    <3>1. PICK ids, A, G : ids = b.nodes /\ A = push("u8", 1) /\ G = push_uids(ids)
      OBVIOUS
    <3>2. /\ IsList(ids) /\ F = Cat(A, G) /\ y = [how |-> "ExplicitSet", nodes |-> Narrowed(ids)]
      BY <1>1, <2>3, <3>1 DEF push_boundary, HeardBoundary, Cat
    <3>3. A \in Seq(Field) /\ G \in Seq(Field) /\ Len(A) = 1 /\ Len(G) \in Nat
      <4>1. A \in Seq(Field) /\ Len(A) = 1
        BY <3>1, Words DEF Number
      <4>2. G \in Seq(Field)
        BY <3>1, <3>2, NarrowedIds
      <4>3. QED  BY <4>1, <4>2, LenProperties
    <3>4. F \in Seq(Field) /\ Len(F) = 1 + Len(G)
      BY <3>2, <3>3, CatApart
    <3>5. ASSUME NEW j \in Nat, Took(r, p, j, k, got), Lies(p, j, F) PROVE Took(s, p, j + 1 + Len(G), k, Add(got, y))
      <4>1. Lies(p, j, Cat(push("u8", 1), G))
        BY <3>1, <3>2, <3>5
      <4>2. QED  BY <4>1, <1>0, <1>1, <3>1, <3>2, <3>5, TookNodes
    <3>6. ASSUME NEW j \in Nat PROVE j + 1 + Len(G) = j + Len(F)
      BY <3>3, <3>4
    <3>7. QED  BY <3>4, <3>5, <3>6
  <2>4. QED  BY <2>1, <2>2, <2>3 DEF IsBoundary
<1>3. Lies(p, i, Cat(P, F))
  BY <1>1
<1>4. Reached(s, p, i, Cat(P, F), k, Add(got, y))
  BY <1>2, <1>3, Onwards
<1>5. QED  BY <1>1, <1>4

LEMMA Boundaries ==
  ASSUME NEW b, IsBoundary(b)
  PROVE  push_boundary(b) \in Seq(Field)
<1>1. CASE b \in [how : {"DepClosure"}, max_depth : Nat]
  <2>1. PICK n : n = b.max_depth
    OBVIOUS
  <2>2. n \in Nat /\ push_boundary(b) = push("u8", 0) \o push("u32", n)
    BY <1>1, <2>1 DEF push_boundary
  <2>3. push("u8", 0) \in Seq(Field) /\ push("u32", n) \in Seq(Field)
    BY <2>2, Words DEF Number
  <2>4. push("u8", 0) \o push("u32", n) \in Seq(Field)
    BY <2>3, ConcatProperties
  <2>5. QED  BY <2>2, <2>4
<1>2. CASE b \in [how : {"PartitionScoped"}, partition : Nat]
  <2>1. PICK n : n = b.partition
    OBVIOUS
  <2>2. n \in Nat /\ push_boundary(b) = push("u8", 2) \o push("u64", n)
    BY <1>2, <2>1 DEF push_boundary, push_uid
  <2>3. push("u8", 2) \in Seq(Field) /\ push("u64", n) \in Seq(Field)
    BY <2>2, Words DEF Number
  <2>4. push("u8", 2) \o push("u64", n) \in Seq(Field)
    BY <2>3, ConcatProperties
  <2>5. QED  BY <2>2, <2>4
<1>3. CASE b \in [how : {"ExplicitSet"}, nodes : Seq(Nat)] /\ IsList(b.nodes)
  <2>1. PICK ids : ids = b.nodes
    OBVIOUS
  <2>2. IsList(ids) /\ push_boundary(b) = push("u8", 1) \o push_uids(ids)
    BY <1>3, <2>1 DEF push_boundary
  <2>3. push("u8", 1) \in Seq(Field) /\ push_uids(ids) \in Seq(Field)
    BY <2>2, Words, NarrowedIds DEF Number
  <2>4. push("u8", 1) \o push_uids(ids) \in Seq(Field)
    BY <2>3, ConcatProperties
  <2>5. QED  BY <2>2, <2>4
<1>4. QED  BY <1>1, <1>2, <1>3 DEF IsBoundary

\* That the format has room for a boundary.
RoomFor(b) ==
  /\ \A x \in IdsOf(b) : x < Size["u64"]
  /\ b.how = "DepClosure" => b.max_depth < Size["u32"]
  /\ b.how = "ExplicitSet" => \A x \in ToSet(b.nodes) : x < Size["u64"]

LEMMA BoundariesFit ==
  ASSUME NEW b, IsBoundary(b), NEW y, y = HeardBoundary(b)
  PROVE  IsBoundary(y) /\ RoomFor(y) /\ (RoomFor(b) => y = b)
<1>1. CASE b \in [how : {"DepClosure"}, max_depth : Nat]
  <2>1. PICK n, m : n = b.max_depth /\ m = n % Size["u32"]
    OBVIOUS
  <2>2. n \in Nat /\ b = [how |-> "DepClosure", max_depth |-> n] /\ y = [how |-> "DepClosure", max_depth |-> m]
    BY <1>1, <2>1 DEF HeardBoundary
  <2>3. m \in Nat /\ m < Size["u32"] /\ (n < Size["u32"] => m = n)
    BY <2>1, <2>2, Counts
  <2>4. IdsOf(y) = {}
    BY <2>2 DEF IdsOf, IdFields
  <2>5. IsBoundary(y) /\ RoomFor(y)
    BY <2>2, <2>3, <2>4 DEF IsBoundary, RoomFor
  <2>6. RoomFor(b) => y = b
    BY <2>2, <2>3 DEF RoomFor
  <2>7. QED  BY <2>5, <2>6
<1>2. CASE b \in [how : {"PartitionScoped"}, partition : Nat]
  <2>1. PICK n, m : n = b.partition /\ m = n % Size["u64"]
    OBVIOUS
  <2>2. n \in Nat /\ b = [how |-> "PartitionScoped", partition |-> n] /\ y = [how |-> "PartitionScoped", partition |-> m]
    BY <1>2, <2>1 DEF HeardBoundary
  <2>3. m \in Nat /\ m < Size["u64"] /\ (n < Size["u64"] => m = n)
    BY <2>1, <2>2, Narrowing
  <2>4. IdsOf(y) = {m} /\ IdsOf(b) = {n}
    BY <2>2 DEF IdsOf, IdFields
  <2>5. IsBoundary(y) /\ RoomFor(y)
    BY <2>2, <2>3, <2>4 DEF IsBoundary, RoomFor
  <2>6. RoomFor(b) => y = b
    BY <2>2, <2>3, <2>4 DEF RoomFor
  <2>7. QED  BY <2>5, <2>6
<1>3. CASE b \in [how : {"ExplicitSet"}, nodes : Seq(Nat)] /\ IsList(b.nodes)
  <2>1. PICK ids, h : ids = b.nodes /\ h = Narrowed(ids)
    OBVIOUS
  <2>2. IsList(ids) /\ b = [how |-> "ExplicitSet", nodes |-> ids] /\ y = [how |-> "ExplicitSet", nodes |-> h]
    BY <1>3, <2>1 DEF HeardBoundary
  <2>3. /\ IsList(h) /\ \A x \in ToSet(h) : x < Size["u64"]
        /\ (\A x \in ToSet(ids) : x < Size["u64"]) => h = ids
        /\ h \in Seq(Nat)
    BY <2>1, <2>2, NarrowedIds DEF IsList
  <2>4. IdsOf(y) = {}
    BY <2>2 DEF IdsOf, IdFields
  <2>5. IsBoundary(y) /\ RoomFor(y)
    BY <2>2, <2>3, <2>4 DEF IsBoundary, RoomFor
  <2>6. RoomFor(b) => y = b
    BY <2>2, <2>3 DEF RoomFor
  <2>7. QED  BY <2>5, <2>6
<1>4. QED  BY <1>1, <1>2, <1>3 DEF IsBoundary

LEMMA RegionOps ==
  ASSUME NEW n \in Nat, NEW b, IsBoundary(b), NEW s \in {"Pinned", "EpochTracked"},
         NEW t \in {"Eager", "Lazy", "Never"},
         NEW o, o = [op |-> "RegionDeclare", root |-> n, boundary |-> b, stability |-> s, compile |-> t]
  PROVE  Carried(o)
<1>1. PICK d, e : /\ d = [Pinned |-> 0, EpochTracked |-> 1][s]
                  /\ e = [Eager |-> 0, Lazy |-> 1, Never |-> 2][t]
  OBVIOUS
<1>2. PICK ds, es : ds = <<"Pinned", "EpochTracked">> /\ es = <<"Eager", "Lazy", "Never">>
  OBVIOUS
<1>3. /\ d \in 0 .. 11 /\ d < Len(ds) /\ ds[d + 1] = s
      /\ e \in 0 .. 11 /\ e < Len(es) /\ es[e + 1] = t
  BY <1>1, <1>2
<1>4. PICK P, F, Q, D, R, E, p : /\ P = push_uid(n) /\ F = push_boundary(b) /\ Q = Cat(P, F)
                                 /\ D = push("u8", d) /\ R = Cat(Q, D)
                                 /\ E = push("u8", e) /\ p = Cat(R, E)
  OBVIOUS
<1>5. write_payload(o) = p
  BY <1>1, <1>4 DEF write_payload, write_region, Cat
<1>6. /\ P \in Seq(Field) /\ F \in Seq(Field) /\ Q \in Seq(Field) /\ D \in Seq(Field)
      /\ R \in Seq(Field) /\ E \in Seq(Field) /\ p \in Seq(Field) /\ P = push("u64", n)
  <2>1. P \in Seq(Field) /\ P = push("u64", n) /\ F \in Seq(Field)
    BY <1>4, Narrowing, Boundaries
  <2>2. D \in Seq(Field) /\ E \in Seq(Field)
    <3>1. d \in Nat /\ e \in Nat
      BY <1>3
    <3>2. QED  BY <3>1, <1>4, Words DEF Number
  <2>3. Q \in Seq(Field)
    BY <2>1, <1>4, CatApart
  <2>4. R \in Seq(Field)
    BY <2>2, <2>3, <1>4, CatApart
  <2>5. p \in Seq(Field)
    BY <2>2, <2>4, <1>4, CatApart
  <2>6. QED  BY <2>1, <2>2, <2>3, <2>4, <2>5
<1>7. PICK a, y : a = n % Size["u64"] /\ y = HeardBoundary(b)
  OBVIOUS
<1>8. PICK c : c = [op |-> "RegionDeclare", root |-> a, boundary |-> y, stability |-> s, compile |-> t]
  OBVIOUS
<1>9. PICK g1, g2, g3, g4 : g1 = Add(<<>>, a) /\ g2 = Add(g1, y) /\ g3 = Add(g2, s) /\ g4 = Add(g3, t)
  OBVIOUS
<1>10. g4[1] = a /\ g4[2] = y /\ g4[3] = s /\ g4[4] = t
  BY <1>9, GotFour
<1>11. ASSUME NEW k \in 0 .. Len(p)
       PROVE  parse_region(Reader(SubSeq(p, 1, k))) = Verdict(p, k, c)
  <2>1. PICK r, r1, r2, r3, r4 :
          /\ r = Reader(SubSeq(p, 1, k)) /\ r1 = read(r, "u64") /\ r2 = read_boundary(r1)
          /\ r3 = read_code(r2, ds, "UnknownStabilityContract")
          /\ r4 = read_code(r3, es, "UnknownCompilePolicy")
    OBVIOUS
  <2>2. Reached(r, p, 0, <<>>, k, <<>>) /\ Lies(p, 0, p) /\ Cat(<<>>, P) = P /\ Len(p) \in Nat
    BY <1>6, <2>1, Payloads
  <2>3. Lies(p, 0, Cat(R, E)) /\ Lies(p, 0, R)
    BY <1>4, <1>6, <2>2, Prefix
  <2>4. Lies(p, 0, Cat(Q, D)) /\ Lies(p, 0, Q)
    BY <1>4, <1>6, <2>2, <2>3, Prefix
  <2>5. Lies(p, 0, Cat(P, F)) /\ Lies(p, 0, P)
    BY <1>4, <1>6, <2>2, <2>4, Prefix
  <2>6. Reached(r1, p, 0, P, k, g1)
    <3>1. Lies(p, 0, Cat(<<>>, push("u64", n)))
      BY <1>6, <2>2, <2>5
    <3>2. Reached(r1, p, 0, Cat(<<>>, push("u64", n)), k, Add(<<>>, n % Size["u64"]))
      BY <2>1, <2>2, <3>1, NextWord DEF Number
    <3>3. QED  BY <3>2, <1>6, <1>7, <1>9, <2>2
  <2>7. Reached(r2, p, 0, Q, k, g2)
    <3>1. Lies(p, 0, Cat(P, push_boundary(b)))
      BY <1>4, <2>5
    <3>2. Reached(r2, p, 0, Cat(P, push_boundary(b)), k, Add(g1, HeardBoundary(b)))
      BY <2>1, <2>6, <3>1, NextBoundary
    <3>3. QED  BY <3>2, <1>4, <1>7, <1>9
  <2>8. Reached(r3, p, 0, R, k, g3)
    <3>1. Lies(p, 0, Cat(Q, push("u8", d)))
      BY <1>4, <2>4
    <3>2. Reached(r3, p, 0, Cat(Q, push("u8", d)), k, Add(g2, ds[d + 1]))
      BY <1>3, <2>1, <2>7, <3>1, NextCode
    <3>3. QED  BY <3>2, <1>3, <1>4, <1>9
  <2>9. Reached(r4, p, 0, p, k, g4)
    <3>1. Lies(p, 0, Cat(R, push("u8", e)))
      BY <1>4, <2>3
    <3>2. Reached(r4, p, 0, Cat(R, push("u8", e)), k, Add(g3, es[e + 1]))
      BY <1>3, <2>1, <2>8, <3>1, NextCode
    <3>3. QED  BY <3>2, <1>3, <1>4, <1>9
  <2>10. PICK x : x = [op |-> "RegionDeclare", root |-> r4.got[1], boundary |-> r4.got[2],
                       stability |-> r4.got[3], compile |-> r4.got[4]]
    OBVIOUS
  <2>11. r4.got = g4 => x = c
    BY <1>8, <1>10, <2>10
  <2>12. Parsed(r4, x) = Verdict(p, k, c)
    BY <2>9, <2>11, Outcome
  <2>13. parse_region(r) = Parsed(r4, x)
    BY <1>2, <2>1, <2>10 DEF parse_region
  <2>14. QED  BY <2>1, <2>12, <2>13
<1>12. Delivers(opcode_for["RegionDeclare"], p, c)
  BY <1>6, <1>11, Opcodes DEF Delivers
<1>13. Fits(o, c)
  <2>1. a \in Nat /\ a < Size["u64"] /\ (n < Size["u64"] => a = n)
    BY <1>7, Narrowing
  <2>2. IsBoundary(y) /\ RoomFor(y) /\ (RoomFor(b) => y = b)
    BY <1>7, BoundariesFit
  <2>3. IsOperation(c) /\ c.op = o.op
    BY <1>8, <2>1, <2>2 DEF IsOperation
  <2>4. Expressible(c)
    <3>1. IdsIn(c) = {a} \cup IdsOf(y)
      BY <1>8 DEF IdsIn, IdsOf, IdFields
    <3>2. QED  BY <3>1, <2>1, <2>2, <1>8 DEF Expressible, RoomFor
  <2>5. ASSUME Expressible(o) PROVE c = o
    <3>1. IdsIn(o) = {n} \cup IdsOf(b)
      BY DEF IdsIn, IdsOf, IdFields
    <3>2. n < Size["u64"] /\ RoomFor(b)
      BY <2>5, <3>1 DEF Expressible, RoomFor
    <3>3. QED  BY <3>2, <2>1, <2>2, <1>8
  <2>6. QED  BY <2>3, <2>4, <2>5 DEF Fits
<1>14. QED  BY <1>5, <1>12, <1>13 DEF Understood, Carried

-----------------------------------------------------------------------------
(* Nodes with attributes *)

Silent(val) == "float" \in DOMAIN val => val.float # "signalling NaN"

LEMMA HeardOne ==
  ASSUME NEW val, IsVal(val)
  PROVE  IsVal(Heard(val)) /\ Silent(Heard(val)) /\ (Silent(val) => Heard(val) = val)
<1>1. CASE val \in [float : Float]
  <2>1. PICK f, h : f = val.float /\ h = Canonical(f)
    OBVIOUS
  <2>2. f \in Float /\ val = [float |-> f] /\ "float" \in DOMAIN val
    BY <1>1, <2>1
  <2>3. Heard(val) = [float |-> h]
    BY <2>1, <2>2 DEF Heard
  <2>4. h \in Float /\ h # "signalling NaN" /\ (f # "signalling NaN" => h = f)
    <3>1. "quiet NaN" \in Float
      BY WireAssumption
    <3>2. QED  BY <3>1, <2>1, <2>2 DEF Canonical
  <2>5. [float |-> h] \in [float : Float]
    BY <2>4
  <2>6. IsVal(Heard(val))
    BY <2>3, <2>5 DEF IsVal
  <2>7. Silent(Heard(val))
    <3>1. PICK v : v = Heard(val)
      OBVIOUS
    <3>2. v.float = h
      BY <3>1, <2>3
    <3>3. Silent(v)
      BY <3>2, <2>4 DEF Silent
    <3>4. QED  BY <3>1, <3>3
  <2>8. Silent(val) => Heard(val) = val
    BY <2>2, <2>3, <2>4 DEF Silent
  <2>9. QED  BY <2>6, <2>7, <2>8
<1>2. CASE val \in [bool : BOOLEAN] \cup [int : u64] \cup [text : Text] \cup [ternary : T]
  <2>1. "float" \notin DOMAIN val
    BY <1>2
  <2>2. Heard(val) = val /\ Silent(val)
    BY <2>1 DEF Heard, Silent
  <2>3. QED  BY <2>2
<1>3. QED  BY <1>1, <1>2 DEF IsVal

LEMMA HeardAttrs ==
  ASSUME NEW attrs, IsAttrs(attrs), NEW h, h = HeardAll(attrs)
  PROVE  IsAttrs(h) /\ Quiet(h) /\ (Quiet(attrs) => h = attrs)
<1>1. PICK S : S = DOMAIN attrs
  OBVIOUS
<1>2. /\ HasKeys(attrs) /\ attrs = [x \in S |-> attrs[x]] /\ \A x \in S : IsVal(attrs[x])
  BY <1>1 DEF IsAttrs
<1>3. h = [x \in S |-> Heard(attrs[x])] /\ DOMAIN h = S
  BY <1>1 DEF HeardAll
<1>4. \A x \in S : h[x] = Heard(attrs[x]) /\ IsVal(h[x]) /\ Silent(h[x]) /\ (Silent(attrs[x]) => h[x] = attrs[x])
  BY <1>2, <1>3, HeardOne
<1>5. IsAttrs(h)
  <2>1. HasKeys(h)
    BY <1>1, <1>2, <1>3 DEF HasKeys
  <2>2. h = [x \in DOMAIN h |-> h[x]]
    BY <1>3
  <2>3. QED  BY <2>1, <2>2, <1>3, <1>4 DEF IsAttrs
<1>6. Quiet(h)
  BY <1>3, <1>4 DEF Quiet, Silent
<1>7. ASSUME Quiet(attrs) PROVE h = attrs
  <2>1. \A x \in S : Silent(attrs[x])
    BY <1>1, <1>7 DEF Quiet, Silent
  <2>2. \A x \in S : h[x] = attrs[x]
    BY <2>1, <1>4
  <2>3. QED  BY <2>2, <1>2, <1>3
<1>8. QED  BY <1>5, <1>6, <1>7

LEMMA NodeCreateOps ==
  ASSUME NEW n \in Nat, NEW s \in Text, NEW t \in DOMAIN rule_byte, NEW attrs, IsAttrs(attrs),
         NEW o, o = [op |-> "NodeCreate", node |-> n, typ |-> s, rule |-> t, attrs |-> attrs]
  PROVE  Carried(o)
<1>1. PICK d : d = rule_byte[t]
  OBVIOUS
<1>2. PICK ds : ds = RuleOf
  OBVIOUS
<1>3. d \in 0 .. 11 /\ d < Len(ds) /\ ds[d + 1] = t
  BY <1>1, <1>2 DEF rule_byte, RuleOf
<1>4. PICK P, F, Q, D, R, E, p : /\ P = push_uid(n) /\ F = push_str(s) /\ Q = Cat(P, F)
                                 /\ D = push("u8", d) /\ R = Cat(Q, D)
                                 /\ E = write_attr_map(attrs) /\ p = Cat(R, E)
  OBVIOUS
<1>5. write_payload(o) = p
  BY <1>1, <1>4 DEF write_payload, write_extension, Cat
<1>6. /\ P \in Seq(Field) /\ F \in Seq(Field) /\ Q \in Seq(Field) /\ D \in Seq(Field)
      /\ R \in Seq(Field) /\ E \in Seq(Field) /\ p \in Seq(Field) /\ P = push("u64", n)
  <2>1. P \in Seq(Field) /\ P = push("u64", n) /\ F \in Seq(Field) /\ E \in Seq(Field)
    <3>1. P \in Seq(Field) /\ P = push("u64", n)
      BY <1>4, Narrowing
    <3>2. F \in Seq(Field)
      BY <1>4, Strings
    <3>3. E \in Seq(Field)
      BY <1>4, AttrMaps
    <3>4. QED  BY <3>1, <3>2, <3>3
  <2>2. D \in Seq(Field)
    <3>1. d \in Nat
      BY <1>3
    <3>2. QED  BY <3>1, <1>4, Words DEF Number
  <2>3. Q \in Seq(Field)
    BY <2>1, <1>4, CatApart
  <2>4. R \in Seq(Field)
    BY <2>2, <2>3, <1>4, CatApart
  <2>5. p \in Seq(Field)
    BY <2>1, <2>4, <1>4, CatApart
  <2>6. QED  BY <2>1, <2>2, <2>3, <2>4, <2>5
<1>7. PICK a, y : a = n % Size["u64"] /\ y = HeardAll(attrs)
  OBVIOUS
<1>8. PICK c : c = [op |-> "NodeCreate", node |-> a, typ |-> s, rule |-> t, attrs |-> y]
  OBVIOUS
<1>9. PICK g1, g2, g3, g4 : g1 = Add(<<>>, a) /\ g2 = Add(g1, s) /\ g3 = Add(g2, t) /\ g4 = Add(g3, y)
  OBVIOUS
<1>10. g4[1] = a /\ g4[2] = s /\ g4[3] = t /\ g4[4] = y
  BY <1>9, GotFour
<1>11. ASSUME NEW k \in 0 .. Len(p)
       PROVE  parse_node_create(Reader(SubSeq(p, 1, k))) = Verdict(p, k, c)
  <2>1. PICK r, r1, r2, r3, r4 :
          /\ r = Reader(SubSeq(p, 1, k)) /\ r1 = read(r, "u64") /\ r2 = read_str(r1)
          /\ r3 = read_code(r2, ds, "UnknownNodeRule")
          /\ r4 = parse_attr_map(r3)
    OBVIOUS
  <2>2. Reached(r, p, 0, <<>>, k, <<>>) /\ Lies(p, 0, p) /\ Cat(<<>>, P) = P /\ Len(p) \in Nat
    BY <1>6, <2>1, Payloads
  <2>3. Lies(p, 0, Cat(R, E)) /\ Lies(p, 0, R)
    BY <1>4, <1>6, <2>2, Prefix
  <2>4. Lies(p, 0, Cat(Q, D)) /\ Lies(p, 0, Q)
    BY <1>4, <1>6, <2>2, <2>3, Prefix
  <2>5. Lies(p, 0, Cat(P, F)) /\ Lies(p, 0, P)
    BY <1>4, <1>6, <2>2, <2>4, Prefix
  <2>6. Reached(r1, p, 0, P, k, g1)
    <3>1. Lies(p, 0, Cat(<<>>, push("u64", n)))
      BY <1>6, <2>2, <2>5
    <3>2. Reached(r1, p, 0, Cat(<<>>, push("u64", n)), k, Add(<<>>, n % Size["u64"]))
      BY <2>1, <2>2, <3>1, NextWord DEF Number
    <3>3. QED  BY <3>2, <1>6, <1>7, <1>9, <2>2
  <2>7. Reached(r2, p, 0, Q, k, g2)
    <3>1. Lies(p, 0, Cat(P, push_str(s)))
      BY <1>4, <2>5
    <3>2. Reached(r2, p, 0, Cat(P, push_str(s)), k, Add(g1, s))
      BY <2>1, <2>6, <3>1, NextStr
    <3>3. QED  BY <3>2, <1>4, <1>9
  <2>8. Reached(r3, p, 0, R, k, g3)
    <3>1. Lies(p, 0, Cat(Q, push("u8", d)))
      BY <1>4, <2>4
    <3>2. Reached(r3, p, 0, Cat(Q, push("u8", d)), k, Add(g2, ds[d + 1]))
      BY <1>3, <2>1, <2>7, <3>1, NextCode
    <3>3. QED  BY <3>2, <1>3, <1>4, <1>9
  <2>9. Reached(r4, p, 0, p, k, g4)
    <3>1. Lies(p, 0, Cat(R, write_attr_map(attrs)))
      BY <1>4, <2>3
    <3>2. Reached(r4, p, 0, Cat(R, write_attr_map(attrs)), k, Add(g3, HeardAll(attrs)))
      BY <2>1, <2>8, <3>1, NextAttrs
    <3>3. QED  BY <3>2, <1>4, <1>7, <1>9
  <2>10. PICK x : x = [op |-> "NodeCreate", node |-> r4.got[1], typ |-> r4.got[2],
                       rule |-> r4.got[3], attrs |-> r4.got[4]]
    OBVIOUS
  <2>11. r4.got = g4 => x = c
    BY <1>8, <1>10, <2>10
  <2>12. Parsed(r4, x) = Verdict(p, k, c)
    BY <2>9, <2>11, Outcome
  <2>13. parse_node_create(r) = Parsed(r4, x)
    BY <1>2, <2>1, <2>10 DEF parse_node_create
  <2>14. QED  BY <2>1, <2>12, <2>13
<1>12. Delivers(opcode_for["NodeCreate"], p, c)
  BY <1>6, <1>11, Opcodes DEF Delivers
<1>13. Fits(o, c)
  <2>1. a \in Nat /\ a < Size["u64"] /\ (n < Size["u64"] => a = n)
    BY <1>7, Narrowing
  <2>2. IsAttrs(y) /\ Quiet(y) /\ (Quiet(attrs) => y = attrs)
    BY <1>7, HeardAttrs
  <2>3. IsOperation(c) /\ c.op = o.op
    BY <1>8, <2>1, <2>2 DEF IsOperation
  <2>4. Expressible(c)
    <3>1. IdsIn(c) = {a}
      BY <1>8 DEF IdsIn, IdsOf, IdFields
    <3>2. QED  BY <3>1, <2>1, <2>2, <1>8 DEF Expressible
  <2>5. ASSUME Expressible(o) PROVE c = o
    <3>1. IdsIn(o) = {n}
      BY DEF IdsIn, IdsOf, IdFields
    <3>2. n < Size["u64"] /\ Quiet(attrs)
      BY <2>5, <3>1 DEF Expressible
    <3>3. QED  BY <3>2, <2>1, <2>2, <1>8
  <2>6. QED  BY <2>3, <2>4, <2>5 DEF Fits
<1>14. QED  BY <1>5, <1>12, <1>13 DEF Understood, Carried

-----------------------------------------------------------------------------
(* Dependencies: what zero stands for, and frontiers *)

Zeros == {"None"} \cup DOMAIN zero_byte

LEMMA TookDefinite ==
  ASSUME NEW p, NEW k, Payload(p, k), NEW i \in Nat, NEW got, Listed(got), NEW r, Took(r, p, i, k, got),
         Lies(p, i, push("u8", 0))
  PROVE  Took(read_kind(r), p, i + 1, k, Add(got, "None"))
<1>p. k \in Int
  BY DEF Payload
<1>1. PICK b, q, y, ok, c : /\ b = read(r, "u8") /\ q = i + 1 /\ y = "None"
                           /\ ok = (Read(b) \in {0, 1}) /\ c = expect(b, ok, "UnknownPayloadKind")
  OBVIOUS
<1>2. q \in Nat
  BY <1>1
<1>3. Took(b, p, q, k, Add(got, 0))
  <2>1. 0 % Size["u8"] = 0
    BY Bytes
  <2>2. Took(b, p, i + 1, k, Add(got, 0 % Size["u8"]))
    BY <1>1, TookWord DEF Number
  <2>3. QED  BY <2>1, <2>2, <1>1
<1>4. b.err = "None" => Read(b) = 0
  <2>1. Last(Add(got, 0)) = 0
    BY Adds
  <2>2. (q <= k => Read(b) = Last(Add(got, 0))) /\ (~(q <= k) => b.err = "PayloadTruncated")
    BY <1>2, <1>3, <1>p, TookGot
  <2>3. QED  BY <2>1, <2>2
<1>5. c = b
  <2>1. b.err = "None" => ok
    BY <1>1, <1>4
  <2>2. QED  BY <2>1, <1>1 DEF expect
<1>6. CASE b.err # "None"
  <2>1. read_kind(r) = b
    BY <1>1, <1>5, <1>6 DEF read_kind
  <2>2. Took(b, p, q, k, Add(got, y))
    BY <1>2, <1>3, <1>6, <1>p, TookLate
  <2>3. QED  BY <1>1, <2>1, <2>2
<1>7. CASE b.err = "None"
  <2>1. read_kind(r) = Made(b, 1, y)
    BY <1>1, <1>4, <1>5, <1>7 DEF read_kind
  <2>2. Took(Made(b, 1, y), p, q, k, Add(got, y))
    BY <1>2, <1>3, <1>p, MadeOne
  <2>3. QED  BY <1>1, <2>1, <2>2
<1>8. QED  BY <1>6, <1>7

LEMMA TookZero ==
  ASSUME NEW p, NEW k, Payload(p, k), NEW i \in Nat, NEW got, Listed(got), NEW r, Took(r, p, i, k, got),
         NEW n \in 0 .. 11, n < Len(ZeroOf), NEW F, F = push("u8", n), Lies(p, i, Cat(push("u8", 1), F)),
         NEW y, y = ZeroOf[n + 1]
  PROVE  Took(read_kind(r), p, i + 2, k, Add(got, y))
<1>p. k \in Int
  BY DEF Payload
<1>0. n \in Nat /\ n < Size["u8"]
  <2>1. Size["u8"] \in Nat /\ Size["u8"] > 11
    BY WireAssumption
  <2>2. QED  BY <2>1
<1>1. F \in Seq(Field)
  BY <1>0, Bytes
<1>2. PICK b, ok, c, d : /\ b = read(r, "u8") /\ ok = (Read(b) \in {0, 1})
                        /\ c = expect(b, ok, "UnknownPayloadKind") /\ d = read_code(c, ZeroOf, "UnknownZeroKind")
  OBVIOUS
<1>3. /\ Lies(p, i + 1, F) /\ Took(b, p, i + 1, k, Add(got, 1)) /\ Listed(Add(got, 1))
      /\ b.err = "None" => Read(b) = 1
  <2>1. 1 \in 0 .. 11 /\ Lies(p, i, push("u8", 1) \o F)
    BY DEF Cat
  <2>2. QED  BY <2>1, <1>1, <1>2, TookTag
<1>q. PICK q, j : q = i + 1 /\ j = i + 2
  OBVIOUS
<1>4. q \in Nat /\ j \in Nat /\ q <= j /\ j = q + 1
  BY <1>q
<1>5. Took(b, p, q, k, Add(got, 1)) /\ Lies(p, q, push("u8", n))
  BY <1>3, <1>q
<1>c. c = b
  <2>1. b.err = "None" => ok
    BY <1>2, <1>3
  <2>2. QED  BY <2>1, <1>2 DEF expect
<1>6. CASE b.err # "None"
  <2>1. read_kind(r) = b
    BY <1>2, <1>6, <1>c DEF read_kind
  <2>2. Took(b, p, j, k, Add(got, y))
    BY <1>4, <1>5, <1>6, <1>p, TookLate
  <2>3. QED  BY <1>q, <2>1, <2>2
<1>7. CASE b.err = "None"
  <2>1. Took(d, p, j, k, Add(Add(got, 1), y))
    <3>1. PICK table, g : table = ZeroOf /\ g = Add(got, 1)
      OBVIOUS
    <3>2. n < Len(table) /\ Took(b, p, q, k, g) /\ Listed(g) /\ d = read_code(b, table, "UnknownZeroKind")
      BY <3>1, <1>2, <1>3, <1>5, <1>c
    <3>3. Took(d, p, q + 1, k, Add(g, table[n + 1]))
      BY <3>2, <1>0, <1>4, <1>5, TookCode
    <3>4. QED  BY <3>1, <3>3, <1>4
  <2>2. PICK x : x = Read(d)
    OBVIOUS
  <2>3. Took(Made(d, 2, x), p, j, k, Add(got, y))
    <3>1. Read(d) = y => x = y
      BY <2>2
    <3>2. QED  BY <3>1, <2>1, <1>4, <1>p, MadeOf
  <2>4. read_kind(r) = Made(d, 2, x)
    BY <1>2, <1>3, <1>7, <1>c, <2>2 DEF read_kind
  <2>5. QED  BY <1>q, <2>3, <2>4
<1>8. QED  BY <1>6, <1>7

LEMMA Kinds ==
  ASSUME NEW z \in Zeros
  PROVE  push_kind(z) \in Seq(Field)
<1>1. push("u8", 0) \in Seq(Field) /\ push("u8", 1) \in Seq(Field)
  BY Words DEF Number
<1>2. CASE z = "None"
  BY <1>1, <1>2 DEF push_kind
<1>3. CASE z # "None"
  <2>1. zero_byte[z] \in Nat
    BY <1>3 DEF Zeros, zero_byte
  <2>2. push("u8", zero_byte[z]) \in Seq(Field)
    BY <2>1, Words DEF Number
  <2>3. push("u8", 1) \o push("u8", zero_byte[z]) \in Seq(Field)
    BY <1>1, <2>2, ConcatProperties
  <2>4. QED  BY <2>3, <1>3 DEF push_kind
<1>4. QED  BY <1>2, <1>3

LEMMA NextKind ==
  ASSUME NEW p, NEW k, NEW i, NEW P, NEW got, NEW r, Reached(r, p, i, P, k, got),
         NEW z \in Zeros, Lies(p, i, Cat(P, push_kind(z)))
  PROVE  Reached(read_kind(r), p, i, Cat(P, push_kind(z)), k, Add(got, z))
<1>1. PICK F, s : F = push_kind(z) /\ s = read_kind(r)
  OBVIOUS
<1>0. Payload(p, k) /\ Listed(got)
  BY DEF Reached
<1>2. F \in Seq(Field)
  BY <1>1, Kinds
<1>3. ASSUME NEW j \in Nat, Took(r, p, j, k, got), Lies(p, j, F)
      PROVE  Took(s, p, j + Len(F), k, Add(got, z))
  <2>1. CASE z = "None"
    <3>1. F = push("u8", 0) /\ Len(F) = 1
      BY <1>1, <2>1, Words DEF push_kind, Number
    <3>2. Lies(p, j, push("u8", 0))
      BY <3>1, <1>3
    <3>3. Took(s, p, j + 1, k, Add(got, "None"))
      BY <3>2, <1>0, <1>1, <1>3, TookDefinite
    <3>4. QED  BY <3>1, <3>3, <2>1
  <2>2. CASE z # "None"
    <3>1. PICK n, A, G : n = zero_byte[z] /\ A = push("u8", 1) /\ G = push("u8", n)
      OBVIOUS
    <3>2. F = Cat(A, G)
      BY <1>1, <2>2, <3>1 DEF push_kind, Cat
    <3>3. n \in 0 .. 11 /\ n < Len(ZeroOf) /\ z = ZeroOf[n + 1]
      BY <2>2, <3>1 DEF Zeros, zero_byte, ZeroOf
    <3>4. A \in Seq(Field) /\ G \in Seq(Field) /\ Len(A) = 1 /\ Len(G) = 1
      <4>1. n \in Nat
        BY <3>3
      <4>2. QED  BY <4>1, <3>1, Words DEF Number
    <3>5. Len(F) = 2
      <4>1. Len(Cat(A, G)) = Len(A) + Len(G)
        BY <3>4, CatApart
      <4>2. QED  BY <4>1, <3>2, <3>4
    <3>6. Lies(p, j, Cat(push("u8", 1), G))
      BY <3>1, <3>2, <1>3
    <3>7. Took(s, p, j + 2, k, Add(got, z))
      BY <3>1, <3>3, <3>6, <1>0, <1>1, <1>3, TookZero
    <3>8. QED  BY <3>5, <3>7
  <2>3. QED  BY <2>1, <2>2
<1>4. Lies(p, i, Cat(P, F))
  BY <1>1
<1>5. Reached(s, p, i, Cat(P, F), k, Add(got, z))
  BY <1>2, <1>3, <1>4, Onwards
<1>6. QED  BY <1>1, <1>5

\* The greatest of the numbers up to n that are in a set.
LEMMA GreatestTo ==
  ASSUME NEW n \in Nat, NEW S \in SUBSET (1 .. n), S # {}
  PROVE  Max(S) \in S
<1>1. PICK G : G = {n - j : j \in S}
  OBVIOUS
<1>2. G \in SUBSET Nat /\ G # {}
  <2>1. ASSUME NEW g \in G PROVE g \in Nat
    <3>1. PICK j \in S : g = n - j
      BY <1>1
    <3>2. j \in 1 .. n
      OBVIOUS
    <3>3. QED  BY <3>1, <3>2
  <2>2. PICK j : j \in S
    OBVIOUS
  <2>3. n - j \in G
    BY <1>1, <2>2
  <2>4. QED  BY <2>1, <2>3
<1>3. PICK m \in G : \A x \in G : m <= x
  BY <1>2, LeastNat
<1>4. PICK j \in S : m = n - j
  BY <1>1
<1>5. \A y \in S : j >= y
  <2>1. ASSUME NEW y \in S PROVE j >= y
    <3>1. n - y \in G
      BY <1>1
    <3>2. n - j <= n - y /\ j \in Int /\ y \in Int
      BY <3>1, <1>3, <1>4
    <3>3. QED  BY <3>2
  <2>2. QED  BY <2>1
<1>6. QED  BY <1>5 DEF Max

\* The clocks of partitions, their ids on the way made narrow.
IsClocks(f) == HasKeys(f) /\ f \in [DOMAIN f -> u64]

Entered(xs, s, f, n) ==
  /\ DOMAIN xs = 1 .. n
  /\ \A i \in 1 .. n : xs[i][1] = s[i] % Size["u64"] /\ xs[i][2] = f[s[i]]

LEMMA ClocksHeard ==
  ASSUME NEW f, IsClocks(f), NEW S, S = DOMAIN f, NEW n, n = Cardinality(S), NEW s, Enumerates(s, S, n),
         NEW xs, Entered(xs, s, f, n), NEW h, h = MapOf(xs)
  PROVE  /\ IsClocks(h) /\ \A x \in DOMAIN h : x < Size["u64"]
         /\ (\A x \in S : x < Size["u64"]) => h = f
<1>1. /\ n \in Nat /\ \A i \in 1 .. n : s[i] \in S
      /\ \A x \in S : \E i \in 1 .. n : s[i] = x
      /\ \A i, j \in 1 .. n : s[i] = s[j] => i = j
  BY DEF Enumerates
<1>2. DOMAIN xs = 1 .. n /\ \A i \in 1 .. n : xs[i][1] = s[i] % Size["u64"] /\ xs[i][2] = f[s[i]]
  BY DEF Entered
<1>3. /\ S \subseteq Nat /\ n < Size["u16"] /\ f = [x \in S |-> f[x]]
      /\ \A x \in S : f[x] \in u64
  BY DEF IsClocks, HasKeys
<1> DEFINE Of(x) == {i \in DOMAIN xs : xs[i][1] = x}
           D == {xs[i][1] : i \in DOMAIN xs}
<1>4. h = [x \in D |-> xs[Max(Of(x))][2]]
  BY DEF MapOf
<1>5. \A i \in 1 .. n : s[i] \in Nat /\ xs[i][1] \in Nat /\ xs[i][1] < Size["u64"]
  <2>1. ASSUME NEW i \in 1 .. n PROVE s[i] \in Nat /\ xs[i][1] \in Nat /\ xs[i][1] < Size["u64"]
    <3>1. PICK m : m = s[i]
      OBVIOUS
    <3>2. m \in Nat /\ xs[i][1] = m % Size["u64"]
      BY <3>1, <1>1, <1>2, <1>3
    <3>3. m % Size["u64"] \in Nat /\ m % Size["u64"] < Size["u64"]
      BY <3>2, Narrowing
    <3>4. QED  BY <3>1, <3>2, <3>3
  <2>2. QED  BY <2>1
<1>6. \A x \in D : x \in Nat /\ x < Size["u64"]
  BY <1>2, <1>5
<1>7. IsFiniteSet(D) /\ Cardinality(D) < Size["u16"]
  <2>1. PICK e : e = [i \in 1 .. n |-> xs[i][1]]
    OBVIOUS
  <2>2. e \in Surjection(1 .. n, D)
    BY <2>1, <1>2 DEF Surjection
  <2>3. IsFiniteSet(1 .. n) /\ Cardinality(1 .. n) = n
    BY <1>1, FS_Interval
  <2>4. IsFiniteSet(D) /\ Cardinality(D) <= n
    BY <2>2, <2>3, FS_Surjection
  <2>5. Cardinality(D) \in Nat /\ Size["u16"] \in Nat
    BY <2>4, FS_CardinalityType, Words DEF Number
  <2>6. QED  BY <2>4, <2>5, <1>1, <1>3
<1>8. ASSUME NEW x \in D PROVE xs[Max(Of(x))][2] \in u64
  <2>1. Of(x) \in SUBSET (1 .. n) /\ Of(x) # {}
    BY <1>2
  <2> HIDE DEF Of
  <2>2. Max(Of(x)) \in Of(x)
    BY <2>1, <1>1, GreatestTo
  <2>3. PICK i \in 1 .. n : i = Max(Of(x))
    BY <2>1, <2>2
  <2>4. PICK y : y = s[i]
    OBVIOUS
  <2>5. y \in S /\ f[y] \in u64
    BY <2>4, <1>1, <1>3
  <2>6. xs[i][2] = f[y]
    BY <2>4, <1>2
  <2>7. QED  BY <2>3, <2>5, <2>6
<1>9. ASSUME \A x \in S : x < Size["u64"] PROVE h = f
  <2>1. \A i \in 1 .. n : xs[i][1] = s[i]
    <3>1. ASSUME NEW i \in 1 .. n PROVE xs[i][1] = s[i]
      <4>1. PICK m : m = s[i]
        OBVIOUS
      <4>2. m \in Nat /\ m < Size["u64"] /\ xs[i][1] = m % Size["u64"]
        BY <4>1, <1>1, <1>2, <1>3, <1>9
      <4>3. m % Size["u64"] = m
        BY <4>2, Narrowing
      <4>4. QED  BY <4>1, <4>2, <4>3
    <3>2. QED  BY <3>1
  <2>2. Paired(xs, s, f, n)
    BY <2>1, <1>2 DEF Paired
  <2>3. MapOf(xs) = [x \in S |-> f[x]]
    BY <2>2, MapOfAll
  <2>4. QED  BY <2>3, <1>3
<1> HIDE DEF D, Of
<1>10. DOMAIN h = D /\ h = [x \in D |-> h[x]] /\ \A x \in D : h[x] \in u64
  BY <1>4, <1>8
<1>11. IsClocks(h)
  <2>1. HasKeys(h)
    BY <1>6, <1>7, <1>10 DEF HasKeys
  <2>2. h \in [D -> u64]
    BY <1>10
  <2>3. QED  BY <2>1, <2>2, <1>10 DEF IsClocks
<1>12. QED  BY <1>6, <1>9, <1>10, <1>11

\* What is received for a frontier.
ClocksAs(f, h) ==
  /\ IsClocks(h) /\ \A x \in DOMAIN h : x < Size["u64"]
  /\ (\A x \in DOMAIN f : x < Size["u64"]) => h = f

\* The parts of a frontier.
ClockParts(f, h, n, E, xs) ==
  /\ n \in Nat /\ n < Size["u16"]
  /\ E \in Seq(Seq(Field)) /\ Len(E) = n /\ Listed(xs) /\ Len(xs) = n
  /\ push_frontier(f) = push("u16", n) \o FlattenSeq(E)
  /\ MapOf(xs) = h /\ ClocksAs(f, h)
  /\ \A j \in 1 .. n : \E m \in Nat : \E t \in Nat :
       t < Size["u64"] /\ E[j] = push_entry(m, t) /\ xs[j] = <<m % Size["u64"], t>>

LEMMA ClocksApart ==
  ASSUME NEW f, IsClocks(f)
  PROVE  \E h, n, E, xs : ClockParts(f, h, n, E, xs)
<1>1. /\ DOMAIN f \subseteq Nat /\ IsFiniteSet(DOMAIN f) /\ Cardinality(DOMAIN f) < Size["u16"]
      /\ \A x \in DOMAIN f : f[x] \in u64
  BY DEF IsClocks, HasKeys
<1>2. PICK S, n, s : S = DOMAIN f /\ n = Cardinality(S) /\ s = Sorted(S)
  OBVIOUS
<1>3. Enumerates(s, S, n)
  <2>1. S \in SUBSET Nat /\ IsFiniteSet(S)
    BY <1>1, <1>2
  <2>2. QED  BY <2>1, <1>2, SortedEnumerates
<1>4. n \in Nat /\ \A i \in 1 .. n : s[i] \in S /\ s[i] \in Nat /\ f[s[i]] \in Nat /\ f[s[i]] < Size["u64"]
  <2>1. n \in Nat /\ \A i \in 1 .. n : s[i] \in S
    BY <1>3 DEF Enumerates
  <2>2. \A x \in u64 : x \in Nat /\ x < Size["u64"]
    <3>1. Size["u64"] \in Nat
      BY Words DEF Number
    <3>2. QED  BY <3>1 DEF u64
  <2>3. QED  BY <2>1, <2>2, <1>1, <1>2
<1> DEFINE E == [i \in 1 .. n |-> push_entry(s[i], f[s[i]])]
           xs == [i \in 1 .. n |-> <<s[i] % Size["u64"], f[s[i]]>>]
<1>5. E \in Seq(Seq(Field)) /\ Len(E) = n /\ \A i \in 1 .. n : E[i] = push_entry(s[i], f[s[i]])
  <2>1. \A i \in 1 .. n : push_entry(s[i], f[s[i]]) \in Seq(Field)
    BY <1>4, Entries
  <2>2. QED  BY <1>4, <2>1
<1>6. Listed(xs) /\ Len(xs) = n /\ DOMAIN xs = 1 .. n /\ \A i \in 1 .. n : xs[i] = <<s[i] % Size["u64"], f[s[i]]>>
  <2>1. PICK X : X = {xs[i] : i \in 1 .. n}
    OBVIOUS
  <2>2. xs \in [1 .. n -> X]
    BY <2>1
  <2>3. xs \in Seq(X) /\ Len(xs) = n
    BY <1>4, <2>2
  <2>4. QED  BY <2>3 DEF Listed
<1>7. push_frontier(f) = push("u16", n) \o FlattenSeq(E)
  BY <1>2 DEF push_frontier, push_map
<1> HIDE DEF xs
<1>8. PICK h : h = MapOf(xs)
  OBVIOUS
<1>9. ClocksAs(f, h)
  <2>1. Entered(xs, s, f, n)
    BY <1>6 DEF Entered
  <2>2. QED  BY <2>1, <1>2, <1>3, <1>8, ClocksHeard DEF ClocksAs
<1> HIDE DEF E
<1>10. ASSUME NEW j \in 1 .. n
       PROVE  \E m \in Nat : \E t \in Nat :
                t < Size["u64"] /\ E[j] = push_entry(m, t) /\ xs[j] = <<m % Size["u64"], t>>
  BY <1>4, <1>5, <1>6
<1>11. ClockParts(f, h, n, E, xs)
  BY <1>1, <1>2, <1>4, <1>5, <1>6, <1>7, <1>8, <1>9, <1>10 DEF ClockParts
<1>12. QED  BY <1>11

Clocked(f, h) == \E n, E, xs : ClockParts(f, h, n, E, xs)

LEMMA TookClocks ==
  ASSUME NEW p, NEW k, Payload(p, k), NEW i \in Nat, NEW got, Listed(got), NEW r, Took(r, p, i, k, got),
         NEW f, NEW h, Clocked(f, h), Lies(p, i, push_frontier(f))
  PROVE  Took(read_frontier(r), p, i + Len(push_frontier(f)), k, Add(got, h))
<1>1. PICK n, E, xs : ClockParts(f, h, n, E, xs)
  BY DEF Clocked
<1>2. /\ n \in Nat /\ n < Size["u16"]
      /\ E \in Seq(Seq(Field)) /\ Len(E) = n /\ Listed(xs) /\ Len(xs) = n
      /\ MapOf(xs) = h
  BY <1>1 DEF ClockParts
<1>3. push_frontier(f) = push("u16", Len(E)) \o FlattenSeq(E)
  BY <1>1 DEF ClockParts
<1>4. Reads("entry", p, k, E, xs)
  <2>1. ASSUME NEW j \in 1 .. Len(E), NEW s, NEW g, NEW q \in Nat,
               Listed(g), Took(s, p, q, k, g), Lies(p, q, E[j])
        PROVE  Took(Step("entry", s, E[j]), p, q + Len(E[j]), k, Add(g, xs[j]))
    <3>1. PICK m \in Nat : \E t \in Nat :
            t < Size["u64"] /\ E[j] = push_entry(m, t) /\ xs[j] = <<m % Size["u64"], t>>
      BY <1>1, <1>2 DEF ClockParts
    <3>a. PICK t \in Nat : t < Size["u64"] /\ E[j] = push_entry(m, t) /\ xs[j] = <<m % Size["u64"], t>>
      BY <3>1
    <3>2. Took(read_entry(s), p, q + Len(push_entry(m, t)), k, Add(g, <<m % Size["u64"], t>>))
      BY <2>1, <3>a, TookEntry
    <3>3. Step("entry", s, E[j]) = read_entry(s)
      BY DEF Step
    <3>4. QED  BY <3>a, <3>2, <3>3
  <2>2. QED  BY <2>1 DEF Reads
<1>5. FlattenSeq(E) \in Seq(Field)
  <2>1. PICK e : Flat(E, n, e)
    BY <1>2, FlattenedUp
  <2>2. QED  BY <2>1, <1>2 DEF Flat
<1>6. Len(push_frontier(f)) = 1 + Len(FlattenSeq(E))
  <2>1. push("u16", n) \in Seq(Field) /\ Len(push("u16", n)) = 1
    BY <1>2, Words DEF Number
  <2>2. PICK A, F : A = push("u16", n) /\ F = FlattenSeq(E)
    OBVIOUS
  <2>3. Len(Cat(A, F)) = Len(A) + Len(F)
    BY <1>5, <2>1, <2>2, CatApart
  <2>4. push_frontier(f) = Cat(A, F)
    BY <1>2, <1>3, <2>2 DEF Cat
  <2>5. QED  BY <2>1, <2>2, <2>3, <2>4
<1>7. Took(MapReader("entry", r), p, i + (1 + Len(FlattenSeq(E))), k, Add(got, MapOf(xs)))
  <2>1. Lies(p, i, push("u16", Len(E)) \o FlattenSeq(E))
    BY <1>3
  <2>2. QED  BY <2>1, <1>2, <1>4, TookMap
<1>8. QED  BY <1>2, <1>6, <1>7 DEF MapReader

LEMMA Frontiers ==
  ASSUME NEW f, NEW h, Clocked(f, h)
  PROVE  push_frontier(f) \in Seq(Field)
<1>1. PICK n, E, xs : ClockParts(f, h, n, E, xs)
  BY DEF Clocked
<1>2. n \in Nat /\ E \in Seq(Seq(Field)) /\ Len(E) = n
  BY <1>1 DEF ClockParts
<1>3. push_frontier(f) = push("u16", n) \o FlattenSeq(E)
  BY <1>1 DEF ClockParts
<1>4. FlattenSeq(E) \in Seq(Field)
  <2>1. PICK e : Flat(E, n, e)
    BY <1>2, FlattenedUp
  <2>2. QED  BY <2>1, <1>2 DEF Flat
<1>5. push("u16", n) \in Seq(Field)
  BY <1>2, Words DEF Number
<1>6. push("u16", n) \o FlattenSeq(E) \in Seq(Field)
  BY <1>4, <1>5, ConcatProperties
<1>7. QED  BY <1>3, <1>6

LEMMA NextFrontier ==
  ASSUME NEW p, NEW k, NEW i, NEW P, NEW got, NEW r, Reached(r, p, i, P, k, got),
         NEW f, NEW h, Clocked(f, h), Lies(p, i, Cat(P, push_frontier(f)))
  PROVE  Reached(read_frontier(r), p, i, Cat(P, push_frontier(f)), k, Add(got, h))
<1>1. PICK F, s : F = push_frontier(f) /\ s = read_frontier(r)
  OBVIOUS
<1>2. F \in Seq(Field)
  BY <1>1, Frontiers
<1>3. ASSUME NEW j \in Nat, Took(r, p, j, k, got), Lies(p, j, F)
      PROVE  Took(s, p, j + Len(F), k, Add(got, h))
  <2>1. Payload(p, k) /\ Listed(got) /\ Lies(p, j, push_frontier(f))
    BY <1>1, <1>3 DEF Reached
  <2>2. QED  BY <1>1, <1>3, <2>1, TookClocks
<1>4. Lies(p, i, Cat(P, F))
  BY <1>1
<1>5. Reached(s, p, i, Cat(P, F), k, Add(got, h))
  BY <1>2, <1>3, <1>4, Onwards
<1>6. QED  BY <1>1, <1>5

-----------------------------------------------------------------------------
(* The edge: its head, and one of two tails. *)

LEMMA CatAlong ==
  ASSUME NEW A \in Seq(Field), NEW B \in Seq(Field), NEW G \in Seq(Field)
  PROVE  Cat(A, Cat(B, G)) = Cat(Cat(A, B), G)
BY ConcatAssociative DEF Cat

LEMMA BackOne ==
  ASSUME NEW g, Listed(g), NEW x, NEW m \in Nat, m <= Len(g)
  PROVE  Before(Add(g, x), m + 1) = Before(g, m)
<1>1. PICK S : g \in Seq(S)
  BY DEF Listed
<1>2. PICK n, h, j : n = Len(g) /\ h = Add(g, x) /\ j = n - m
  OBVIOUS
<1>3. n \in Nat /\ j \in Nat /\ j <= n /\ Len(h) = n + 1 /\ \A i \in 1 .. n : h[i] = g[i]
  <2>1. n \in Nat
    BY <1>1, <1>2, LenProperties
  <2>2. Len(h) = n + 1 /\ \A i \in 1 .. n : h[i] = g[i]
    BY <1>2, <2>1, Grown
  <2>3. QED  BY <1>2, <2>1, <2>2
<1>4. SubSeq(h, 1, j) = SubSeq(g, 1, j)
  <2>1. SubSeq(h, 1, j) = [i \in 1 .. (1 + j - 1) |-> h[i + 1 - 1]]
    BY <1>3
  <2>2. SubSeq(g, 1, j) = [i \in 1 .. (1 + j - 1) |-> g[i + 1 - 1]]
    BY <1>3
  <2>3. \A i \in 1 .. (1 + j - 1) : h[i + 1 - 1] = g[i + 1 - 1]
    <3>1. ASSUME NEW i \in 1 .. (1 + j - 1) PROVE h[i + 1 - 1] = g[i + 1 - 1]
      <4>1. i \in 1 .. n /\ i + 1 - 1 = i
        BY <1>3
      <4>2. QED  BY <1>3, <4>1
    <3>2. QED  BY <3>1
  <2>4. QED  BY <2>1, <2>2, <2>3
<1>5. Len(h) - (m + 1) = j /\ Len(g) - m = j
  BY <1>2, <1>3
<1>6. QED  BY <1>2, <1>4, <1>5 DEF Before

LEMMA BackNone ==
  ASSUME NEW g, Listed(g)
  PROVE  Before(g, 0) = g /\ Len(g) \in Nat
<1>1. PICK S : g \in Seq(S)
  BY DEF Listed
<1>2. Len(g) \in Nat /\ SubSeq(g, 1, Len(g)) = g
  BY <1>1, LenProperties, SubSeqFull
<1>3. Len(g) - 0 = Len(g)
  BY <1>2
<1>4. QED  BY <1>2, <1>3 DEF Before

\* A thing made of the last m things read.
LEMMA NextMade ==
  ASSUME NEW p, NEW k, NEW i, NEW P, NEW got, NEW r, Reached(r, p, i, P, k, got),
         NEW m \in Nat, NEW h, Listed(h), h = Before(got, m), NEW x, NEW y, r.got = got => x = y
  PROVE  Reached(Made(r, m, x), p, i, P, k, Add(h, y))
<1>1. PICK j : j = i + Len(P)
  OBVIOUS
<1>2. /\ Payload(p, k) /\ i \in Nat /\ P \in Seq(Field) /\ Took(r, p, j, k, got) /\ k \in Int
  BY <1>1 DEF Reached, Payload
<1>3. j \in Nat
  BY <1>1, <1>2, LenProperties
<1>4. j <= k => x = y
  BY <1>2, <1>3, TookGot
<1>5. h = SubSeq(got, 1, Len(got) - m)
  BY DEF Before
<1>6. Took(Made(r, m, x), p, j, k, Append(h, y))
  BY <1>2, <1>3, <1>4, <1>5, TookMade
<1>7. Took(Made(r, m, x), p, j, k, Add(h, y))
  BY <1>6 DEF Add
<1>8. Listed(Add(h, y))
  BY Adds
<1>9. QED  BY <1>1, <1>2, <1>7, <1>8 DEF Reached

LEMMA GotSix ==
  ASSUME NEW a, NEW b, NEW d, NEW e, NEW f, NEW w, NEW h, h = Add(Add(Add(Add(Add(<<>>, a), b), d), e), f),
         NEW g, g = Add(h, w)
  PROVE  /\ Listed(g) /\ Len(g) = 6
         /\ g[1] = a /\ g[2] = b /\ g[3] = d /\ g[4] = e /\ g[5] = f /\ g[6] = w
<1>2. Listed(h) /\ Len(h) = 5 /\ h[1] = a /\ h[2] = b /\ h[3] = d /\ h[4] = e /\ h[5] = f
  BY GotFive
<1>3. PICK n : n = 5
  OBVIOUS
<1>4. /\ Listed(Add(h, w)) /\ Len(Add(h, w)) = n + 1 /\ Add(h, w)[n + 1] = w
      /\ \A j \in 1 .. n : Add(h, w)[j] = h[j]
  <2>1. n \in Nat /\ Listed(h) /\ Len(h) = n
    BY <1>2, <1>3
  <2>2. QED  BY <2>1, Grown
<1>5. QED  BY <1>2, <1>3, <1>4

EdgeHead(e, s, t, tag, b, name) ==
  Cat(Cat(Cat(Cat(Cat(push("u64", e), push("u64", s)), push("u64", t)), push("u8", tag)), push("u8", b)),
      push_str(name))
EdgeGot(e, s, t, tag, b, name) ==
  Add(Add(Add(Add(Add(Add(<<>>, e % Size["u64"]), s % Size["u64"]), t % Size["u64"]), tag), b), name)
EdgeRead(r) ==
  LET e == read_str(read_all(r, <<"u64", "u64", "u64", "u8", "u8">>))
      p == expect(e, e.got[5] < Len(PortOf), "UnknownPortKind")
  IN  expect(p, p.got[4] \in {0, 1}, "UnknownDepKind")

LEMMA EdgeGots ==
  ASSUME NEW e, NEW s, NEW t, NEW tag, NEW b, NEW name, NEW g, g = EdgeGot(e, s, t, tag, b, name)
  PROVE  /\ Listed(g) /\ Len(g) = 6 /\ g[1] = e % Size["u64"] /\ g[2] = s % Size["u64"]
         /\ g[3] = t % Size["u64"] /\ g[4] = tag /\ g[5] = b /\ g[6] = name
BY GotSix DEF EdgeGot

LEMMA EdgeHeads ==
  ASSUME NEW e \in Nat, NEW s \in Nat, NEW t \in Nat, NEW tag \in {0, 1}, NEW b \in 0 .. 3, NEW name \in Text
  PROVE  EdgeHead(e, s, t, tag, b, name) \in Seq(Field)
<1>1. push("u64", e) \in Seq(Field) /\ push("u64", s) \in Seq(Field) /\ push("u64", t) \in Seq(Field)
  BY Narrowing
<1>2. push("u8", tag) \in Seq(Field) /\ push("u8", b) \in Seq(Field)
  <2>1. tag \in Nat /\ b \in Nat
    OBVIOUS
  <2>2. QED  BY <2>1, Bytes
<1>3. push_str(name) \in Seq(Field)
  BY Strings
<1>4. PICK A, B, G, F, H, K : /\ A = push("u64", e) /\ B = push("u64", s) /\ G = push("u64", t)
                              /\ F = push("u8", tag) /\ H = push("u8", b) /\ K = push_str(name)
  OBVIOUS
<1>5. Cat(A, B) \in Seq(Field)
  BY <1>1, <1>4, CatApart
<1>6. Cat(Cat(A, B), G) \in Seq(Field)
  BY <1>1, <1>4, <1>5, CatApart
<1>7. Cat(Cat(Cat(A, B), G), F) \in Seq(Field)
  BY <1>2, <1>4, <1>6, CatApart
<1>8. Cat(Cat(Cat(Cat(A, B), G), F), H) \in Seq(Field)
  BY <1>2, <1>4, <1>7, CatApart
<1>9. Cat(Cat(Cat(Cat(Cat(A, B), G), F), H), K) \in Seq(Field)
  BY <1>3, <1>4, <1>8, CatApart
<1>10. QED  BY <1>4, <1>9 DEF EdgeHead

LEMMA HeadRead ==
  ASSUME NEW e \in Nat, NEW s \in Nat, NEW t \in Nat, NEW tag \in {0, 1}, NEW b \in 0 .. 3, NEW name \in Text,
         NEW H, H = EdgeHead(e, s, t, tag, b, name), NEW g, g = EdgeGot(e, s, t, tag, b, name),
         NEW p \in Seq(Field), NEW k \in 0 .. Len(p), Lies(p, 0, H)
  PROVE  Reached(EdgeRead(Reader(SubSeq(p, 1, k))), p, 0, H, k, g)
<1>1. PICK r : r = Reader(SubSeq(p, 1, k))
  OBVIOUS
<1>2. Reached(r, p, 0, <<>>, k, <<>>) /\ Cat(<<>>, push("u64", e)) = push("u64", e) /\ Len(p) \in Nat
  <2>1. push("u64", e) \in Seq(Field)
    BY Narrowing
  <2>2. QED  BY <1>1, <2>1, Payloads
<1>3. PICK G : G = Cat(Cat(Cat(Cat(Cat(<<>>, push("u64", e)), push("u64", s)), push("u64", t)),
                          push("u8", tag)), push("u8", b))
  OBVIOUS
<1>4. H = Cat(G, push_str(name))
  BY <1>2, <1>3 DEF EdgeHead
<1>5. tag \in Nat /\ b \in Nat /\ tag % Size["u8"] = tag /\ b % Size["u8"] = b
  <2>1. tag \in Nat /\ b \in Nat /\ tag <= 11 /\ b <= 11
    OBVIOUS
  <2>2. QED  BY <2>1, Bytes
<1>6. G \in Seq(Field)
  <2>1. push("u64", e) \in Seq(Field) /\ push("u64", s) \in Seq(Field) /\ push("u64", t) \in Seq(Field)
    BY Narrowing
  <2>2. push("u8", tag) \in Seq(Field) /\ push("u8", b) \in Seq(Field)
    BY <1>5, Bytes
  <2>3. PICK A, B, D, F, K : /\ A = push("u64", e) /\ B = push("u64", s) /\ D = push("u64", t)
                             /\ F = push("u8", tag) /\ K = push("u8", b)
    OBVIOUS
  <2>4. Cat(A, B) \in Seq(Field)
    BY <2>1, <2>3, CatApart
  <2>5. Cat(Cat(A, B), D) \in Seq(Field)
    BY <2>1, <2>3, <2>4, CatApart
  <2>6. Cat(Cat(Cat(A, B), D), F) \in Seq(Field)
    BY <2>2, <2>3, <2>5, CatApart
  <2>7. Cat(Cat(Cat(Cat(A, B), D), F), K) \in Seq(Field)
    BY <2>2, <2>3, <2>6, CatApart
  <2>8. QED  BY <1>2, <1>3, <2>3, <2>7
<1>7. Lies(p, 0, G)
  <2>1. push_str(name) \in Seq(Field)
    BY Strings
  <2>2. QED  BY <1>2, <1>4, <1>6, <2>1, Prefix
<1>8. PICK h : h = Add(Add(Add(Add(Add(<<>>, e % Size["u64"]), s % Size["u64"]), t % Size["u64"]), tag), b)
  OBVIOUS
<1>9. PICK r1, r2, r3, r4 :
        /\ r1 = read_all(r, <<"u64", "u64", "u64", "u8", "u8">>) /\ r2 = read_str(r1)
        /\ r3 = expect(r2, r2.got[5] < Len(PortOf), "UnknownPortKind")
        /\ r4 = expect(r3, r3.got[4] \in {0, 1}, "UnknownDepKind")
  OBVIOUS
<1>10. Reached(r1, p, 0, G, k, h)
  <2>1. Lies(p, 0, Cat(Cat(Cat(Cat(Cat(<<>>, push("u64", e)), push("u64", s)), push("u64", t)),
                          push("u8", tag)), push("u8", b)))
    BY <1>3, <1>7
  <2>2. PICK w, v : w = "u64" /\ v = "u8"
    OBVIOUS
  <2>3. w \in Number /\ v \in Number
    BY <2>2 DEF Number
  <2>4. Lies(p, 0, Cat(Cat(Cat(Cat(Cat(<<>>, push(w, e)), push(w, s)), push(w, t)), push(v, tag)), push(v, b)))
    BY <2>1, <2>2
  <2>5. tag \in Nat /\ b \in Nat /\ Reached(r, p, 0, <<>>, k, <<>>)
    BY <1>2, <1>5
  <2>6. Reached(read_all(r, <<w, w, w, v, v>>), p, 0,
                Cat(Cat(Cat(Cat(Cat(<<>>, push(w, e)), push(w, s)), push(w, t)), push(v, tag)), push(v, b)), k,
                Add(Add(Add(Add(Add(<<>>, e % Size[w]), s % Size[w]), t % Size[w]), tag % Size[v]), b % Size[v]))
    BY <2>3, <2>4, <2>5, e \in Nat, s \in Nat, t \in Nat, MoreFive, ZenonT(60)
  <2>7. QED  BY <1>3, <1>5, <1>8, <1>9, <2>2, <2>6
<1>11. Reached(r2, p, 0, H, k, g)
  <2>1. Lies(p, 0, Cat(G, push_str(name)))
    BY <1>4
  <2>2. Reached(read_str(r1), p, 0, Cat(G, push_str(name)), k, Add(h, name))
    BY <1>10, <2>1, NextStr
  <2>3. g = Add(h, name)
    BY <1>8 DEF EdgeGot
  <2>4. QED  BY <1>4, <1>9, <2>2, <2>3
<1>12. g[4] \in {0, 1} /\ g[5] < Len(PortOf)
  <2>1. g[4] = tag /\ g[5] = b
    BY EdgeGots
  <2>2. Len(PortOf) = 4
    BY DEF PortOf
  <2>3. QED  BY <2>1, <2>2
<1>13. Reached(r3, p, 0, H, k, g)
  <2>1. PICK ok : ok = (r2.got[5] < Len(PortOf))
    OBVIOUS
  <2>2. r2.got = g => ok
    BY <1>12, <2>1
  <2>3. r3 = expect(r2, ok, "UnknownPortKind")
    BY <1>9, <2>1
  <2>4. QED  BY <1>11, <2>2, <2>3, NextExpect
<1>14. Reached(r4, p, 0, H, k, g)
  <2>1. PICK ok : ok = (r3.got[4] \in {0, 1})
    OBVIOUS
  <2>2. r3.got = g => ok
    BY <1>12, <2>1
  <2>3. r4 = expect(r3, ok, "UnknownDepKind")
    BY <1>9, <2>1
  <2>4. QED  BY <1>13, <2>2, <2>3, NextExpect
<1>15. EdgeRead(r) = r4
  BY <1>9 DEF EdgeRead
<1>16. QED  BY <1>1, <1>14, <1>15

\* What is read after the head, if there was all of it.
LEMMA Decided ==
  ASSUME NEW p, NEW k, NEW H, NEW g, NEW r, Reached(r, p, 0, H, k, g), NEW h, Listed(h), p \in Seq(Field),
         Len(H) <= Len(p), NEW d, Reached(d, p, 0, p, k, h),
         NEW c, r.err # "None" => c = r, r.err = "None" /\ r.got = g => c = d
  PROVE  Reached(c, p, 0, p, k, h)
<1>1. PICK n : n = Len(H)
  OBVIOUS
<1>2. Payload(p, k) /\ k \in Int /\ Len(p) \in Nat /\ H \in Seq(Field) /\ Took(r, p, 0 + Len(H), k, g)
  BY DEF Reached, Payload
<1>3. n \in Nat /\ Took(r, p, n, k, g)
  <2>1. n \in Nat /\ 0 + n = n
    BY <1>1, <1>2, LenProperties
  <2>2. QED  BY <2>1, <1>1, <1>2
<1>4. (n <= k => r.err = "None" /\ r.got = g) /\ (~(n <= k) => r.err = "PayloadTruncated")
  BY <1>2, <1>3, TookGot
<1>5. CASE n <= k
  BY <1>4, <1>5
<1>6. CASE ~(n <= k)
  <2>1. c.err = "PayloadTruncated"
    BY <1>4, <1>6
  <2>2. ~(0 + Len(p) <= k)
    BY <1>1, <1>2, <1>3, <1>6
  <2>3. Took(c, p, 0 + Len(p), k, h)
    BY <2>1, <2>2 DEF Took
  <2>4. QED  BY <2>3, <1>2 DEF Reached
<1>7. QED  BY <1>5, <1>6

EdgeAs(a, b, d, y) ==
  [op |-> "EdgeConnect", edge |-> a, src |-> b, tgt |-> d, typ |-> "dep", dep |-> y]
EdgeLocal(k) ==
  [kind |-> "Local",
   port |-> IF k.got[6] = "" THEN <<>> ELSE <<[name |-> k.got[6], kind |-> PortOf[k.got[5] + 1]]>>]
EdgeEnd(k) ==
  IF k.err # "None" THEN k
  ELSE IF k.got[4] = 1 THEN parse_remote(k, PortOf[k.got[5] + 1])
  ELSE Made(k, 0, EdgeLocal(k))
EdgeParsed(c) ==
  Parsed(c, [op |-> "EdgeConnect", edge |-> c.got[1], src |-> c.got[2],
             tgt |-> c.got[3], typ |-> "dep", dep |-> c.got[7]])

LEMMA EdgeSteps ==
  ASSUME NEW r
  PROVE  parse_edge_connect(r) = EdgeParsed(EdgeEnd(EdgeRead(r)))
BY DEF parse_edge_connect, EdgeParsed, EdgeEnd, EdgeRead, EdgeLocal

LEMMA EdgeDelivered ==
  ASSUME NEW e, NEW s, NEW t, NEW tag, NEW b, NEW name, NEW g, g = EdgeGot(e, s, t, tag, b, name), NEW y,
         NEW p, NEW k, NEW c, Reached(c, p, 0, p, k, Add(g, y))
  PROVE  EdgeParsed(c) = Verdict(p, k, EdgeAs(e % Size["u64"], s % Size["u64"], t % Size["u64"], y))
<1>1. PICK h, n : h = Add(g, y) /\ n = 6
  OBVIOUS
<1>2. Listed(g) /\ Len(g) = n /\ n \in Nat /\ g[1] = e % Size["u64"] /\ g[2] = s % Size["u64"] /\ g[3] = t % Size["u64"]
  BY <1>1, EdgeGots
<1>3. h[n + 1] = y /\ \A j \in 1 .. n : h[j] = g[j]
  <2>1. n \in Nat /\ Listed(g) /\ Len(g) = n
    BY <1>2
  <2>2. /\ Listed(Add(g, y)) /\ Len(Add(g, y)) = n + 1 /\ Add(g, y)[n + 1] = y
        /\ \A j \in 1 .. n : Add(g, y)[j] = g[j]
    BY <2>1, Grown
  <2>3. QED  BY <2>2, <1>1
<1>4. h[1] = e % Size["u64"] /\ h[2] = s % Size["u64"] /\ h[3] = t % Size["u64"] /\ h[7] = y
  BY <1>1, <1>2, <1>3
<1>5. PICK x, z : /\ x = [op |-> "EdgeConnect", edge |-> c.got[1], src |-> c.got[2],
                          tgt |-> c.got[3], typ |-> "dep", dep |-> c.got[7]]
                  /\ z = EdgeAs(e % Size["u64"], s % Size["u64"], t % Size["u64"], y)
  OBVIOUS
<1>6. c.got = h => x = z
  BY <1>4, <1>5 DEF EdgeAs
<1>7. Parsed(c, x) = Verdict(p, k, z)
  BY <1>1, <1>6, Outcome
<1>8. QED  BY <1>5, <1>7 DEF EdgeParsed

\* What the format has room for in a dependency.
DepRoom(dep) ==
  /\ \A id \in IdsOf(dep) : id < Size["u64"]
  /\ IF dep.kind = "Remote" THEN Narrow(dep) /\ \A x \in DOMAIN dep.frontier : x < Size["u64"]
     ELSE dep.port # <<>> => Head(dep.port).name # ""

DepAs(dep, y) == (IsLocal(y) \/ IsRemote(y)) /\ DepRoom(y) /\ (DepRoom(dep) => y = dep)

LEMMA EdgeIds ==
  ASSUME NEW x, NEW u, NEW v, NEW w, NEW z, DOMAIN x = {"op", "edge", "src", "tgt", "typ", "dep"},
         x.edge = u, x.src = v, x.tgt = w, x.dep = z
  PROVE  IdsIn(x) = {u, v, w} \cup IdsOf(z)
<1>1. DOMAIN x \cap IdFields = {"edge", "src", "tgt"}
  BY DEF IdFields
<1>2. IdsOf(x) = {u, v, w}
  BY <1>1 DEF IdsOf
<1>3. "dep" \in DOMAIN x /\ "boundary" \notin DOMAIN x /\ "ids" \notin DOMAIN x
  OBVIOUS
<1>4. IdsIn(x) = IdsOf(x) \cup IdsOf(x.dep) \cup {} \cup {}
  BY <1>3, Zenon DEF IdsIn
<1>5. QED  BY <1>2, <1>4

LEMMA EdgeFits ==
  ASSUME NEW e \in Nat, NEW s \in Nat, NEW t \in Nat, NEW typ, NEW dep, NEW y, DepAs(dep, y),
         NEW o, o = [op |-> "EdgeConnect", edge |-> e, src |-> s, tgt |-> t, typ |-> typ, dep |-> dep],
         NEW c, c = EdgeAs(e % Size["u64"], s % Size["u64"], t % Size["u64"], y)
  PROVE  Fits(o, c)
<1>1. PICK a, b, d : a = e % Size["u64"] /\ b = s % Size["u64"] /\ d = t % Size["u64"]
  OBVIOUS
<1>2. a \in Nat /\ a < Size["u64"] /\ (e < Size["u64"] => a = e)
  BY <1>1, Narrowing
<1>3. b \in Nat /\ b < Size["u64"] /\ (s < Size["u64"] => b = s)
  BY <1>1, Narrowing
<1>4. d \in Nat /\ d < Size["u64"] /\ (t < Size["u64"] => d = t)
  BY <1>1, Narrowing
<1>5. c = [op |-> "EdgeConnect", edge |-> a, src |-> b, tgt |-> d, typ |-> "dep", dep |-> y]
  BY <1>1 DEF EdgeAs
<1>6. /\ c.op = "EdgeConnect" /\ c.edge = a /\ c.src = b /\ c.tgt = d /\ c.typ = "dep" /\ c.dep = y
      /\ DOMAIN c = {"op", "edge", "src", "tgt", "typ", "dep"}
  BY <1>5
<1>7. /\ o.op = "EdgeConnect" /\ o.edge = e /\ o.src = s /\ o.tgt = t /\ o.typ = typ /\ o.dep = dep
      /\ DOMAIN o = {"op", "edge", "src", "tgt", "typ", "dep"}
  OBVIOUS
<1>8. IsOperation(c)
  <2>1. IsLocal(y) \/ IsRemote(y)
    BY DEF DepAs
  <2>2. /\ c.op = "EdgeConnect"
        /\ c = [op |-> "EdgeConnect", edge |-> c.edge, src |-> c.src, tgt |-> c.tgt,
                typ |-> c.typ, dep |-> c.dep]
        /\ {c.edge, c.src, c.tgt} \subseteq Nat
        /\ IsLocal(c.dep) \/ IsRemote(c.dep)
    <3>1. c = [op |-> "EdgeConnect", edge |-> c.edge, src |-> c.src, tgt |-> c.tgt,
                typ |-> c.typ, dep |-> c.dep]
      BY <1>5, <1>6
    <3>2. IsLocal(c.dep) \/ IsRemote(c.dep)
      BY <1>6, <2>1, Zenon
    <3>3. {c.edge, c.src, c.tgt} \subseteq Nat
      BY <1>2, <1>3, <1>4, <1>6
    <3>4. QED  BY <3>1, <3>2, <3>3, <1>6, Zenon
  <2>3. QED  BY <2>2, Zenon DEF IsOperation
<1>9. IdsIn(c) = {a, b, d} \cup IdsOf(y)
  BY <1>6, EdgeIds
<1>10. IdsIn(c) = {a, b, d} \cup IdsOf(y) /\ IdsIn(o) = {e, s, t} \cup IdsOf(dep)
  <2>1. IdsIn(o) = {e, s, t} \cup IdsOf(dep)
    BY <1>7, EdgeIds
  <2>2. QED  BY <1>9, <2>1
<1>11. Expressible(c)
  <2>1. DepRoom(y)
    BY DEF DepAs
  <2>2. \A id \in IdsIn(c) : id < Size["u64"]
    BY <1>2, <1>3, <1>4, <1>10, <2>1 DEF DepRoom
  <2>3. /\ c.typ = "dep"
        /\ IF c.dep.kind = "Remote" THEN Narrow(c.dep) /\ \A x \in DOMAIN c.dep.frontier : x < Size["u64"]
           ELSE c.dep.port # <<>> => Head(c.dep.port).name # ""
    BY <1>6, <2>1 DEF DepRoom
  <2>4. QED  BY <1>6, <2>2, <2>3 DEF Expressible
<1>12. ASSUME Expressible(o) PROVE c = o
  <2>1. /\ \A id \in IdsIn(o) : id < Size["u64"]
        /\ o.typ = "dep"
        /\ IF o.dep.kind = "Remote" THEN Narrow(o.dep) /\ \A x \in DOMAIN o.dep.frontier : x < Size["u64"]
           ELSE o.dep.port # <<>> => Head(o.dep.port).name # ""
    BY <1>7, <1>12 DEF Expressible
  <2>2. DepRoom(dep) /\ typ = "dep"
    BY <1>7, <1>10, <2>1 DEF DepRoom
  <2>3. e < Size["u64"] /\ s < Size["u64"] /\ t < Size["u64"]
    BY <1>10, <2>1
  <2>4. y = dep /\ a = e /\ b = s /\ d = t
    BY <1>2, <1>3, <1>4, <2>2, <2>3 DEF DepAs
  <2>5. QED  BY <1>5, <2>2, <2>4
<1>13. QED  BY <1>6, <1>7, <1>8, <1>11, <1>12 DEF Fits

-----------------------------------------------------------------------------
(* Edges within the engine *)

LocalOf(b, name) ==
  [kind |-> "Local", port |-> IF name = "" THEN <<>> ELSE <<[name |-> name, kind |-> PortOf[b + 1]]>>]

LocalParts(dep, b, name) ==
  /\ b \in 0 .. 3 /\ name \in Text
  /\ write_local(dep) = Cat(Cat(push("u8", 0), push("u8", b)), push_str(name))
  /\ DepAs(dep, LocalOf(b, name))

LEMMA LocalAs ==
  ASSUME NEW b \in 0 .. 3, NEW name \in Text, NEW y, y = LocalOf(b, name)
  PROVE  IsLocal(y) /\ DepRoom(y)
<1>1. PICK q : q = PortOf[b + 1]
  OBVIOUS
<1>2. q \in DOMAIN port_byte
  <2>1. b = 0 \/ b = 1 \/ b = 2 \/ b = 3
    OBVIOUS
  <2>2. QED  BY <1>1, <2>1 DEF PortOf, port_byte
<1>3. PICK P : P = IF name = "" THEN <<>> ELSE <<[name |-> name, kind |-> q]>>
  OBVIOUS
<1>4. y = [kind |-> "Local", port |-> P]
  BY <1>1, <1>3 DEF LocalOf
<1>5. P \in Seq([name : Text, kind : DOMAIN port_byte]) /\ Len(P) <= 1 /\ (P # <<>> => Head(P).name # "")
  <2>1. CASE name = ""
    <3>1. P = <<>> /\ Len(<<>>) = 0
      BY <1>3, <2>1, EmptySeq
    <3>2. <<>> \in Seq([name : Text, kind : DOMAIN port_byte])
      BY EmptySeq
    <3>3. QED  BY <3>1, <3>2
  <2>2. CASE name # ""
    <3>1. PICK v : v = [name |-> name, kind |-> q]
      OBVIOUS
    <3>2. v \in [name : Text, kind : DOMAIN port_byte] /\ v.name = name
      BY <1>2, <3>1
    <3>3. P = <<v>>
      BY <1>3, <2>2, <3>1
    <3>4. P \in Seq([name : Text, kind : DOMAIN port_byte]) /\ Len(P) = 1 /\ Head(P) = v
      BY <3>2, <3>3
    <3>5. Head(P).name # ""
      <4>1. Head(P) = v /\ v.name # ""
        BY <3>2, <3>4, <2>2
      <4>2. QED  BY <4>1, Zenon
    <3>6. Len(P) <= 1
      BY <3>4
    <3>7. QED  BY <3>4, <3>5, <3>6, Zenon
  <2>3. QED  BY <2>1, <2>2
<1>6. y.kind = "Local" /\ y.port = P /\ DOMAIN y = {"kind", "port"}
  BY <1>4
<1>7. IsLocal(y)
  BY <1>4, <1>5, <1>6 DEF IsLocal
<1>8. IdsOf(y) = {}
  BY <1>6 DEF IdsOf, IdFields
<1>9. QED  BY <1>5, <1>6, <1>7, <1>8 DEF DepRoom

LEMMA LocalApart ==
  ASSUME NEW dep, IsLocal(dep)
  PROVE  \E b, name : LocalParts(dep, b, name)
<1>0. "" \in Text
  BY WireAssumption
<1>1. /\ dep \in [kind : {"Local"}, port : Seq([name : Text, kind : DOMAIN port_byte])]
      /\ Len(dep.port) <= 1
  BY DEF IsLocal
<1>2. PICK P : P = dep.port
  OBVIOUS
<1>3. /\ P \in Seq([name : Text, kind : DOMAIN port_byte]) /\ Len(P) <= 1
      /\ dep = [kind |-> "Local", port |-> P] /\ dep.kind = "Local" /\ dep.port = P
  BY <1>1, <1>2
<1>4. CASE P = <<>>
  <2>1. write_local(dep) = Cat(Cat(push("u8", 0), push("u8", 0)), push_str(""))
    BY <1>3, <1>4 DEF write_local, Cat
  <2>2. LocalOf(0, "") = dep
    BY <1>3, <1>4 DEF LocalOf
  <2>3. DepAs(dep, LocalOf(0, ""))
    <3>z. PICK b \in 0 .. 3 : b = 0
      OBVIOUS
    <3>0. PICK name \in Text : name = ""
      BY <1>0
    <3>b. IsLocal(LocalOf(b, name)) /\ DepRoom(LocalOf(b, name))
      BY LocalAs
    <3>1. IsLocal(LocalOf(0, "")) /\ DepRoom(LocalOf(0, ""))
      BY <3>z, <3>0, <3>b, Zenon
    <3>2. QED  BY <2>2, <3>1, Zenon DEF DepAs
  <2>4. LocalParts(dep, 0, "")
    <3>1. 0 \in 0 .. 3
      OBVIOUS
    <3>2. QED  BY <3>1, <1>0, <2>1, <2>3, Zenon DEF LocalParts
  <2>5. QED  BY <2>4
<1>5. CASE P # <<>>
  <2>1. PICK v : v = Head(P)
    OBVIOUS
  <2>2. v \in [name : Text, kind : DOMAIN port_byte] /\ P = <<v>>
    <3>1. Len(P) = 1 /\ P[1] \in [name : Text, kind : DOMAIN port_byte] /\ v = P[1]
      <4>1. PICK V : V = [name : Text, kind : DOMAIN port_byte]
        OBVIOUS
      <4>2. P \in Seq(V) /\ Len(P) <= 1 /\ P # <<>>
        BY <4>1, <1>3, <1>5
      <4>3. Len(P) \in Nat /\ Len(P) # 0
        BY <4>2, LenProperties, EmptySeq
      <4>4. Len(P) = 1
        BY <4>2, <4>3
      <4>5. P[1] \in V
        BY <4>2, <4>4, ElementOfSeq
      <4>6. v = P[1]
        BY <2>1, <4>2, <4>4
      <4>7. QED  BY <4>1, <4>4, <4>5, <4>6
    <3>2. P = <<P[1]>>
      BY <1>3, <3>1
    <3>3. QED  BY <3>1, <3>2
  <2>3. PICK b, name : b = port_byte[v.kind] /\ name = v.name
    OBVIOUS
  <2>4. b \in 0 .. 3 /\ PortOf[b + 1] = v.kind
    <3>1. v.kind \in {"Signal", "Effort", "Flow", "Bond"}
      BY <2>2 DEF port_byte
    <3>2. QED  BY <2>3, <3>1 DEF port_byte, PortOf
  <2>5. name \in Text /\ v = [name |-> name, kind |-> PortOf[b + 1]]
    BY <2>2, <2>3, <2>4
  <2>6. write_local(dep) = Cat(Cat(push("u8", 0), push("u8", b)), push_str(name))
    BY <1>3, <1>5, <2>1, <2>3 DEF write_local, Cat
  <2>7. DepAs(dep, LocalOf(b, name))
    <3>1. IsLocal(LocalOf(b, name)) /\ DepRoom(LocalOf(b, name))
      BY <2>4, <2>5, LocalAs
    <3>2. ASSUME DepRoom(dep) PROVE LocalOf(b, name) = dep
      <4>1. name # ""
        BY <3>2, <1>3, <1>5, <2>1, <2>3 DEF DepRoom
      <4>2. QED  BY <4>1, <1>3, <2>2, <2>5 DEF LocalOf
    <3>3. QED  BY <3>1, <3>2, Zenon DEF DepAs
  <2>8. LocalParts(dep, b, name)
    BY <2>4, <2>5, <2>6, <2>7 DEF LocalParts
  <2>9. QED  BY <2>8
<1>6. QED  BY <1>4, <1>5

LEMMA LocalOps ==
  ASSUME NEW e \in Nat, NEW s \in Nat, NEW t \in Nat, NEW typ, NEW dep, IsLocal(dep),
         NEW o, o = [op |-> "EdgeConnect", edge |-> e, src |-> s, tgt |-> t, typ |-> typ, dep |-> dep]
  PROVE  Carried(o)
<1>1. PICK b, name : LocalParts(dep, b, name)
  BY LocalApart
<1>2. /\ b \in 0 .. 3 /\ name \in Text
      /\ write_local(dep) = Cat(Cat(push("u8", 0), push("u8", b)), push_str(name))
      /\ DepAs(dep, LocalOf(b, name))
  BY <1>1 DEF LocalParts
<1>3. PICK p, g, y, c : /\ p = EdgeHead(e, s, t, 0, b, name) /\ g = EdgeGot(e, s, t, 0, b, name)
                        /\ y = LocalOf(b, name)
                        /\ c = EdgeAs(e % Size["u64"], s % Size["u64"], t % Size["u64"], y)
  OBVIOUS
<1>4. p \in Seq(Field)
  BY <1>2, <1>3, EdgeHeads
<1>5. write_payload(o) = p
  <2>1. PICK A, F, H, K : /\ A = Cat(Cat(push("u64", e), push("u64", s)), push("u64", t))
                          /\ F = push("u8", 0) /\ H = push("u8", b) /\ K = push_str(name)
    OBVIOUS
  <2>2. A \in Seq(Field)
    <3>1. push("u64", e) \in Seq(Field) /\ push("u64", s) \in Seq(Field) /\ push("u64", t) \in Seq(Field)
      BY Narrowing
    <3>2. Cat(push("u64", e), push("u64", s)) \in Seq(Field)
      BY <3>1, CatApart
    <3>3. QED  BY <3>1, <3>2, <2>1, CatApart
  <2>3. F \in Seq(Field) /\ H \in Seq(Field) /\ K \in Seq(Field)
    <3>1. F \in Seq(Field) /\ H \in Seq(Field)
      <4>1. b \in Nat /\ 0 \in Nat
        BY <1>2
      <4>2. QED  BY <4>1, <2>1, Bytes
    <3>2. K \in Seq(Field)
      BY <1>2, <2>1, Strings
    <3>3. QED  BY <3>1, <3>2
  <2>4. Cat(F, H) \in Seq(Field)
    BY <2>3, CatApart
  <2>5. Cat(A, Cat(Cat(F, H), K)) = Cat(Cat(A, Cat(F, H)), K)
    BY <2>2, <2>3, <2>4, CatAlong
  <2>6. Cat(A, Cat(F, H)) = Cat(Cat(A, F), H)
    BY <2>2, <2>3, CatAlong
  <2>7. write_payload(o) = Cat(A, write_local(dep))
    <3>1. dep.kind = "Local"
      BY DEF IsLocal
    <3>2. push_uid(e) = push("u64", e) /\ push_uid(s) = push("u64", s) /\ push_uid(t) = push("u64", t)
      BY DEF push_uid
    <3>3. o.op = "EdgeConnect" /\ o.edge = e /\ o.src = s /\ o.tgt = t /\ o.dep = dep
      OBVIOUS
    <3>4. write_payload(o) = write_extension(o)
      BY <3>3 DEF write_payload
    <3>5. write_extension(o) = ((push_uid(e) \o push_uid(s)) \o push_uid(t)) \o write_local(dep)
      BY <3>1, <3>3 DEF write_extension
    <3>6. QED  BY <3>2, <3>4, <3>5, <2>1 DEF Cat
  <2>8. p = Cat(Cat(Cat(A, F), H), K)
    BY <1>3, <2>1 DEF EdgeHead
  <2>9. QED  BY <2>1, <2>5, <2>6, <2>7, <2>8, <1>2
<1>6. ASSUME NEW k \in 0 .. Len(p)
      PROVE  parse_edge_connect(Reader(SubSeq(p, 1, k))) = Verdict(p, k, c)
  <2>1. PICK r, d, h, x : /\ r = EdgeRead(Reader(SubSeq(p, 1, k))) /\ x = EdgeLocal(r)
                          /\ d = Made(r, 0, x) /\ h = Add(g, y)
    OBVIOUS
  <2>2. Lies(p, 0, p) /\ Len(p) \in Nat
    BY <1>4, Payloads
  <2>3. Reached(r, p, 0, p, k, g)
    BY <1>2, <1>3, <1>4, <2>1, <2>2, HeadRead
  <2>4. Listed(g) /\ g[4] = 0 /\ g[5] = b /\ g[6] = name
    BY <1>3, EdgeGots
  <2>5. r.got = g => x = y
    BY <1>3, <2>1, <2>4 DEF EdgeLocal, LocalOf
  <2>6. Reached(d, p, 0, p, k, h)
    <3>1. g = Before(g, 0)
      BY <2>4, BackNone
    <3>2. QED  BY <2>1, <2>3, <2>4, <2>5, <3>1, NextMade
  <2>7. Reached(EdgeEnd(r), p, 0, p, k, h)
    <3>1. PICK z : z = EdgeEnd(r)
      OBVIOUS
    <3>2. r.err # "None" => z = r
      BY <3>1 DEF EdgeEnd
    <3>3. r.err = "None" /\ r.got = g => z = d
      BY <3>1, <2>1, <2>4 DEF EdgeEnd
    <3>4. Listed(h)
      BY <2>1, <2>4, Adds
    <3>5. QED  BY <1>4, <2>2, <2>3, <2>6, <3>1, <3>2, <3>3, <3>4, Decided
  <2>8. EdgeParsed(EdgeEnd(r)) = Verdict(p, k, c)
    BY <1>3, <2>1, <2>7, EdgeDelivered
  <2>9. QED  BY <2>1, <2>8, EdgeSteps
<1>7. Delivers(opcode_for["EdgeConnect"], p, c)
  BY <1>4, <1>6, Opcodes DEF Delivers
<1>8. Fits(o, c)
  BY <1>2, <1>3, EdgeFits
<1>9. QED  BY <1>5, <1>7, <1>8 DEF Understood, Carried

-----------------------------------------------------------------------------
(* Edges from other partitions *)

EdgeIdText(e, s, t) == Cat(Cat(push("u64", e), push("u64", s)), push("u64", t))
EdgeDepText(tag, b, name) == Cat(Cat(push("u8", tag), push("u8", b)), push_str(name))

EdgeWords(e, s, t, tag, b, name) ==
  /\ e \in Nat /\ s \in Nat /\ t \in Nat
  /\ tag \in {0, 1} /\ b \in 0 .. 3 /\ name \in Text

LEMMA HeadWritten ==
  ASSUME NEW e, NEW s, NEW t, NEW tag, NEW b, NEW name, EdgeWords(e, s, t, tag, b, name)
  PROVE  /\ EdgeIdText(e, s, t) \in Seq(Field) /\ EdgeDepText(tag, b, name) \in Seq(Field)
         /\ Cat(EdgeIdText(e, s, t), EdgeDepText(tag, b, name)) = EdgeHead(e, s, t, tag, b, name)
<1>0. PICK A, W : A = EdgeIdText(e, s, t) /\ W = EdgeDepText(tag, b, name)
  OBVIOUS
<1>a. /\ A = Cat(Cat(push("u64", e), push("u64", s)), push("u64", t))
      /\ W = Cat(Cat(push("u8", tag), push("u8", b)), push_str(name))
  BY <1>0 DEF EdgeIdText, EdgeDepText
<1>w. e \in Nat /\ s \in Nat /\ t \in Nat /\ tag \in {0, 1} /\ b \in 0 .. 3 /\ name \in Text
  BY DEF EdgeWords
<1>1. PICK F, H, K : F = push("u8", tag) /\ H = push("u8", b) /\ K = push_str(name)
  OBVIOUS
<1>2. A \in Seq(Field)
  <2>1. push("u64", e) \in Seq(Field) /\ push("u64", s) \in Seq(Field) /\ push("u64", t) \in Seq(Field)
    BY <1>w, Narrowing
  <2>2. Cat(push("u64", e), push("u64", s)) \in Seq(Field)
    BY <2>1, CatApart
  <2>3. QED  BY <2>1, <2>2, <1>a, CatApart
<1>3. F \in Seq(Field) /\ H \in Seq(Field) /\ K \in Seq(Field)
  <2>1. F \in Seq(Field) /\ H \in Seq(Field)
    <3>1. b \in Nat /\ tag \in Nat
      BY <1>w
    <3>2. QED  BY <3>1, <1>1, Bytes
  <2>2. K \in Seq(Field)
    BY <1>1, <1>w, Strings
  <2>3. QED  BY <2>1, <2>2
<1>4. Cat(F, H) \in Seq(Field)
  BY <1>3, CatApart
<1>5. Cat(A, Cat(Cat(F, H), K)) = Cat(Cat(A, Cat(F, H)), K)
  BY <1>2, <1>3, <1>4, CatAlong
<1>6. Cat(A, Cat(F, H)) = Cat(Cat(A, F), H)
  BY <1>2, <1>3, CatAlong
<1>7. W \in Seq(Field)
  BY <1>1, <1>3, <1>4, <1>a, CatApart
<1>8. EdgeHead(e, s, t, tag, b, name) = Cat(Cat(Cat(A, F), H), K)
  BY <1>1, <1>a DEF EdgeHead
<1>9. QED  BY <1>0, <1>a, <1>1, <1>2, <1>5, <1>6, <1>7, <1>8


LEMMA Woven ==
  ASSUME NEW A \in Seq(Field), NEW W \in Seq(Field), NEW X \in Seq(Field), NEW V, V = Cat(A, W)
  PROVE  Cat(W, X) \in Seq(Field) /\ Cat(V, X) \in Seq(Field) /\ Cat(A, Cat(W, X)) = Cat(V, X)
<1>1. Cat(W, X) \in Seq(Field) /\ V \in Seq(Field)
  BY CatApart
<1>2. Cat(V, X) \in Seq(Field)
  BY <1>1, CatApart
<1>3. QED  BY <1>1, <1>2, CatAlong

LEMMA FirstOf ==
  ASSUME NEW p, Len(p) \in Nat, NEW V \in Seq(Field), NEW X \in Seq(Field), NEW U, U = Cat(V, X), Lies(p, 0, U)
  PROVE  Lies(p, 0, V)
BY Prefix

\* What comes before the authority.
Past(r) == read_frontier(read_kind(read_all(r, <<"u64", "u64", "u64">>)))

LEMMA PastRead ==
  ASSUME NEW p, NEW k, NEW r, NEW H, NEW g, Reached(r, p, 0, H, k, g),
         NEW l \in Nat, NEW m \in Nat, NEW n \in Nat, NEW z \in Zeros, NEW f, NEW h, Clocked(f, h),
         NEW U, U = Cat(Cat(Cat(H, push("u64", l)), push("u64", m)), push("u64", n)),
         NEW V, V = Cat(U, push_kind(z)), NEW W, W = Cat(V, push_frontier(f)), Lies(p, 0, W),
         NEW d, d = Add(Add(Add(Add(Add(g, l % Size["u64"]), m % Size["u64"]), n % Size["u64"]), z), h)
  PROVE  Reached(Past(r), p, 0, W, k, d)
<1>1. PICK w : w = "u64"
  OBVIOUS
<1>2. w \in Number
  BY <1>1 DEF Number
<1>3. H \in Seq(Field) /\ Len(p) \in Nat
  BY DEF Reached, Payload
<1>4. U \in Seq(Field)
  <2>1. push("u64", l) \in Seq(Field) /\ push("u64", m) \in Seq(Field) /\ push("u64", n) \in Seq(Field)
    BY Narrowing
  <2>2. Cat(H, push("u64", l)) \in Seq(Field)
    BY <1>3, <2>1, CatApart
  <2>3. Cat(Cat(H, push("u64", l)), push("u64", m)) \in Seq(Field)
    BY <2>1, <2>2, CatApart
  <2>4. QED  BY <2>1, <2>3, CatApart
<1>5. push_kind(z) \in Seq(Field)
  BY Kinds
<1>6. push_frontier(f) \in Seq(Field)
  BY Frontiers
<1>7. V \in Seq(Field)
  BY <1>4, <1>5, CatApart
<1>8. Lies(p, 0, V)
  BY <1>3, <1>6, <1>7, FirstOf
<1>9. Lies(p, 0, U)
  BY <1>3, <1>4, <1>5, <1>8, FirstOf
<1>10. PICK r1, r2, d1, d2 :
         /\ r1 = read_all(r, <<"u64", "u64", "u64">>) /\ r2 = read_kind(r1)
         /\ d1 = Add(Add(Add(g, l % Size["u64"]), m % Size["u64"]), n % Size["u64"]) /\ d2 = Add(d1, z)
  OBVIOUS
<1>11. Reached(r1, p, 0, U, k, d1)
  <2>1. Lies(p, 0, Cat(Cat(Cat(H, push(w, l)), push(w, m)), push(w, n)))
    BY <1>1, <1>9
  <2>2. Reached(read_all(r, <<w, w, w>>), p, 0, Cat(Cat(Cat(H, push(w, l)), push(w, m)), push(w, n)), k,
                Add(Add(Add(g, l % Size[w]), m % Size[w]), n % Size[w]))
    BY <1>2, <2>1, l \in Nat, m \in Nat, n \in Nat, Reached(r, p, 0, H, k, g), MoreThree, ZenonT(60)
  <2>3. QED  BY <2>2, <1>1, <1>10
<1>12. Reached(r2, p, 0, V, k, d2)
  <2>1. Lies(p, 0, Cat(U, push_kind(z)))
    BY <1>8
  <2>2. Reached(read_kind(r1), p, 0, Cat(U, push_kind(z)), k, Add(d1, z))
    BY <1>11, <2>1, NextKind
  <2>3. QED  BY <2>2, <1>10
<1>13. Reached(read_frontier(r2), p, 0, W, k, Add(d2, h))
  <2>1. Lies(p, 0, Cat(V, push_frontier(f)))
    OBVIOUS
  <2>2. Reached(read_frontier(r2), p, 0, Cat(V, push_frontier(f)), k, Add(d2, h))
    BY <1>12, <2>1, NextFrontier
  <2>3. QED  BY <2>2
<1>14. Past(r) = read_frontier(r2) /\ d = Add(d2, h)
  BY <1>10 DEF Past
<1>15. QED  BY <1>13, <1>14

LEMMA RestRead ==
  ASSUME NEW p, NEW k, NEW r, NEW W, NEW d, Reached(r, p, 0, W, k, d),
         NEW l \in Nat, NEW m \in Nat, NEW n \in Nat, NEW b \in Nat,
         NEW V, V = Cat(Cat(Cat(Cat(W, push("u64", l)), push("u64", m)), push("u8", n)), push("u64", b)),
         Lies(p, 0, V),
         NEW g, g = Add(Add(Add(Add(d, l % Size["u64"]), m % Size["u64"]), n % Size["u8"]), b % Size["u64"])
  PROVE  Reached(read_all(r, <<"u64", "u64", "u8", "u64">>), p, 0, V, k, g)
<1>1. PICK w, v : w = "u64" /\ v = "u8"
  OBVIOUS
<1>2. w \in Number /\ v \in Number
  BY <1>1 DEF Number
<1>3. Lies(p, 0, Cat(Cat(Cat(Cat(W, push(w, l)), push(w, m)), push(v, n)), push(w, b)))
  BY <1>1
<1>4. Reached(read_all(r, <<w, w, v, w>>), p, 0, Cat(Cat(Cat(Cat(W, push(w, l)), push(w, m)), push(v, n)), push(w, b)), k,
              Add(Add(Add(Add(d, l % Size[w]), m % Size[w]), n % Size[v]), b % Size[w]))
  BY <1>2, <1>3, l \in Nat, m \in Nat, n \in Nat, b \in Nat, Reached(r, p, 0, W, k, d), MoreFour, ZenonT(60)
<1>5. QED  BY <1>1, <1>4

LEMMA OneMore ==
  ASSUME NEW e, Listed(e), NEW n \in Nat, Len(e) = n, NEW m \in Nat, m <= n, NEW x
  PROVE  /\ Listed(Add(e, x)) /\ Len(Add(e, x)) = n + 1 /\ Before(Add(e, x), m + 1) = Before(e, m)
         /\ Add(e, x)[n + 1] = x /\ \A j \in 1 .. n : Add(e, x)[j] = e[j]
BY Grown, BackOne

\* Nine more things than six.
LEMMA NineMore ==
  ASSUME NEW g, Listed(g), Len(g) = 6,
         NEW a1, NEW a2, NEW a3, NEW a4, NEW a5, NEW a6, NEW a7, NEW a8, NEW a9,
         NEW d, d = Add(Add(Add(Add(Add(g, a1), a2), a3), a4), a5),
         NEW h, h = Add(Add(Add(Add(d, a6), a7), a8), a9)
  PROVE  /\ Listed(h) /\ Before(h, 9) = g
         /\ h[7] = a1 /\ h[8] = a2 /\ h[9] = a3 /\ h[10] = a4 /\ h[11] = a5
         /\ h[12] = a6 /\ h[13] = a7 /\ h[14] = a8 /\ h[15] = a9
<1>0. PICK g0 : g0 = g
  OBVIOUS

<1>1. PICK g1 : g1 = Add(g0, a1)
  OBVIOUS
<1>2. PICK g2 : g2 = Add(g1, a2)
  OBVIOUS
<1>3. PICK g3 : g3 = Add(g2, a3)
  OBVIOUS
<1>4. PICK g4 : g4 = Add(g3, a4)
  OBVIOUS
<1>5. PICK g5 : g5 = Add(g4, a5)
  OBVIOUS
<1>6. PICK g6 : g6 = Add(g5, a6)
  OBVIOUS
<1>7. PICK g7 : g7 = Add(g6, a7)
  OBVIOUS
<1>8. PICK g8 : g8 = Add(g7, a8)
  OBVIOUS
<1>9. PICK g9 : g9 = Add(g8, a9)
  OBVIOUS
<1>10. h = g9
  BY <1>0, <1>1, <1>2, <1>3, <1>4, <1>5, <1>6, <1>7, <1>8, <1>9
<1>20. Listed(g0) /\ Len(g0) = 6 /\ Before(g0, 0) = g
  BY <1>0, BackNone
<1>21. /\ Listed(g1) /\ Len(g1) = 7 /\ Before(g1, 1) = g /\ g1[7] = a1
       /\ \A j \in 1 .. 6 : g1[j] = g0[j]
  <2>1. PICK n, m : n = 6 /\ m = 0
    OBVIOUS
  <2>2. n \in Nat /\ m \in Nat /\ m <= n /\ Listed(g0) /\ Len(g0) = n
    BY <1>20, <2>1
  <2>3. /\ Listed(Add(g0, a1)) /\ Len(Add(g0, a1)) = n + 1
        /\ Before(Add(g0, a1), m + 1) = Before(g0, m)
        /\ Add(g0, a1)[n + 1] = a1 /\ \A j \in 1 .. n : Add(g0, a1)[j] = g0[j]
    BY <2>2, OneMore
  <2>4. n + 1 = 7 /\ m + 1 = 1
    BY <2>1
  <2>5. QED  BY <1>1, <1>20, <2>1, <2>3, <2>4
<1>22. /\ Listed(g2) /\ Len(g2) = 8 /\ Before(g2, 2) = g /\ g2[8] = a2
       /\ \A j \in 1 .. 7 : g2[j] = g1[j]
  <2>1. PICK n, m : n = 7 /\ m = 1
    OBVIOUS
  <2>2. n \in Nat /\ m \in Nat /\ m <= n /\ Listed(g1) /\ Len(g1) = n
    BY <1>21, <2>1
  <2>3. /\ Listed(Add(g1, a2)) /\ Len(Add(g1, a2)) = n + 1
        /\ Before(Add(g1, a2), m + 1) = Before(g1, m)
        /\ Add(g1, a2)[n + 1] = a2 /\ \A j \in 1 .. n : Add(g1, a2)[j] = g1[j]
    BY <2>2, OneMore
  <2>4. n + 1 = 8 /\ m + 1 = 2
    BY <2>1
  <2>5. QED  BY <1>2, <1>21, <2>1, <2>3, <2>4
<1>23. /\ Listed(g3) /\ Len(g3) = 9 /\ Before(g3, 3) = g /\ g3[9] = a3
       /\ \A j \in 1 .. 8 : g3[j] = g2[j]
  <2>1. PICK n, m : n = 8 /\ m = 2
    OBVIOUS
  <2>2. n \in Nat /\ m \in Nat /\ m <= n /\ Listed(g2) /\ Len(g2) = n
    BY <1>22, <2>1
  <2>3. /\ Listed(Add(g2, a3)) /\ Len(Add(g2, a3)) = n + 1
        /\ Before(Add(g2, a3), m + 1) = Before(g2, m)
        /\ Add(g2, a3)[n + 1] = a3 /\ \A j \in 1 .. n : Add(g2, a3)[j] = g2[j]
    BY <2>2, OneMore
  <2>4. n + 1 = 9 /\ m + 1 = 3
    BY <2>1
  <2>5. QED  BY <1>3, <1>22, <2>1, <2>3, <2>4
<1>24. /\ Listed(g4) /\ Len(g4) = 10 /\ Before(g4, 4) = g /\ g4[10] = a4
       /\ \A j \in 1 .. 9 : g4[j] = g3[j]
  <2>1. PICK n, m : n = 9 /\ m = 3
    OBVIOUS
  <2>2. n \in Nat /\ m \in Nat /\ m <= n /\ Listed(g3) /\ Len(g3) = n
    BY <1>23, <2>1
  <2>3. /\ Listed(Add(g3, a4)) /\ Len(Add(g3, a4)) = n + 1
        /\ Before(Add(g3, a4), m + 1) = Before(g3, m)
        /\ Add(g3, a4)[n + 1] = a4 /\ \A j \in 1 .. n : Add(g3, a4)[j] = g3[j]
    BY <2>2, OneMore
  <2>4. n + 1 = 10 /\ m + 1 = 4
    BY <2>1
  <2>5. QED  BY <1>4, <1>23, <2>1, <2>3, <2>4
<1>25. /\ Listed(g5) /\ Len(g5) = 11 /\ Before(g5, 5) = g /\ g5[11] = a5
       /\ \A j \in 1 .. 10 : g5[j] = g4[j]
  <2>1. PICK n, m : n = 10 /\ m = 4
    OBVIOUS
  <2>2. n \in Nat /\ m \in Nat /\ m <= n /\ Listed(g4) /\ Len(g4) = n
    BY <1>24, <2>1
  <2>3. /\ Listed(Add(g4, a5)) /\ Len(Add(g4, a5)) = n + 1
        /\ Before(Add(g4, a5), m + 1) = Before(g4, m)
        /\ Add(g4, a5)[n + 1] = a5 /\ \A j \in 1 .. n : Add(g4, a5)[j] = g4[j]
    BY <2>2, OneMore
  <2>4. n + 1 = 11 /\ m + 1 = 5
    BY <2>1
  <2>5. QED  BY <1>5, <1>24, <2>1, <2>3, <2>4
<1>26. /\ Listed(g6) /\ Len(g6) = 12 /\ Before(g6, 6) = g /\ g6[12] = a6
       /\ \A j \in 1 .. 11 : g6[j] = g5[j]
  <2>1. PICK n, m : n = 11 /\ m = 5
    OBVIOUS
  <2>2. n \in Nat /\ m \in Nat /\ m <= n /\ Listed(g5) /\ Len(g5) = n
    BY <1>25, <2>1
  <2>3. /\ Listed(Add(g5, a6)) /\ Len(Add(g5, a6)) = n + 1
        /\ Before(Add(g5, a6), m + 1) = Before(g5, m)
        /\ Add(g5, a6)[n + 1] = a6 /\ \A j \in 1 .. n : Add(g5, a6)[j] = g5[j]
    BY <2>2, OneMore
  <2>4. n + 1 = 12 /\ m + 1 = 6
    BY <2>1
  <2>5. QED  BY <1>6, <1>25, <2>1, <2>3, <2>4
<1>27. /\ Listed(g7) /\ Len(g7) = 13 /\ Before(g7, 7) = g /\ g7[13] = a7
       /\ \A j \in 1 .. 12 : g7[j] = g6[j]
  <2>1. PICK n, m : n = 12 /\ m = 6
    OBVIOUS
  <2>2. n \in Nat /\ m \in Nat /\ m <= n /\ Listed(g6) /\ Len(g6) = n
    BY <1>26, <2>1
  <2>3. /\ Listed(Add(g6, a7)) /\ Len(Add(g6, a7)) = n + 1
        /\ Before(Add(g6, a7), m + 1) = Before(g6, m)
        /\ Add(g6, a7)[n + 1] = a7 /\ \A j \in 1 .. n : Add(g6, a7)[j] = g6[j]
    BY <2>2, OneMore
  <2>4. n + 1 = 13 /\ m + 1 = 7
    BY <2>1
  <2>5. QED  BY <1>7, <1>26, <2>1, <2>3, <2>4
<1>28. /\ Listed(g8) /\ Len(g8) = 14 /\ Before(g8, 8) = g /\ g8[14] = a8
       /\ \A j \in 1 .. 13 : g8[j] = g7[j]
  <2>1. PICK n, m : n = 13 /\ m = 7
    OBVIOUS
  <2>2. n \in Nat /\ m \in Nat /\ m <= n /\ Listed(g7) /\ Len(g7) = n
    BY <1>27, <2>1
  <2>3. /\ Listed(Add(g7, a8)) /\ Len(Add(g7, a8)) = n + 1
        /\ Before(Add(g7, a8), m + 1) = Before(g7, m)
        /\ Add(g7, a8)[n + 1] = a8 /\ \A j \in 1 .. n : Add(g7, a8)[j] = g7[j]
    BY <2>2, OneMore
  <2>4. n + 1 = 14 /\ m + 1 = 8
    BY <2>1
  <2>5. QED  BY <1>8, <1>27, <2>1, <2>3, <2>4
<1>29. /\ Listed(g9) /\ Len(g9) = 15 /\ Before(g9, 9) = g /\ g9[15] = a9
       /\ \A j \in 1 .. 14 : g9[j] = g8[j]
  <2>1. PICK n, m : n = 14 /\ m = 8
    OBVIOUS
  <2>2. n \in Nat /\ m \in Nat /\ m <= n /\ Listed(g8) /\ Len(g8) = n
    BY <1>28, <2>1
  <2>3. /\ Listed(Add(g8, a9)) /\ Len(Add(g8, a9)) = n + 1
        /\ Before(Add(g8, a9), m + 1) = Before(g8, m)
        /\ Add(g8, a9)[n + 1] = a9 /\ \A j \in 1 .. n : Add(g8, a9)[j] = g8[j]
    BY <2>2, OneMore
  <2>4. n + 1 = 15 /\ m + 1 = 9
    BY <2>1
  <2>5. QED  BY <1>9, <1>28, <2>1, <2>3, <2>4
<1>40. QED
  BY <1>10, <1>21, <1>22, <1>23, <1>24, <1>25, <1>26, <1>27, <1>28, <1>29

-----------------------------------------------------------------------------
(* Dependencies from other partitions *)

RemoteOf(q, l, m, n, z, f, a, b, d, x, t) ==
  [kind |-> "Remote", port_kind |-> q, source_partition |-> l, source_uid |-> m,
   source_version |-> n, zero |-> z, frontier |-> f, authority |-> a, class |-> b,
   capability |-> d, scope |-> [bits |-> x, root |-> t]]

RemoteIs(dep, q, l, m, n, z, f, a, b, d, x, t) ==
  /\ dep = RemoteOf(q, l, m, n, z, f, a, b, d, x, t)
  /\ q \in DOMAIN port_byte /\ l \in Nat /\ m \in Nat /\ n \in u64 /\ z \in Zeros /\ IsClocks(f)
  /\ a \in Nat /\ b \in u64 /\ d \in u64 /\ x \in u64 /\ t \in Nat

LEMMA RemoteFields ==
  ASSUME NEW dep, NEW q, NEW l, NEW m, NEW n, NEW z, NEW f, NEW a, NEW b, NEW d, NEW x, NEW t,
         dep = RemoteOf(q, l, m, n, z, f, a, b, d, x, t)
  PROVE  /\ dep.kind = "Remote" /\ dep.port_kind = q /\ dep.source_partition = l /\ dep.source_uid = m
         /\ dep.source_version = n /\ dep.zero = z /\ dep.frontier = f /\ dep.authority = a
         /\ dep.class = b /\ dep.capability = d /\ dep.scope = [bits |-> x, root |-> t]
         /\ dep.scope.bits = x /\ dep.scope.root = t
         /\ IdsOf(dep) = {l, m, a}
<1>1. /\ dep.kind = "Remote" /\ dep.port_kind = q /\ dep.source_partition = l /\ dep.source_uid = m
      /\ dep.source_version = n /\ dep.zero = z /\ dep.frontier = f /\ dep.authority = a
      /\ dep.class = b /\ dep.capability = d /\ dep.scope = [bits |-> x, root |-> t]
      /\ DOMAIN dep = {"kind", "port_kind", "source_partition", "source_uid", "source_version", "zero",
                       "frontier", "authority", "class", "capability", "scope"}
  BY DEF RemoteOf
<1>2. PICK s : s = [bits |-> x, root |-> t]
  OBVIOUS
<1>3. dep.scope = s /\ s.bits = x /\ s.root = t
  BY <1>1, <1>2
<1>4. DOMAIN dep \cap IdFields = {"source_partition", "source_uid", "authority"}
  BY <1>1 DEF IdFields
<1>5. IdsOf(dep) = {l, m, a}
  BY <1>1, <1>4 DEF IdsOf
<1>6. QED  BY <1>1, <1>3, <1>5

LEMMA RemoteApart ==
  ASSUME NEW dep, IsRemote(dep)
  PROVE  \E q, l, m, n, z, f, a, b, d, x, t : RemoteIs(dep, q, l, m, n, z, f, a, b, d, x, t)
<1>1. PICK q, l, m, n, z, f, a, b, d, s :
        /\ q = dep.port_kind /\ l = dep.source_partition /\ m = dep.source_uid /\ n = dep.source_version
        /\ z = dep.zero /\ f = dep.frontier /\ a = dep.authority /\ b = dep.class /\ d = dep.capability
        /\ s = dep.scope
  OBVIOUS
<1>2. /\ dep = [kind |-> "Remote", port_kind |-> q, source_partition |-> l, source_uid |-> m,
                source_version |-> n, zero |-> z, frontier |-> f, authority |-> a, class |-> b,
                capability |-> d, scope |-> s]
      /\ q \in DOMAIN port_byte /\ z \in Zeros /\ {l, m, a} \subseteq Nat /\ {n, b, d} \subseteq u64
      /\ s \in Scope /\ HasKeys(f) /\ f \in [DOMAIN f -> u64]
  BY <1>1 DEF IsRemote, Zeros
<1>3. PICK x, t : x = s.bits /\ t = s.root
  OBVIOUS
<1>4. x \in u64 /\ t \in Nat /\ s = [bits |-> x, root |-> t]
  BY <1>2, <1>3 DEF Scope
<1>5. IsClocks(f)
  BY <1>2 DEF IsClocks
<1>6. dep = RemoteOf(q, l, m, n, z, f, a, b, d, x, t)
  BY <1>2, <1>4 DEF RemoteOf
<1>7. l \in Nat /\ m \in Nat /\ a \in Nat /\ n \in u64 /\ b \in u64 /\ d \in u64
  BY <1>2
<1>8. RemoteIs(dep, q, l, m, n, z, f, a, b, d, x, t)
  BY <1>2, <1>4, <1>5, <1>6, <1>7, Zenon DEF RemoteIs
<1>9. QED  BY <1>8

LEMMA RemoteTogether ==
  ASSUME NEW dep, NEW q, NEW l, NEW m, NEW n, NEW z, NEW f, NEW a, NEW b, NEW d, NEW x, NEW t,
         RemoteIs(dep, q, l, m, n, z, f, a, b, d, x, t)
  PROVE  IsRemote(dep)
<1>1. dep = RemoteOf(q, l, m, n, z, f, a, b, d, x, t)
  BY DEF RemoteIs
<1>2. /\ q \in DOMAIN port_byte /\ l \in Nat /\ m \in Nat /\ n \in u64 /\ z \in Zeros /\ IsClocks(f)
      /\ a \in Nat /\ b \in u64 /\ d \in u64 /\ x \in u64 /\ t \in Nat
  BY DEF RemoteIs
<1>3. /\ dep.kind = "Remote" /\ dep.port_kind = q /\ dep.source_partition = l /\ dep.source_uid = m
      /\ dep.source_version = n /\ dep.zero = z /\ dep.frontier = f /\ dep.authority = a
      /\ dep.class = b /\ dep.capability = d /\ dep.scope = [bits |-> x, root |-> t]
  BY <1>1, RemoteFields
<1>4. dep = [kind |-> "Remote", port_kind |-> dep.port_kind,
             source_partition |-> dep.source_partition, source_uid |-> dep.source_uid,
             source_version |-> dep.source_version, zero |-> dep.zero,
             frontier |-> dep.frontier, authority |-> dep.authority, class |-> dep.class,
             capability |-> dep.capability, scope |-> dep.scope]
  BY <1>1, <1>3, Zenon DEF RemoteOf
<1>5. dep.scope \in Scope
  <2>1. [bits |-> x, root |-> t] \in Scope
    BY <1>2 DEF Scope
  <2>2. QED  BY <2>1, <1>3
<1>6. HasKeys(f) /\ f \in [DOMAIN f -> u64]
  BY <1>2 DEF IsClocks
<1>7. /\ {dep.source_partition, dep.source_uid, dep.authority} \subseteq Nat
      /\ {dep.source_version, dep.class, dep.capability} \subseteq u64
  BY <1>2, <1>3
<1>8. dep.port_kind \in DOMAIN port_byte /\ dep.zero \in {"None"} \cup DOMAIN zero_byte
  BY <1>2, <1>3 DEF Zeros
<1>9. HasKeys(dep.frontier) /\ dep.frontier \in [DOMAIN dep.frontier -> u64]
  BY <1>3, <1>6, Zenon
<1>10. QED  BY <1>3, <1>4, <1>5, <1>7, <1>8, <1>9, Zenon DEF IsRemote

LEMMA RemoteHeard ==
  ASSUME NEW dep, NEW q, NEW l, NEW m, NEW n, NEW z, NEW f, NEW a, NEW b, NEW d, NEW x, NEW t,
         RemoteIs(dep, q, l, m, n, z, f, a, b, d, x, t), NEW h, ClocksAs(f, h),
         NEW y, y = RemoteOf(q, l % Size["u64"], m % Size["u64"], n, z, h, a % Size["u64"], b,
                             d % Size["u8"], x, 0)
  PROVE  DepAs(dep, y)
<1>1. dep = RemoteOf(q, l, m, n, z, f, a, b, d, x, t)
  BY DEF RemoteIs
<1>2. /\ q \in DOMAIN port_byte /\ l \in Nat /\ m \in Nat /\ n \in u64 /\ z \in Zeros /\ IsClocks(f)
      /\ a \in Nat /\ b \in u64 /\ d \in u64 /\ x \in u64 /\ t \in Nat
  BY DEF RemoteIs
<1>3. PICK u, v, w, e : /\ u = l % Size["u64"] /\ v = m % Size["u64"] /\ w = a % Size["u64"]
                        /\ e = d % Size["u8"]
  OBVIOUS
<1>4. u \in Nat /\ u < Size["u64"] /\ (l < Size["u64"] => u = l)
  BY <1>2, <1>3, Narrowing
<1>5. v \in Nat /\ v < Size["u64"] /\ (m < Size["u64"] => v = m)
  BY <1>2, <1>3, Narrowing
<1>6. w \in Nat /\ w < Size["u64"] /\ (a < Size["u64"] => w = a)
  BY <1>2, <1>3, Narrowing
<1>7. e \in u64 /\ e < Size["u8"] /\ (d < Size["u8"] => e = d)
  <2>1. d \in Nat
    BY <1>2 DEF u64
  <2>2. QED  BY <2>1, <1>3, Bytes
<1>8. y = RemoteOf(q, u, v, n, z, h, w, b, e, x, 0)
  BY <1>3
<1>9. IsClocks(h) /\ (\A i \in DOMAIN h : i < Size["u64"]) /\ ((\A i \in DOMAIN f : i < Size["u64"]) => h = f)
  BY DEF ClocksAs
<1>10. IsRemote(y)
  <2>1. 0 \in Nat
    OBVIOUS
  <2>2. RemoteIs(y, q, u, v, n, z, h, w, b, e, x, 0)
    BY <1>2, <1>4, <1>5, <1>6, <1>7, <1>8, <1>9, <2>1, Zenon DEF RemoteIs
  <2>3. QED  BY <2>2, RemoteTogether
<1>11. /\ y.kind = "Remote" /\ y.frontier = h /\ y.capability = e /\ y.scope.root = 0
       /\ IdsOf(y) = {u, v, w}
  <2>1. PICK o : o = 0
    OBVIOUS
  <2>2. y = RemoteOf(q, u, v, n, z, h, w, b, e, x, o)
    BY <1>8, <2>1
  <2>3. /\ y.kind = "Remote" /\ y.port_kind = q /\ y.source_partition = u /\ y.source_uid = v
        /\ y.source_version = n /\ y.zero = z /\ y.frontier = h /\ y.authority = w
        /\ y.class = b /\ y.capability = e /\ y.scope = [bits |-> x, root |-> o]
        /\ y.scope.bits = x /\ y.scope.root = o /\ IdsOf(y) = {u, v, w}
    BY <2>2, RemoteFields
  <2>4. QED  BY <2>1, <2>3
<1>12. /\ dep.kind = "Remote" /\ dep.frontier = f /\ dep.capability = d /\ dep.scope.root = t
       /\ IdsOf(dep) = {l, m, a}
  <2>1. /\ dep.kind = "Remote" /\ dep.port_kind = q /\ dep.source_partition = l /\ dep.source_uid = m
        /\ dep.source_version = n /\ dep.zero = z /\ dep.frontier = f /\ dep.authority = a
        /\ dep.class = b /\ dep.capability = d /\ dep.scope = [bits |-> x, root |-> t]
        /\ dep.scope.bits = x /\ dep.scope.root = t /\ IdsOf(dep) = {l, m, a}
    BY <1>1, RemoteFields
  <2>2. QED  BY <2>1
<1>13. DepRoom(y)
  <2>1. \A id \in IdsOf(y) : id < Size["u64"]
    BY <1>4, <1>5, <1>6, <1>11
  <2>2. Narrow(y)
    BY <1>7, <1>11 DEF Narrow
  <2>3. \A i \in DOMAIN y.frontier : i < Size["u64"]
    BY <1>9, <1>11
  <2>4. QED  BY <1>11, <2>1, <2>2, <2>3, Zenon DEF DepRoom
<1>14. ASSUME DepRoom(dep) PROVE y = dep
  <2>1. l < Size["u64"] /\ m < Size["u64"] /\ a < Size["u64"]
    BY <1>12, <1>14 DEF DepRoom
  <2>2. Narrow(dep) /\ \A i \in DOMAIN dep.frontier : i < Size["u64"]
    BY <1>12, <1>14, Zenon DEF DepRoom
  <2>3. d < Size["u8"] /\ t = 0
    BY <1>12, <2>2 DEF Narrow
  <2>4. h = f
    BY <1>9, <1>12, <2>2
  <2>5. u = l /\ v = m /\ w = a /\ e = d
    BY <1>4, <1>5, <1>6, <1>7, <2>1, <2>3
  <2>6. QED  BY <1>1, <1>8, <2>3, <2>4, <2>5
<1>15. QED  BY <1>10, <1>13, <1>14 DEF DepAs

RemoteText(q, l, m, n, z, f, a, b, d, x) ==
  Cat(Cat(Cat(Cat(Cat(Cat(Cat(Cat(Cat(
    Cat(Cat(push("u8", 1), push("u8", port_byte[q])), push_str("")),
    push("u64", l)), push("u64", m)), push("u64", n)), push_kind(z)), push_frontier(f)),
    push("u64", a)), push("u64", b)), push("u8", d)), push("u64", x))

LEMMA RemoteWritten ==
  ASSUME NEW dep, NEW q, NEW l, NEW m, NEW n, NEW z, NEW f, NEW a, NEW b, NEW d, NEW x, NEW t,
         dep = RemoteOf(q, l, m, n, z, f, a, b, d, x, t)
  PROVE  write_remote(dep) = RemoteText(q, l, m, n, z, f, a, b, d, x)
<1>1. /\ dep.kind = "Remote" /\ dep.port_kind = q /\ dep.source_partition = l /\ dep.source_uid = m
      /\ dep.source_version = n /\ dep.zero = z /\ dep.frontier = f /\ dep.authority = a
      /\ dep.class = b /\ dep.capability = d /\ dep.scope = [bits |-> x, root |-> t]
      /\ dep.scope.bits = x /\ dep.scope.root = t /\ IdsOf(dep) = {l, m, a}
  BY RemoteFields
<1>2. push_uid(l) = push("u64", l) /\ push_uid(m) = push("u64", m) /\ push_uid(a) = push("u64", a)
  BY DEF push_uid
<1>3. write_remote(dep) =
        push("u8", 1) \o push("u8", port_byte[q]) \o push_str("") \o push_uid(l) \o push_uid(m)
          \o push("u64", n) \o push_kind(z) \o push_frontier(f) \o push_uid(a) \o push("u64", b)
          \o push("u8", d) \o push("u64", x)
  BY <1>1, Zenon DEF write_remote
<1>4. QED  BY <1>2, <1>3, Zenon DEF Cat, RemoteText

LEMMA RemoteOps ==
  ASSUME NEW e \in Nat, NEW s \in Nat, NEW t \in Nat, NEW typ, NEW dep, IsRemote(dep),
         NEW o, o = [op |-> "EdgeConnect", edge |-> e, src |-> s, tgt |-> t, typ |-> typ, dep |-> dep]
  PROVE  Carried(o)
<1>1. PICK q, l, m, n, z, f, a, b, d, x, rt : RemoteIs(dep, q, l, m, n, z, f, a, b, d, x, rt)
  BY RemoteApart
<1>2. /\ dep = RemoteOf(q, l, m, n, z, f, a, b, d, x, rt)
      /\ q \in DOMAIN port_byte /\ l \in Nat /\ m \in Nat /\ n \in u64 /\ z \in Zeros /\ IsClocks(f)
      /\ a \in Nat /\ b \in u64 /\ d \in u64 /\ x \in u64 /\ rt \in Nat
  BY <1>1 DEF RemoteIs
<1>3. n \in Nat /\ b \in Nat /\ d \in Nat /\ x \in Nat
  BY <1>2 DEF u64
<1>4. PICK h : Clocked(f, h) /\ ClocksAs(f, h)
  <2>1. PICK h, i, E, xs : ClockParts(f, h, i, E, xs)
    BY <1>2, ClocksApart
  <2>2. Clocked(f, h)
    BY <2>1 DEF Clocked
  <2>3. ClocksAs(f, h)
    BY <2>1 DEF ClockParts
  <2>4. QED  BY <2>2, <2>3
<1>5. PICK pb : pb = port_byte[q]
  OBVIOUS
<1>6. pb \in 0 .. 3 /\ PortOf[pb + 1] = q
  <2>1. q \in {"Signal", "Effort", "Flow", "Bond"}
    BY <1>2 DEF port_byte
  <2>2. QED  BY <1>5, <2>1 DEF port_byte, PortOf
<1>7. PICK name \in Text : name = ""
  BY WireAssumption
<1>8. PICK tag \in {0, 1} : tag = 1
  OBVIOUS
<1>9. PICK A, W0, V0 : /\ A = Cat(Cat(push("u64", e), push("u64", s)), push("u64", t))
                       /\ W0 = Cat(Cat(push("u8", tag), push("u8", pb)), push_str(name))
                       /\ V0 = EdgeHead(e, s, t, tag, pb, name)
  OBVIOUS
<1>10. A \in Seq(Field) /\ W0 \in Seq(Field) /\ Cat(A, W0) = V0
  <2>1. A = EdgeIdText(e, s, t) /\ W0 = EdgeDepText(tag, pb, name)
    BY <1>9 DEF EdgeIdText, EdgeDepText
  <2>2. /\ EdgeIdText(e, s, t) \in Seq(Field) /\ EdgeDepText(tag, pb, name) \in Seq(Field)
        /\ Cat(EdgeIdText(e, s, t), EdgeDepText(tag, pb, name)) = EdgeHead(e, s, t, tag, pb, name)
    <3>1. pb \in 0 .. 3
      BY <1>6
    <3>2. tag \in {0, 1}
      BY <1>8
    <3>3. name \in Text
      BY <1>7
    <3>4. EdgeWords(e, s, t, tag, pb, name)
      BY <3>1, <3>2, <3>3 DEF EdgeWords
    <3>5. QED  BY <3>4, HeadWritten
  <2>3. QED  BY <1>9, <2>1, <2>2
<1>11. V0 \in Seq(Field)
  BY <1>6, <1>9, EdgeHeads
<1>12. PICK X1, X2, X3, X4, X5, X6, X7, X8, X9 :
         /\ X1 = push("u64", l)
         /\ X2 = push("u64", m)
         /\ X3 = push("u64", n)
         /\ X4 = push_kind(z)
         /\ X5 = push_frontier(f)
         /\ X6 = push("u64", a)
         /\ X7 = push("u64", b)
         /\ X8 = push("u8", d)
         /\ X9 = push("u64", x)
  OBVIOUS
<1>13. X1 \in Seq(Field) /\ X2 \in Seq(Field) /\ X3 \in Seq(Field) /\ X4 \in Seq(Field) /\ X5 \in Seq(Field)
       /\ X6 \in Seq(Field) /\ X7 \in Seq(Field) /\ X8 \in Seq(Field) /\ X9 \in Seq(Field)
  <2>1. X1 \in Seq(Field)
    BY <1>2, <1>3, <1>12, Narrowing
  <2>2. X2 \in Seq(Field)
    BY <1>2, <1>3, <1>12, Narrowing
  <2>3. X3 \in Seq(Field)
    BY <1>2, <1>3, <1>12, Narrowing
  <2>4. X4 \in Seq(Field)
    BY <1>2, <1>12, Kinds
  <2>5. X5 \in Seq(Field)
    BY <1>4, <1>12, Frontiers
  <2>6. X6 \in Seq(Field)
    BY <1>2, <1>3, <1>12, Narrowing
  <2>7. X7 \in Seq(Field)
    BY <1>2, <1>3, <1>12, Narrowing
  <2>8. X8 \in Seq(Field)
    BY <1>3, <1>12, Bytes
  <2>9. X9 \in Seq(Field)
    BY <1>2, <1>3, <1>12, Narrowing
  <2>10. QED  BY <2>1, <2>2, <2>3, <2>4, <2>5, <2>6, <2>7, <2>8, <2>9
<1>14. PICK W1, W2, W3, W4, W5, W6, W7, W8, W9 :
         /\ W1 = Cat(W0, X1)
         /\ W2 = Cat(W1, X2)
         /\ W3 = Cat(W2, X3)
         /\ W4 = Cat(W3, X4)
         /\ W5 = Cat(W4, X5)
         /\ W6 = Cat(W5, X6)
         /\ W7 = Cat(W6, X7)
         /\ W8 = Cat(W7, X8)
         /\ W9 = Cat(W8, X9)
  OBVIOUS
<1>15. PICK V1, V2, V3, V4, V5, V6, V7, V8, V9 :
         /\ V1 = Cat(V0, X1)
         /\ V2 = Cat(V1, X2)
         /\ V3 = Cat(V2, X3)
         /\ V4 = Cat(V3, X4)
         /\ V5 = Cat(V4, X5)
         /\ V6 = Cat(V5, X6)
         /\ V7 = Cat(V6, X7)
         /\ V8 = Cat(V7, X8)
         /\ V9 = Cat(V8, X9)
  OBVIOUS
<1>16. W1 \in Seq(Field) /\ V1 \in Seq(Field) /\ Cat(A, W1) = V1
  BY <1>10, <1>10, <1>13, <1>14, <1>15, Woven
<1>17. W2 \in Seq(Field) /\ V2 \in Seq(Field) /\ Cat(A, W2) = V2
  BY <1>16, <1>10, <1>13, <1>14, <1>15, Woven
<1>18. W3 \in Seq(Field) /\ V3 \in Seq(Field) /\ Cat(A, W3) = V3
  BY <1>17, <1>10, <1>13, <1>14, <1>15, Woven
<1>19. W4 \in Seq(Field) /\ V4 \in Seq(Field) /\ Cat(A, W4) = V4
  BY <1>18, <1>10, <1>13, <1>14, <1>15, Woven
<1>20. W5 \in Seq(Field) /\ V5 \in Seq(Field) /\ Cat(A, W5) = V5
  BY <1>19, <1>10, <1>13, <1>14, <1>15, Woven
<1>21. W6 \in Seq(Field) /\ V6 \in Seq(Field) /\ Cat(A, W6) = V6
  BY <1>20, <1>10, <1>13, <1>14, <1>15, Woven
<1>22. W7 \in Seq(Field) /\ V7 \in Seq(Field) /\ Cat(A, W7) = V7
  BY <1>21, <1>10, <1>13, <1>14, <1>15, Woven
<1>23. W8 \in Seq(Field) /\ V8 \in Seq(Field) /\ Cat(A, W8) = V8
  BY <1>22, <1>10, <1>13, <1>14, <1>15, Woven
<1>24. W9 \in Seq(Field) /\ V9 \in Seq(Field) /\ Cat(A, W9) = V9
  BY <1>23, <1>10, <1>13, <1>14, <1>15, Woven
<1>25. PICK p, g, y, c : /\ p = V9 /\ g = EdgeGot(e, s, t, tag, pb, name)
                         /\ y = RemoteOf(q, l % Size["u64"], m % Size["u64"], n, z, h, a % Size["u64"], b,
                                         d % Size["u8"], x, 0)
                         /\ c = EdgeAs(e % Size["u64"], s % Size["u64"], t % Size["u64"], y)
  OBVIOUS
<1>26. p \in Seq(Field)
  BY <1>24, <1>25
<1>27. write_payload(o) = p
  <2>1. write_remote(dep) = W9
    <3>0. write_remote(dep) = RemoteText(q, l, m, n, z, f, a, b, d, x)
      BY <1>2, RemoteWritten
    <3>1. write_remote(dep) =
           Cat(Cat(Cat(Cat(Cat(Cat(Cat(Cat(Cat(
             Cat(Cat(push("u8", 1), push("u8", port_byte[q])), push_str("")),
             push("u64", l)), push("u64", m)), push("u64", n)), push_kind(z)), push_frontier(f)),
             push("u64", a)), push("u64", b)), push("u8", d)), push("u64", x))
      BY <3>0, Zenon DEF RemoteText
    <3>2. QED  BY <3>1, <1>5, <1>7, <1>8, <1>9, <1>12, <1>14
  <2>2. write_payload(o) = Cat(A, write_remote(dep))
    <3>1. dep.kind # "Local"
      BY DEF IsRemote
    <3>2. push_uid(e) = push("u64", e) /\ push_uid(s) = push("u64", s) /\ push_uid(t) = push("u64", t)
      BY DEF push_uid
    <3>3. o.op = "EdgeConnect" /\ o.edge = e /\ o.src = s /\ o.tgt = t /\ o.dep = dep
      OBVIOUS
    <3>4. write_payload(o) = write_extension(o)
      BY <3>3 DEF write_payload
    <3>5. write_extension(o) = ((push_uid(e) \o push_uid(s)) \o push_uid(t)) \o write_remote(dep)
      BY <3>1, <3>3 DEF write_extension
    <3>6. QED  BY <3>2, <3>4, <3>5, <1>9 DEF Cat
  <2>3. QED  BY <2>1, <2>2, <1>24, <1>25
<1>28. DepAs(dep, y)
  BY <1>1, <1>4, <1>25, RemoteHeard
<1>29. ASSUME NEW k \in 0 .. Len(p)
       PROVE  parse_edge_connect(Reader(SubSeq(p, 1, k))) = Verdict(p, k, c)
  <2>1. PICK r, r5, r9, v, dd, u, j5, j9 :
          /\ r = EdgeRead(Reader(SubSeq(p, 1, k))) /\ r5 = Past(r)
          /\ r9 = read_all(r5, <<"u64", "u64", "u8", "u64">>)
          /\ v = [kind |-> "Remote", port_kind |-> q, source_partition |-> r9.got[6 + 1],
                  source_uid |-> r9.got[6 + 2], source_version |-> r9.got[6 + 3], zero |-> r9.got[6 + 4],
                  frontier |-> r9.got[6 + 5], authority |-> r9.got[6 + 6], class |-> r9.got[6 + 7],
                  capability |-> r9.got[6 + 8], scope |-> [bits |-> r9.got[6 + 9], root |-> 0]]
          /\ dd = Made(r9, 9, v) /\ u = Add(g, y)
          /\ j5 = Add(Add(Add(Add(Add(g, l % Size["u64"]), m % Size["u64"]), n % Size["u64"]), z), h)
          /\ j9 = Add(Add(Add(Add(j5, a % Size["u64"]), b % Size["u64"]), d % Size["u8"]), x % Size["u64"])
    OBVIOUS
  <2>2. Lies(p, 0, V9) /\ Len(p) \in Nat
    BY <1>25, <1>26, Payloads
  <2>3. Lies(p, 0, V8)
    BY <2>2, <2>2, <1>23, <1>13, <1>15, FirstOf
  <2>4. Lies(p, 0, V7)
    BY <2>2, <2>3, <1>22, <1>13, <1>15, FirstOf
  <2>5. Lies(p, 0, V6)
    BY <2>2, <2>4, <1>21, <1>13, <1>15, FirstOf
  <2>6. Lies(p, 0, V5)
    BY <2>2, <2>5, <1>20, <1>13, <1>15, FirstOf
  <2>7. Lies(p, 0, V4)
    BY <2>2, <2>6, <1>19, <1>13, <1>15, FirstOf
  <2>8. Lies(p, 0, V3)
    BY <2>2, <2>7, <1>18, <1>13, <1>15, FirstOf
  <2>9. Lies(p, 0, V2)
    BY <2>2, <2>8, <1>17, <1>13, <1>15, FirstOf
  <2>10. Lies(p, 0, V1)
    BY <2>2, <2>9, <1>16, <1>13, <1>15, FirstOf
  <2>11. Lies(p, 0, V0)
    BY <2>2, <2>10, <1>11, <1>13, <1>15, FirstOf
  <2>20. Reached(r, p, 0, V0, k, g)
    BY <1>6, <1>9, <1>25, <1>26, <2>1, <2>11, HeadRead
  <2>21. Reached(r5, p, 0, V5, k, j5)
    <3>1. PICK U, V, W : /\ U = Cat(Cat(Cat(V0, push("u64", l)), push("u64", m)), push("u64", n))
                         /\ V = Cat(U, push_kind(z)) /\ W = Cat(V, push_frontier(f))
      OBVIOUS
    <3>2. V5 = W
      BY <3>1, <1>12, <1>15
    <3>3. Lies(p, 0, W)
      BY <3>2, <2>6
    <3>4. Reached(Past(r), p, 0, W, k, j5)
      BY <1>2, <1>3, <1>4, <2>1, <2>20, <3>1, <3>3, PastRead
    <3>5. QED  BY <2>1, <3>2, <3>4
  <2>22. Reached(r9, p, 0, p, k, j9)
    <3>1. PICK V : V = Cat(Cat(Cat(Cat(V5, push("u64", a)), push("u64", b)), push("u8", d)), push("u64", x))
      OBVIOUS
    <3>2. p = V
      BY <3>1, <1>12, <1>15, <1>25
    <3>3. Lies(p, 0, V)
      BY <3>2, <2>2, <1>25
    <3>4. Reached(read_all(r5, <<"u64", "u64", "u8", "u64">>), p, 0, V, k, j9)
      BY <1>2, <1>3, <2>1, <2>21, <3>1, <3>3, RestRead
    <3>5. QED  BY <2>1, <3>2, <3>4
  <2>23. Listed(g) /\ Len(g) = 6 /\ g[4] = 1 /\ g[5] = pb
    BY <1>8, <1>25, EdgeGots
  <2>24. /\ Listed(j9) /\ Before(j9, 9) = g
         /\ j9[7] = l % Size["u64"] /\ j9[8] = m % Size["u64"] /\ j9[9] = n % Size["u64"] /\ j9[10] = z
         /\ j9[11] = h /\ j9[12] = a % Size["u64"] /\ j9[13] = b % Size["u64"]
         /\ j9[14] = d % Size["u8"] /\ j9[15] = x % Size["u64"]
    BY <2>1, <2>23, NineMore
  <2>25. n % Size["u64"] = n /\ b % Size["u64"] = b /\ x % Size["u64"] = x
    BY <1>2, <1>3, Narrowing
  <2>26. r9.got = j9 => v = y
    <3>1. SUFFICES ASSUME r9.got = j9 PROVE v = y
      OBVIOUS
    <3>2. PICK sc : sc = [bits |-> j9[15], root |-> 0]
      OBVIOUS
    <3>3. v = [kind |-> "Remote", port_kind |-> q, source_partition |-> j9[7],
               source_uid |-> j9[8], source_version |-> j9[9], zero |-> j9[10],
               frontier |-> j9[11], authority |-> j9[12], class |-> j9[13],
               capability |-> j9[14], scope |-> sc]
      <4>1. PICK i1, i2, i3, i4, i5, i6, i7, i8, i9 :
              /\ i1 = 6 + 1 /\ i2 = 6 + 2 /\ i3 = 6 + 3 /\ i4 = 6 + 4 /\ i5 = 6 + 5
              /\ i6 = 6 + 6 /\ i7 = 6 + 7 /\ i8 = 6 + 8 /\ i9 = 6 + 9
        OBVIOUS
      <4>2. /\ i1 = 7 /\ i2 = 8 /\ i3 = 9 /\ i4 = 10 /\ i5 = 11
            /\ i6 = 12 /\ i7 = 13 /\ i8 = 14 /\ i9 = 15
        BY <4>1
      <4>3. v = [kind |-> "Remote", port_kind |-> q, source_partition |-> r9.got[i1],
                 source_uid |-> r9.got[i2], source_version |-> r9.got[i3], zero |-> r9.got[i4],
                 frontier |-> r9.got[i5], authority |-> r9.got[i6], class |-> r9.got[i7],
                 capability |-> r9.got[i8], scope |-> [bits |-> r9.got[i9], root |-> 0]]
        BY <2>1, <4>1, Zenon
      <4>4. QED  BY <3>1, <3>2, <4>2, <4>3, Zenon
    <3>4. y = [kind |-> "Remote", port_kind |-> q, source_partition |-> l % Size["u64"],
               source_uid |-> m % Size["u64"], source_version |-> n, zero |-> z,
               frontier |-> h, authority |-> a % Size["u64"], class |-> b,
               capability |-> d % Size["u8"], scope |-> [bits |-> x, root |-> 0]]
      BY <1>25, Zenon DEF RemoteOf
    <3>5. j9[9] = n /\ j9[13] = b /\ j9[15] = x
      BY <2>24, <2>25
    <3>6. QED  BY <2>24, <3>2, <3>3, <3>4, <3>5, Zenon
  <2>27. Reached(dd, p, 0, p, k, u)
    <3>1. PICK nine \in Nat : nine = 9
      OBVIOUS
    <3>2. Listed(g) /\ g = Before(j9, nine) /\ dd = Made(r9, nine, v)
      BY <2>1, <2>23, <2>24, <3>1
    <3>3. Reached(Made(r9, nine, v), p, 0, p, k, Add(g, y))
      BY <2>22, <2>26, <3>2, NextMade
    <3>4. QED  BY <2>1, <3>2, <3>3
  <2>28. parse_remote(r, q) = dd
    BY <2>1 DEF parse_remote, Past
  <2>29. Reached(EdgeEnd(r), p, 0, p, k, u)
    <3>1. PICK w : w = EdgeEnd(r)
      OBVIOUS
    <3>2. r.err # "None" => w = r
      BY <3>1 DEF EdgeEnd
    <3>3. r.err = "None" /\ r.got = g => w = dd
      BY <3>1, <1>6, <2>23, <2>28 DEF EdgeEnd
    <3>4. Listed(u)
      BY <2>1, <2>23, Adds
    <3>5. Len(V0) <= Len(p)
      <4>1. Len(V0) \in Nat
        BY <1>11, LenProperties
      <4>2. 0 + Len(V0) <= Len(p)
        BY <2>11 DEF Lies
      <4>3. QED  BY <4>1, <4>2, <2>2
    <3>6. QED  BY <1>26, <2>20, <2>27, <3>1, <3>2, <3>3, <3>4, <3>5, Decided
  <2>30. EdgeParsed(EdgeEnd(r)) = Verdict(p, k, c)
    BY <1>25, <2>1, <2>29, EdgeDelivered
  <2>31. QED  BY <2>1, <2>30, EdgeSteps
<1>30. Delivers(opcode_for["EdgeConnect"], p, c)
  BY <1>26, <1>29, Opcodes DEF Delivers
<1>31. Fits(o, c)
  BY <1>25, <1>28, EdgeFits
<1>32. QED  BY <1>27, <1>30, <1>31 DEF Understood, Carried

-----------------------------------------------------------------------------
(* The three properties *)

LEMMA AllCarried ==
  ASSUME NEW o, IsOperation(o)
  PROVE  Carried(o)
<1>1. CASE /\ o.op = "NodeCreate"
           /\ o = [op |-> "NodeCreate", node |-> o.node, typ |-> o.typ, rule |-> o.rule,
                    attrs |-> o.attrs]
           /\ o.node \in Nat /\ o.typ \in Text /\ o.rule \in DOMAIN rule_byte /\ IsAttrs(o.attrs)
  BY <1>1, NodeCreateOps, Zenon
<1>2. CASE /\ o.op = "EdgeConnect"
           /\ o = [op |-> "EdgeConnect", edge |-> o.edge, src |-> o.src, tgt |-> o.tgt,
                    typ |-> o.typ, dep |-> o.dep]
           /\ {o.edge, o.src, o.tgt} \subseteq Nat
           /\ IsLocal(o.dep) \/ IsRemote(o.dep)
  <2>1. PICK e, s, t, typ, dep : e = o.edge /\ s = o.src /\ t = o.tgt /\ typ = o.typ /\ dep = o.dep
    OBVIOUS
  <2>2. /\ e \in Nat /\ s \in Nat /\ t \in Nat
        /\ o = [op |-> "EdgeConnect", edge |-> e, src |-> s, tgt |-> t, typ |-> typ, dep |-> dep]
    BY <1>2, <2>1
  <2>3. IsLocal(dep) \/ IsRemote(dep)
    BY <1>2, <2>1, Zenon
  <2>4. CASE IsLocal(dep)
    BY <2>2, <2>4, LocalOps, Zenon
  <2>5. CASE IsRemote(dep)
    BY <2>2, <2>5, RemoteOps, Zenon
  <2>6. QED  BY <2>3, <2>4, <2>5
<1>3. CASE o \in [op : {"Propagate", "DelNode", "DelEdge", "Demand", "Reflect"}, node : Nat]
  BY <1>3, NodeOps, Zenon
<1>4. CASE o \in [op : {"SetValue"}, node : Nat, val : T]
  BY <1>4, SetValueOps, Zenon
<1>5. CASE o \in [op : {"SetMode"}, node : Nat, mode : DOMAIN mode_byte]
  BY <1>5, SetModeOps, Zenon
<1>6. CASE o \in [op : {"Subscribe"}, src : Nat, sub : Nat]
  BY <1>6, SubscribeOps, Zenon
<1>7. CASE o \in [op : {"Stabilize"}, all : BOOLEAN, ids : Seq(Nat)] /\ IsList(o.ids)
  BY <1>7, StabilizeOps, Zenon
<1>8. CASE o \in [op : {"PartitionBind"}, node : Nat, partition : Nat]
  BY <1>8, BindOps, Zenon
<1>9. CASE o \in [op : {"PartitionCreate"}, partition : Nat, root : Nat, class : u64, domain : Scope]
  BY <1>9, CreateOps, Zenon
<1>10. CASE o \in [op : {"SetPartitionAuthority"}, partition : Nat, class : u64, domain : Scope]
  BY <1>10, AuthorityOps, Zenon
<1>11. CASE o \in [op : {"SetEdgeLabel"}, src : Nat, tgt : Nat,
                   label : [class : u64, capability : u64, scope : Scope,
                            mask : {"wildcard", "attribute_only", "structural", "boundary"}]]
  <2>1. o \in [op : {"SetEdgeLabel"}, src : Nat, tgt : Nat,
               label : [class : u64, capability : u64, scope : Scope, mask : Masks]]
    BY <1>11, Zenon DEF Masks
  <2>2. QED  BY <2>1, LabelOps, Zenon
<1>12. CASE o \in [op : {"SetStabilizationConfig"}, node : Nat,
                   strategy : [kind : {"FullL3"}, mask : {0}] \cup [kind : {"Restricted"}, mask : Nat],
                   domain : {"LocalOnly", "Federated", "Inherit"}, max_iterations : Nat,
                   convergence : {"Canonical", "Witness", "BudgetExhausted"}]
  <2>1. o \in [op : {"SetStabilizationConfig"}, node : Nat, strategy : Strategies,
               domain : Domains, max_iterations : Nat, convergence : Convergences]
    BY <1>12, Zenon DEF Strategies, Domains, Convergences
  <2>2. QED  BY <2>1, ConfigOps, Zenon
<1>13. CASE o \in [op : {"SetExecutionPolicy"}, node : Nat, priority : {"Normal", "High", "Low"},
                   retry : [kind : {"Fail"}, attempts : {0}] \cup [kind : {"Retry"}, attempts : Nat]]
  <2>1. o \in [op : {"SetExecutionPolicy"}, node : Nat, priority : Priorities, retry : Retries]
    BY <1>13, Zenon DEF Priorities, Retries
  <2>2. QED  BY <2>1, PolicyOps, Zenon
<1>14. CASE /\ o.op = "RegionDeclare"
            /\ o = [op |-> "RegionDeclare", root |-> o.root, boundary |-> o.boundary,
                     stability |-> o.stability, compile |-> o.compile]
            /\ o.root \in Nat /\ IsBoundary(o.boundary)
            /\ o.stability \in {"Pinned", "EpochTracked"} /\ o.compile \in {"Eager", "Lazy", "Never"}
  BY <1>14, RegionOps, Zenon
<1>15. QED
  BY <1>1, <1>2, <1>3, <1>4, <1>5, <1>6, <1>7, <1>8, <1>9, <1>10, <1>11, <1>12, <1>13, <1>14, Zenon DEF IsOperation

\* What an operation is received as, whole and cut short.
LEMMA ReceivedAs ==
  ASSUME NEW o, NEW c, Understood(o, c)
  PROVE  /\ Received(o) = [err |-> "None", op |-> c]
         /\ \A k \in 0 .. Len(write_payload(o)) - 1 :
              parse_payload(opcode_for[o.op], SubSeq(write_payload(o), 1, k)) = [err |-> "PayloadTruncated"]
<1>1. PICK p, w : p = write_payload(o) /\ w = opcode_for[o.op]
  OBVIOUS
<1>2. p \in Seq(Field) /\ \A k \in 0 .. Len(p) : parse_payload(w, SubSeq(p, 1, k)) = Verdict(p, k, c)
  BY <1>1 DEF Understood, Delivers
<1>3. Len(p) \in Nat /\ SubSeq(p, 1, Len(p)) = p
  BY <1>2, LenProperties, SubSeqFull
<1>4. parse_payload(w, p) = [err |-> "None", op |-> c]
  <2>1. PICK k : k = Len(p)
    OBVIOUS
  <2>2. k \in 0 .. Len(p) /\ SubSeq(p, 1, k) = p
    BY <1>3, <2>1
  <2>3. parse_payload(w, SubSeq(p, 1, k)) = Verdict(p, k, c)
    BY <1>2, <2>2
  <2>4. Verdict(p, k, c) = [err |-> "None", op |-> c]
    BY <2>1 DEF Verdict
  <2>5. QED  BY <2>2, <2>3, <2>4
<1>5. ASSUME NEW k \in 0 .. Len(p) - 1 PROVE parse_payload(w, SubSeq(p, 1, k)) = [err |-> "PayloadTruncated"]
  <2>0. PICK n \in Nat : n = Len(p)
    BY <1>3
  <2>a. k \in 0 .. n - 1
    BY <2>0
  <2>b. k \in 0 .. n /\ k # n
    BY <2>0, <2>a
  <2>1. k \in 0 .. Len(p) /\ k # Len(p)
    BY <2>0, <2>b
  <2>2. parse_payload(w, SubSeq(p, 1, k)) = Verdict(p, k, c)
    BY <1>2, <2>1
  <2>3. QED  BY <2>1, <2>2 DEF Verdict
<1>6. QED  BY <1>1, <1>4, <1>5 DEF Received

\* The operation that a step sends.
LEMMA SentOne ==
  ASSUME NEW q, NEW r \in Operation, q = <<r>>, NEW o \in ToSet(q)
  PROVE  IsOperation(o)
<1>1. o = r
  <2>1. ToSet(q) = {r}
    BY DEF ToSet
  <2>2. QED  BY <2>1
<1>2. QED  BY <1>1, OperationAssumption

\* Every operation that the format has room for is received as it was sent:
\* parse_payload of dispatch.rs undoes write_payload of encode.rs, whatever the
\* sizes of the fields, the texts and the attributes.
THEOREM PayloadsRoundTrip == WireSpec => RoundTrip
<1>1. [WireNext]_sent => [\A o \in ToSet(sent') :
                            Expressible(o) => Received(o) = [err |-> "None", op |-> o]]_sent
  <2>1. SUFFICES ASSUME WireNext, NEW o \in ToSet(sent'), Expressible(o)
                 PROVE  Received(o) = [err |-> "None", op |-> o]
    OBVIOUS
  <2>2. PICK r \in Operation : sent' = <<r>>
    BY <2>1 DEF WireNext
  <2>3. IsOperation(o)
    BY <2>2, SentOne
  <2>4. PICK c : Understood(o, c)
    BY <2>3, AllCarried DEF Carried
  <2>5. c = o
    BY <2>1, <2>4 DEF Understood, Fits
  <2>6. QED  BY <2>4, <2>5, ReceivedAs
<1>2. QED  BY <1>1, PTL DEF WireSpec, RoundTrip

\* What one receiver reads of any operation, and passes on, the next one reads
\* the same: what is lost is lost at the first reading (encode.rs and
\* dispatch.rs, on operations that the format has no room for).
THEOREM AllRelaysAgree == WireSpec => RelaysAgree
<1>1. [WireNext]_sent => [\A o \in ToSet(sent') : LET first == Received(o) IN
                            first.err = "None" /\ Received(first.op) = first]_sent
  <2>1. SUFFICES ASSUME WireNext, NEW o \in ToSet(sent')
                 PROVE  Received(o).err = "None" /\ Received(Received(o).op) = Received(o)
    OBVIOUS
  <2>2. PICK r \in Operation : sent' = <<r>>
    BY <2>1 DEF WireNext
  <2>3. IsOperation(o)
    BY <2>2, SentOne
  <2>4. PICK c : Understood(o, c)
    BY <2>3, AllCarried DEF Carried
  <2>5. Received(o) = [err |-> "None", op |-> c]
    BY <2>4, ReceivedAs
  <2>6. IsOperation(c) /\ Expressible(c)
    BY <2>4 DEF Understood, Fits
  <2>7. PICK d : Understood(c, d)
    BY <2>6, AllCarried DEF Carried
  <2>8. d = c
    BY <2>6, <2>7 DEF Understood, Fits
  <2>9. Received(c) = [err |-> "None", op |-> c]
    BY <2>7, <2>8, ReceivedAs
  <2>10. Received(o).err = "None" /\ Received(o).op = c
    BY <2>5
  <2>11. QED  BY <2>5, <2>9, <2>10
<1>2. QED  BY <1>1, PTL DEF WireSpec, RelaysAgree

\* A payload that is cut short at any field is refused as truncated, whatever
\* its operation: no prefix of one is a payload of another shape (dispatch.rs,
\* the readers of parse_payload).
THEOREM PayloadsDelimited == WireSpec => PrefixesRefused
<1>1. [WireNext]_sent => [\A o \in ToSet(sent') : LET p == write_payload(o) IN
                            \A k \in 0 .. Len(p) - 1 :
                              parse_payload(opcode_for[o.op], SubSeq(p, 1, k))
                                = [err |-> "PayloadTruncated"]]_sent
  <2>1. SUFFICES ASSUME WireNext, NEW o \in ToSet(sent'), NEW k \in 0 .. Len(write_payload(o)) - 1
                 PROVE  parse_payload(opcode_for[o.op], SubSeq(write_payload(o), 1, k))
                          = [err |-> "PayloadTruncated"]
    OBVIOUS
  <2>2. PICK r \in Operation : sent' = <<r>>
    BY <2>1 DEF WireNext
  <2>3. IsOperation(o)
    BY <2>2, SentOne
  <2>4. PICK c : Understood(o, c)
    BY <2>3, AllCarried DEF Carried
  <2>5. QED  BY <2>4, ReceivedAs
<1>2. QED  BY <1>1, PTL DEF WireSpec, PrefixesRefused
=============================================================================
