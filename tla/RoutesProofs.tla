----------------------------- MODULE RoutesProofs -----------------------------
(***************************************************************************)
(* Proofs about the parse of repo and target from a routed path (Routes), *)
(* for every set of words and every bound on the path.                    *)
(***************************************************************************)
EXTENDS Routes, SequenceTheorems, TLAPS

(***************************************************************************)
(* strings.Split and strings.Join.  Split(p) and Join(s) are the last      *)
(* values of recursive functions, that is, of a CHOOSE over functions     *)
(* satisfying their defining equation.  SplitDet(p, v) says that such a    *)
(* function exists and that every one ends in v, so Split(p) = v.  The    *)
(* extension lemmas carry SplitDet and JoinDet over one more token or      *)
(* segment; the behaviour that builds the path one segment at a time       *)
(* supplies the induction.                                                 *)
(***************************************************************************)

\* The defining equation of the function f in Split, at i.
SplitBody(p, f, i) ==
    IF i = 0 THEN << << >> >>
    ELSE IF p[i] = Slash THEN Append(f[i - 1], << >>)
    ELSE [f[i - 1] EXCEPT ![Len(f[i - 1])] = Append(@, p[i])]
\* f is a function Split's LET could choose for p.
SplitDef(p, f) == f = [i \in 0..Len(p) |-> SplitBody(p, f, i)]
\* Some such function exists and every one ends in v.
SplitDet(p, v) ==
    /\ \E f : SplitDef(p, f)
    /\ \A f : SplitDef(p, f) => f[Len(p)] = v
\* What one more token does to the split so far.
SplitStep(v, t) ==
    IF t = Slash THEN Append(v, << >>)
    ELSE [v EXCEPT ![Len(v)] = Append(@, t)]

\* Past index 0 the defining equation is one SplitStep.
LEMMA SplitBodyStep ==
    ASSUME NEW p, NEW f, NEW i \in Nat \ {0}
    PROVE  SplitBody(p, f, i) = SplitStep(f[i - 1], p[i])
BY DEF SplitBody, SplitStep

\* SplitDet(p, v) pins Split(p) down to v.
LEMMA SplitDetValue ==
    ASSUME NEW p, NEW v, SplitDet(p, v)
    PROVE  Split(p) = v
<1>1. SplitDef(p, CHOOSE f : SplitDef(p, f))
  BY DEF SplitDet
<1>2. Split(p) = (CHOOSE f : SplitDef(p, f))[Len(p)]
  BY DEF Split, SplitDef, SplitBody
<1>3. QED
  BY <1>1, <1>2 DEF SplitDet

\* The empty path splits into one empty segment.
LEMMA SplitEmpty == SplitDet(<< >>, << << >> >>)
<1> DEFINE f0 == [i \in {0} |-> << << >> >>]
<1>1. SplitDef(<< >>, f0)
  BY DEF SplitDef, SplitBody
<1>2. ASSUME NEW f, SplitDef(<< >>, f) PROVE f[0] = << << >> >>
  BY <1>2 DEF SplitDef, SplitBody
<1>3. QED
  BY <1>1, <1>2 DEF SplitDet

\* One more token extends the unique split by one SplitStep: the
\* witness is the old function extended, and every function for the longer
\* path restricts to one for the shorter.
LEMMA SplitAppend ==
    ASSUME NEW S, NEW p \in Seq(S), NEW t \in S, NEW v, SplitDet(p, v)
    PROVE  SplitDet(Append(p, t), SplitStep(v, t))
<1> DEFINE q == Append(p, t)
<1> DEFINE n == Len(p)
<1>1. Len(q) = n + 1 /\ n \in Nat
  OBVIOUS
<1>2. \A i \in 1..n : q[i] = p[i]
  OBVIOUS
<1>3. q[n + 1] = t
  OBVIOUS
<1>4. PICK f : SplitDef(p, f)
  BY DEF SplitDet
<1>5. f[n] = v
  BY <1>4 DEF SplitDet
<1> DEFINE g == [i \in 0..n + 1 |-> IF i <= n THEN f[i] ELSE SplitStep(v, t)]
<1>6. SplitDef(q, g)
  <2>1. ASSUME NEW i \in 0..n + 1 PROVE g[i] = SplitBody(q, g, i)
    <3>1. CASE i = 0
      BY <3>1, <1>4 DEF SplitDef, SplitBody
    <3>2. CASE i \in 1..n
      <4>1. g[i] = f[i] /\ g[i - 1] = f[i - 1]
        BY <3>2
      <4>2. f[i] = SplitBody(p, f, i)
        BY <3>2, <1>4 DEF SplitDef
      <4>3. SplitBody(q, g, i) = SplitBody(p, f, i)
        BY <3>2, <4>1, <1>2, SplitBodyStep
      <4>4. QED
        BY <4>1, <4>2, <4>3
    <3>3. CASE i = n + 1
      <4>1. g[i] = SplitStep(v, t) /\ g[i - 1] = v
        BY <3>3, <1>5, <1>1
      <4>2. SplitBody(q, g, i) = SplitStep(g[i - 1], q[i])
        BY <3>3, <1>1, SplitBodyStep
      <4>3. QED
        BY <3>3, <4>1, <4>2, <1>3
    <3>4. QED
      BY <3>1, <3>2, <3>3, <1>1
  <2>2. QED
    BY <2>1, <1>1 DEF SplitDef
<1>7. ASSUME NEW g2, SplitDef(q, g2) PROVE g2[n + 1] = SplitStep(v, t)
  <2> DEFINE h == [i \in 0..n |-> g2[i]]
  <2>1. SplitDef(p, h)
    <3>1. ASSUME NEW i \in 0..n PROVE h[i] = SplitBody(p, h, i)
      <4>1. g2[i] = SplitBody(q, g2, i)
        BY <1>7, <1>1 DEF SplitDef
      <4>2. i # 0 => h[i - 1] = g2[i - 1] /\ q[i] = p[i]
        BY <1>2
      <4>3. QED
        BY <4>1, <4>2 DEF SplitBody
    <3>2. QED
      BY <3>1 DEF SplitDef
  <2>2. g2[n] = v
    BY <2>1 DEF SplitDet
  <2>3. g2[n + 1] = SplitBody(q, g2, n + 1)
    BY <1>7, <1>1 DEF SplitDef
  <2>4. SplitBody(q, g2, n + 1) = SplitStep(g2[(n + 1) - 1], q[n + 1])
    <3>1. n + 1 \in Nat \ {0}
      BY <1>1
    <3>2. QED
      BY <3>1, SplitBodyStep
  <2>5. QED
    BY <2>2, <2>3, <2>4, <1>3, <1>1
<1>8. QED
  BY <1>6, <1>7, <1>1 DEF SplitDet

\* The defining equation of the function g in Join, at i.
JoinBody(s, g, i) ==
    IF i = 0 THEN << >>
    ELSE IF i = 1 THEN s[1]
    ELSE g[i - 1] \o <<Slash>> \o s[i]
\* g is a function Join's LET could choose for s.
JoinDef(s, g) == g = [i \in 0..Len(s) |-> JoinBody(s, g, i)]
\* Some such function exists and every one ends in v.
JoinDet(s, v) ==
    /\ \E g : JoinDef(s, g)
    /\ \A g : JoinDef(s, g) => g[Len(s)] = v

\* Past index 1 the defining equation adds a slash and a segment.
LEMMA JoinBodyStep ==
    ASSUME NEW s, NEW g, NEW i \in Nat \ {0, 1}
    PROVE  JoinBody(s, g, i) = g[i - 1] \o <<Slash>> \o s[i]
BY Zenon DEF JoinBody

\* JoinDet(s, v) pins Join(s) down to v.
LEMMA JoinDetValue ==
    ASSUME NEW s, NEW v, JoinDet(s, v)
    PROVE  Join(s) = v
<1>1. JoinDef(s, CHOOSE g : JoinDef(s, g))
  BY DEF JoinDet
<1>2. Join(s) = (CHOOSE g : JoinDef(s, g))[Len(s)]
  BY DEF Join, JoinDef, JoinBody
<1>3. QED
  BY <1>1, <1>2 DEF JoinDet

\* One segment joins to itself.
LEMMA JoinOne ==
    ASSUME NEW x
    PROVE  JoinDet(<<x>>, x)
<1> DEFINE g1 == [i \in 0..1 |-> IF i = 0 THEN << >> ELSE x]
<1>1. JoinDef(<<x>>, g1)
  BY DEF JoinDef, JoinBody
<1>2. ASSUME NEW g, JoinDef(<<x>>, g) PROVE g[1] = x
  BY <1>2 DEF JoinDef, JoinBody
<1>3. QED
  BY <1>1, <1>2 DEF JoinDet

\* One more segment extends the unique join by a slash and the segment.
LEMMA JoinAppend ==
    ASSUME NEW S, NEW s \in Seq(S), Len(s) >= 1, NEW x \in S, NEW v,
           JoinDet(s, v)
    PROVE  JoinDet(Append(s, x), v \o <<Slash>> \o x)
<1> DEFINE q == Append(s, x)
<1> DEFINE n == Len(s)
<1> DEFINE w == v \o <<Slash>> \o x
<1>1. Len(q) = n + 1 /\ n \in Nat \ {0} /\ n + 1 # 1
  OBVIOUS
<1>2. \A i \in 1..n : q[i] = s[i]
  OBVIOUS
<1>3. q[n + 1] = x
  OBVIOUS
<1>4. PICK f : JoinDef(s, f)
  BY DEF JoinDet
<1>5. f[n] = v
  BY <1>4 DEF JoinDet
<1> DEFINE g == [i \in 0..n + 1 |-> IF i <= n THEN f[i] ELSE w]
<1>6. JoinDef(q, g)
  <2>1. ASSUME NEW i \in 0..n + 1 PROVE g[i] = JoinBody(q, g, i)
    <3>1. CASE i \in 0..n
      <4>1. g[i] = f[i] /\ (i # 0 => g[i - 1] = f[i - 1])
        BY <3>1
      <4>2. f[i] = JoinBody(s, f, i)
        BY <3>1, <1>4 DEF JoinDef
      <4>3. JoinBody(q, g, i) = JoinBody(s, f, i)
        BY <3>1, <4>1, <1>2 DEF JoinBody
      <4>4. QED
        BY <4>1, <4>2, <4>3
    <3>2. CASE i = n + 1
      <4>1. g[i] = w /\ g[i - 1] = v
        BY <3>2, <1>5, <1>1
      <4>2. JoinBody(q, g, i) = g[i - 1] \o <<Slash>> \o q[i]
        <5>1. i \in Nat \ {0, 1}
          BY <3>2, <1>1
        <5>2. QED
          BY <5>1, JoinBodyStep
      <4>3. QED
        BY <3>2, <4>1, <4>2, <1>3
    <3>3. QED
      BY <3>1, <3>2, <1>1
  <2>2. QED
    BY <2>1, <1>1 DEF JoinDef
<1>7. ASSUME NEW g2, JoinDef(q, g2) PROVE g2[n + 1] = w
  <2> DEFINE h == [i \in 0..n |-> g2[i]]
  <2>1. JoinDef(s, h)
    <3>1. ASSUME NEW i \in 0..n PROVE h[i] = JoinBody(s, h, i)
      <4>1. g2[i] = JoinBody(q, g2, i)
        BY <1>7, <1>1 DEF JoinDef
      <4>2. i # 0 => h[i - 1] = g2[i - 1] /\ q[i] = s[i]
        BY <1>2
      <4>3. QED
        BY <4>1, <4>2 DEF JoinBody
    <3>2. QED
      BY <3>1 DEF JoinDef
  <2>2. g2[n] = v
    BY <2>1 DEF JoinDet
  <2>3. g2[n + 1] = JoinBody(q, g2, n + 1)
    BY <1>7, <1>1 DEF JoinDef
  <2>4. JoinBody(q, g2, n + 1) = g2[(n + 1) - 1] \o <<Slash>> \o q[n + 1]
    <3>1. n + 1 \in Nat \ {0, 1}
      BY <1>1
    <3>2. QED
      BY <3>1, JoinBodyStep
  <2>5. g2[(n + 1) - 1] = v
    BY <2>2, <1>1
  <2>6. QED
    BY <2>3, <2>4, <2>5, <1>3, Zenon DEF w
<1>8. QED
  BY <1>6, <1>7, <1>1 DEF JoinDet

\* The tokens of a path.
Tokens == Words \cup {Slash}

\* Segments are sequences of words, and words are tokens.
LEMMA SegmentsType == Segments \subseteq Seq(Words) /\ Words \subseteq Tokens
<1>1. << >> \in Seq(Words)
  BY EmptySeq
<1>2. ASSUME NEW w \in Words PROVE <<w>> \in Seq(Words)
  OBVIOUS
<1>3. QED
  BY <1>1, <1>2 DEF Segments, Tokens

\* Appending a segment to the segment list, as a concatenation.
LEMMA SegsAppend ==
    ASSUME NEW E \in Seq(Seq(Words)), NEW seg \in Seq(Words)
    PROVE  /\ << << >> >> \o E \in Seq(Seq(Words))
           /\ Append(<< << >> >> \o E, seg) = << << >> >> \o Append(E, seg)
<1>1. << << >> >> \in Seq(Seq(Words)) /\ <<seg>> \in Seq(Seq(Words))
  BY EmptySeq
<1>2. << << >> >> \o E \in Seq(Seq(Words))
  BY <1>1, ConcatProperties
<1>3. Append(<< << >> >> \o E, seg) = (<< << >> >> \o E) \o <<seg>>
  BY <1>2, AppendIsConcat
<1>4. Append(E, seg) = E \o <<seg>>
  BY AppendIsConcat
<1>5. QED
  BY <1>1, <1>2, <1>3, <1>4, ConcatAssociative

\* Appending "/" and a segment to a path appends the segment to its split.
LEMMA SplitSegment ==
    ASSUME NEW p \in Seq(Tokens), NEW E \in Seq(Seq(Words)),
           SplitDet(p, << << >> >> \o E), NEW seg \in Segments
    PROVE  /\ p \o <<Slash>> \o seg \in Seq(Tokens)
           /\ SplitDet(p \o <<Slash>> \o seg, << << >> >> \o Append(E, seg))
<1> DEFINE V == << << >> >> \o E
<1> DEFINE p1 == Append(p, Slash)
<1>1. /\ Slash \in Tokens /\ p1 \in Seq(Tokens) /\ p1 = p \o <<Slash>>
      /\ <<Slash>> \in Seq(Tokens)
  BY AppendIsConcat DEF Tokens
<1>2. seg \in Seq(Words) /\ seg \in Seq(Tokens)
  BY SegmentsType, SeqMonotonic
<1>3. V \in Seq(Seq(Words))
  BY SegsAppend
<1>4. SplitDet(p1, Append(V, << >>))
  <2>1. SplitDet(p1, SplitStep(V, Slash))
    BY <1>1, SplitAppend
  <2>2. SplitStep(V, Slash) = Append(V, << >>)
    BY DEF SplitStep
  <2>3. QED
    BY <2>1, <2>2
<1>5. p \o <<Slash>> \o seg = p1 \o seg
  BY <1>1, <1>2, ConcatAssociative
<1>6. p1 \o seg \in Seq(Tokens)
  BY <1>1, <1>2, ConcatProperties
<1>7. CASE seg = << >>
  <2>1. p1 \o seg = p1
    BY <1>7, <1>1, ConcatEmptySeq
  <2>2. Append(V, << >>) = << << >> >> \o Append(E, seg)
    BY <1>7, <1>2, SegsAppend
  <2>3. QED
    BY <1>4, <1>5, <1>6, <2>1, <2>2
<1>8. CASE seg # << >>
  <2>1. PICK w \in Words : seg = <<w>>
    BY <1>8 DEF Segments
  <2>2. w \in Tokens /\ w # Slash
    BY WordsAssumption DEF Tokens
  <2>3. p1 \o seg = Append(p1, w)
    BY <2>1, <2>2, <1>1, AppendIsConcat
  <2>4. SplitDet(Append(p1, w), SplitStep(Append(V, << >>), w))
    BY <1>1, <1>4, <2>2, SplitAppend
  <2>5. SplitStep(Append(V, << >>), w) = Append(V, seg)
    <3> DEFINE A == Append(V, << >>)
    <3>1. A \in Seq(Seq(Words)) /\ Len(A) = Len(V) + 1 /\ A[Len(A)] = << >>
          /\ Len(V) \in Nat
      BY <1>3, EmptySeq, AppendProperties
    <3>2. SplitStep(A, w) = [A EXCEPT ![Len(A)] = <<w>>]
      BY <2>2, <3>1 DEF SplitStep
    <3>3. [A EXCEPT ![Len(A)] = <<w>>] = Append(V, <<w>>)
      <4> DEFINE B == [A EXCEPT ![Len(A)] = <<w>>]
      <4> DEFINE C == Append(V, <<w>>)
      <4>1. <<w>> \in Seq(Words) /\ Len(A) \in 1..Len(A)
        BY <3>1
      <4>2. /\ C \in Seq(Seq(Words)) /\ Len(C) = Len(V) + 1
            /\ \A j \in 1..Len(V) : C[j] = V[j] /\ A[j] = V[j]
            /\ C[Len(V) + 1] = <<w>>
        BY <1>3, <4>1, AppendProperties, EmptySeq
      <4>3. DOMAIN A = 1..Len(V) + 1 /\ DOMAIN C = 1..Len(V) + 1
        BY <3>1, <4>2, LenProperties
      <4>4. DOMAIN B = DOMAIN C
        BY <4>3
      <4>5. \A j \in DOMAIN C : B[j] = C[j]
        <5>1. B[Len(V) + 1] = C[Len(V) + 1]
          BY <3>1, <4>2, <4>3
        <5>2. ASSUME NEW j \in 1..Len(V) PROVE B[j] = C[j]
          <6>1. j # Len(A) /\ j \in DOMAIN A
            BY <3>1, <4>3
          <6>2. B[j] = A[j]
            BY <6>1
          <6>3. QED
            BY <6>2, <4>2
        <5>3. QED
          BY <5>1, <5>2, <4>3, <3>1
      <4>6. B \in [DOMAIN C -> Seq(Words)] /\ C \in [DOMAIN C -> Seq(Words)]
        BY <4>2, <4>3, <4>5, LenProperties
      <4>7. QED
        BY <4>4, <4>5, <4>6
    <3>4. QED
      BY <3>2, <3>3, <2>1
  <2>6. Append(V, seg) = << << >> >> \o Append(E, seg)
    BY <1>2, SegsAppend
  <2>7. QED
    BY <1>5, <1>6, <2>3, <2>4, <2>5, <2>6
<1>9. QED
  BY <1>7, <1>8

-----------------------------------------------------------------------------
(***************************************************************************)
(* The path as it is built: its elements E (what Split makes of it, after *)
(* the empty element before the root slash) and, once it has four         *)
(* elements, the join r of the elements handle reads as the repo.          *)
(***************************************************************************)

\* The prefix "/" a "/" r of a path.
Pre(a, r) == <<Slash>> \o a \o <<Slash>> \o r

\* p has the elements E, and spells "/" e1 "/" ... "/" en with the
\* elements from the second to the one before the kind joined into r.
PathShape(p, E) ==
    /\ Len(E) >= 1
    /\ SplitDet(p, << << >> >> \o E)
    /\ Len(E) = 1 => p = <<Slash>> \o E[1]
    /\ Len(E) = 2 => p = <<Slash>> \o E[1] \o <<Slash>> \o E[2]
    /\ Len(E) = 3 => p = Pre(E[1], E[2]) \o <<Slash>> \o E[3]
    /\ Len(E) >= 4 =>
          \E r \in Seq(Tokens) :
              /\ JoinDet(SubSeq(E, 2, Len(E) - 2), r)
              /\ p = Pre(E[1], r) \o <<Slash>> \o E[Len(E) - 1]
                     \o <<Slash>> \o E[Len(E)]

\* One more segment of the repo moves into the prefix.
LEMMA PreAppend ==
    ASSUME NEW a \in Seq(Tokens), NEW r \in Seq(Tokens), NEW x \in Seq(Tokens)
    PROVE  Pre(a, r \o <<Slash>> \o x) = Pre(a, r) \o <<Slash>> \o x
<1> DEFINE H == <<Slash>> \o a \o <<Slash>>
<1>1. <<Slash>> \in Seq(Tokens) /\ H \in Seq(Tokens)
  BY ConcatProperties DEF Tokens
<1>2. r \o <<Slash>> \in Seq(Tokens) /\ H \o r \in Seq(Tokens)
  BY <1>1, ConcatProperties
<1>3. H \o ((r \o <<Slash>>) \o x) = (H \o (r \o <<Slash>>)) \o x
  BY <1>1, <1>2, ConcatAssociative
<1>4. H \o (r \o <<Slash>>) = (H \o r) \o <<Slash>>
  BY <1>1, ConcatAssociative
<1>5. QED
  BY <1>3, <1>4 DEF Pre

\* The cases of the length of a path's element list.
LEMMA LengthCases ==
    ASSUME NEW n \in Nat, n >= 1
    PROVE  n = 1 \/ n = 2 \/ n = 3 \/ n >= 4
OBVIOUS

\* A one-element slice of a sequence.
LEMMA SubSeqOne ==
    ASSUME NEW S, NEW s \in Seq(S), NEW i \in 1..Len(s)
    PROVE  SubSeq(s, i, i) = <<s[i]>>
<1>1. SubSeq(s, i, i) = <<s[i]>> \o SubSeq(s, i + 1, i)
  BY SubSeqRecursiveFirst
<1>2. SubSeq(s, i + 1, i) = << >>
  BY SubSeqEmpty
<1>3. <<s[i]>> \in Seq(S)
  BY ElementOfSeq
<1>4. QED
  BY <1>1, <1>2, <1>3, ConcatEmptySeq

\* The slice handle joins into the repo grows by the element that was the
\* one before last.
LEMMA RepoSliceAppend ==
    ASSUME NEW S, NEW E \in Seq(S), NEW x \in S, Len(E) >= 4
    PROVE  LET k == Len(E) IN
           /\ SubSeq(E, 2, k - 2) \in Seq(S)
           /\ Len(SubSeq(E, 2, k - 2)) >= 1
           /\ SubSeq(Append(E, x), 2, Len(Append(E, x)) - 2)
                 = Append(SubSeq(E, 2, k - 2), E[k - 1])
<1> DEFINE k == Len(E)
<1> DEFINE F == Append(E, x)
<1>1. k \in Nat /\ F \in Seq(S) /\ Len(F) = k + 1 /\ F = E \o <<x>>
      /\ <<x>> \in Seq(S)
  BY AppendProperties, AppendIsConcat
<1>2. \A i \in 2..k - 2 : E[i] \in S
  BY ElementOfSeq
<1>3. SubSeq(E, 2, k - 2) \in Seq(S) /\ Len(SubSeq(E, 2, k - 2)) = k - 3
  BY <1>1, <1>2, SubSeqProperties
<1>4. SubSeq(F, 2, k - 1) = SubSeq(F, 2, k - 2) \o <<F[k - 1]>>
  BY <1>1, SubSeqRecursiveSecond
<1>5. SubSeq(F, 2, k - 2) = SubSeq(E, 2, k - 2)
  BY <1>1, SubSeqOfConcat1
<1>6. F[k - 1] = E[k - 1] /\ E[k - 1] \in S
  BY <1>1, AppendProperties, ElementOfSeq
<1>7. Append(SubSeq(E, 2, k - 2), E[k - 1]) = SubSeq(E, 2, k - 2) \o <<E[k - 1]>>
  BY <1>3, <1>6, AppendIsConcat
<1>8. Len(F) - 2 = k - 1 /\ k - 3 >= 1
  BY <1>1
<1>9. SubSeq(F, 2, Len(F) - 2) = Append(SubSeq(E, 2, k - 2), E[k - 1])
  BY <1>4, <1>5, <1>6, <1>7, <1>8, Zenon
<1>10. QED
  BY <1>3, <1>8, <1>9

\* Adding a segment to a path of that shape gives a path of that shape.
LEMMA ShapeStep ==
    ASSUME NEW p \in Seq(Tokens), NEW E \in Seq(Seq(Words)), PathShape(p, E),
           NEW seg \in Segments
    PROVE  PathShape(p \o <<Slash>> \o seg, Append(E, seg))
<1> DEFINE q == p \o <<Slash>> \o seg
<1> DEFINE F == Append(E, seg)
<1> DEFINE k == Len(E)
<1>1. seg \in Seq(Words) /\ seg \in Seq(Tokens)
  BY SegmentsType, SeqMonotonic
<1>2. /\ F \in Seq(Seq(Words)) /\ Len(F) = k + 1 /\ k \in Nat /\ k >= 1
      /\ \A i \in 1..k : F[i] = E[i]
      /\ F[k + 1] = seg
  BY <1>1, AppendProperties DEF PathShape
<1>3. SplitDet(q, << << >> >> \o F)
  BY SplitSegment DEF PathShape
<1>4. CASE k = 1
  <2>1. p = <<Slash>> \o E[1]
    BY <1>4 DEF PathShape
  <2>2. F[1] = E[1] /\ F[2] = seg
    BY <1>2, <1>4
  <2>3. q = <<Slash>> \o F[1] \o <<Slash>> \o F[2]
    BY <2>1, <2>2, Zenon
  <2>4. Len(F) >= 1 /\ Len(F) = 2 /\ Len(F) # 1 /\ Len(F) # 3 /\ ~(Len(F) >= 4)
    BY <1>2, <1>4
  <2>5. QED
    BY <1>3, <2>3, <2>4, Zenon DEF PathShape
<1>5. CASE k = 2
  <2>1. p = <<Slash>> \o E[1] \o <<Slash>> \o E[2]
    BY <1>5 DEF PathShape
  <2>2. F[1] = E[1] /\ F[2] = E[2] /\ F[3] = seg
    BY <1>2, <1>5
  <2>3. q = Pre(F[1], F[2]) \o <<Slash>> \o F[3]
    BY <2>1, <2>2, Zenon DEF Pre
  <2>4. Len(F) >= 1 /\ Len(F) = 3 /\ Len(F) # 1 /\ Len(F) # 2 /\ ~(Len(F) >= 4)
    BY <1>2, <1>5
  <2>5. QED
    BY <1>3, <2>3, <2>4, Zenon DEF PathShape
<1>6. CASE k = 3
  <2>1. p = Pre(E[1], E[2]) \o <<Slash>> \o E[3]
    BY <1>6 DEF PathShape
  <2>2. SubSeq(F, 2, Len(F) - 2) = <<E[2]>>
    <3>0. 2 \in 1..Len(F)
      BY <1>2, <1>6
    <3>1. SubSeq(F, 2, 2) = <<F[2]>>
      BY <1>2, <3>0, SubSeqOne
    <3>2. QED
      BY <3>1, <1>2, <1>6
  <2>3. E[2] \in Seq(Tokens)
    <3>0. 2 \in 1..Len(E)
      BY <1>6
    <3>1. E[2] \in Seq(Words)
      BY <3>0, ElementOfSeq
    <3>2. QED
      BY <3>1, SegmentsType, SeqMonotonic
  <2>4. JoinDet(SubSeq(F, 2, Len(F) - 2), E[2])
    BY <2>2, JoinOne
  <2>5. q = Pre(F[1], E[2]) \o <<Slash>> \o F[Len(F) - 1] \o <<Slash>> \o F[Len(F)]
    <3>1. F[1] = E[1] /\ F[Len(F) - 1] = E[3] /\ F[Len(F)] = seg
      BY <1>2, <1>6
    <3>2. QED
      BY <2>1, <3>1, Zenon
  <2>6. Len(F) >= 1 /\ Len(F) >= 4 /\ Len(F) # 1 /\ Len(F) # 2 /\ Len(F) # 3
    BY <1>2, <1>6
  <2>7. \E r \in Seq(Tokens) :
            /\ JoinDet(SubSeq(F, 2, Len(F) - 2), r)
            /\ q = Pre(F[1], r) \o <<Slash>> \o F[Len(F) - 1] \o <<Slash>> \o F[Len(F)]
    BY <2>3, <2>4, <2>5
  <2>8. QED
    BY <1>3, <2>6, <2>7, Zenon DEF PathShape
<1>7. CASE k >= 4
  <2>1. PICK r \in Seq(Tokens) :
            /\ JoinDet(SubSeq(E, 2, k - 2), r)
            /\ p = Pre(E[1], r) \o <<Slash>> \o E[k - 1] \o <<Slash>> \o E[k]
    BY <1>7 DEF PathShape
  <2>2. E[1] \in Seq(Tokens) /\ E[k - 1] \in Seq(Tokens) /\ E[k - 1] \in Seq(Words)
    <3>0. 1 \in 1..Len(E) /\ k - 1 \in 1..Len(E)
      BY <1>2, <1>7
    <3>1. E[1] \in Seq(Words) /\ E[k - 1] \in Seq(Words)
      BY <3>0, ElementOfSeq
    <3>2. QED
      BY <3>1, SegmentsType, SeqMonotonic
  <2> DEFINE r2 == r \o <<Slash>> \o E[k - 1]
  <2>3. r2 \in Seq(Tokens)
    <3>1. <<Slash>> \in Seq(Tokens) /\ r \o <<Slash>> \in Seq(Tokens)
      BY ConcatProperties DEF Tokens
    <3>2. QED
      BY <2>2, <3>1, ConcatProperties
  <2>4. /\ SubSeq(E, 2, k - 2) \in Seq(Seq(Words))
        /\ Len(SubSeq(E, 2, k - 2)) >= 1
        /\ SubSeq(F, 2, Len(F) - 2) = Append(SubSeq(E, 2, k - 2), E[k - 1])
    BY <1>1, <1>7, RepoSliceAppend
  <2>5. JoinDet(SubSeq(F, 2, Len(F) - 2), r2)
    BY <2>1, <2>2, <2>4, JoinAppend
  <2>6. Pre(E[1], r2) = Pre(E[1], r) \o <<Slash>> \o E[k - 1]
    BY <2>2, PreAppend
  <2>7. q = Pre(F[1], r2) \o <<Slash>> \o F[Len(F) - 1] \o <<Slash>> \o F[Len(F)]
    <3>1. F[1] = E[1] /\ F[Len(F) - 1] = E[k] /\ F[Len(F)] = seg
      BY <1>2, <1>7
    <3>2. q = Pre(E[1], r) \o <<Slash>> \o E[k - 1] \o <<Slash>> \o E[k]
              \o <<Slash>> \o seg
      BY <2>1, Zenon
    <3>3. QED
      BY <2>6, <3>1, <3>2, Zenon
  <2>8. Len(F) >= 1 /\ Len(F) >= 4 /\ Len(F) # 1 /\ Len(F) # 2 /\ Len(F) # 3
    BY <1>2, <1>7
  <2>9. \E r0 \in Seq(Tokens) :
            /\ JoinDet(SubSeq(F, 2, Len(F) - 2), r0)
            /\ q = Pre(F[1], r0) \o <<Slash>> \o F[Len(F) - 1] \o <<Slash>> \o F[Len(F)]
    BY <2>3, <2>5, <2>7
  <2>10. QED
    BY <1>3, <2>8, <2>9, Zenon DEF PathShape
<1>8. QED
  <2>1. k \in Nat /\ k >= 1
    BY LenProperties DEF PathShape
  <2>2. k = 1 \/ k = 2 \/ k = 3 \/ k >= 4
    BY <2>1, LengthCases
  <2>3. QED
    BY <2>2, <1>4, <1>5, <1>6, <1>7

\* The separators around the resource kind.
LEMMA KindConcat ==
    ASSUME NEW a, NEW b
    PROVE  <<a>> \o (<<b>> \o <<a>>) = <<a, b, a>>
<1> DEFINE S == {a, b}
<1>1. <<a>> \in Seq(S) /\ <<b>> \in Seq(S)
  OBVIOUS
<1>2. /\ <<b>> \o <<a>> \in Seq(S) /\ Len(<<b>> \o <<a>>) = 2
      /\ (<<b>> \o <<a>>)[1] = b /\ (<<b>> \o <<a>>)[2] = a
  BY <1>1, ConcatProperties
<1> DEFINE X == <<a>> \o (<<b>> \o <<a>>)
<1>3. /\ X \in Seq(S) /\ Len(X) = 3
      /\ \A i \in 1..3 : X[i] = IF i = 1 THEN a ELSE (<<b>> \o <<a>>)[i - 1]
  BY <1>1, <1>2, ConcatProperties
<1>4. <<a, b, a>> \in Seq(S) /\ Len(<<a, b, a>>) = 3
  OBVIOUS
<1>5. \A i \in 1..Len(X) : X[i] = <<a, b, a>>[i]
  <2>1. X[1] = a /\ X[2] = b /\ X[3] = a
    BY <1>2, <1>3
  <2>2. QED
    BY <2>1, <1>3
<1>6. QED
  BY <1>3, <1>4, <1>5, SeqEqual, Zenon

\* The resource kind between its slashes, spliced after the prefix.
LEMMA KindSplice ==
    ASSUME NEW P \in Seq(Tokens), NEW kind, <<kind>> \in Seq(Tokens)
    PROVE  P \o <<Slash>> \o <<kind>> \o <<Slash>> = P \o <<Slash, kind, Slash>>
<1>1. <<Slash>> \in Seq(Tokens) /\ P \o <<Slash>> \in Seq(Tokens)
      /\ <<kind>> \o <<Slash>> \in Seq(Tokens)
  BY ConcatProperties DEF Tokens
<1>2. (P \o <<Slash>>) \o <<kind>> \o <<Slash>>
        = (P \o <<Slash>>) \o (<<kind>> \o <<Slash>>)
  BY <1>1, ConcatAssociative
<1>3. (P \o <<Slash>>) \o (<<kind>> \o <<Slash>>)
        = P \o (<<Slash>> \o (<<kind>> \o <<Slash>>))
  BY <1>1, ConcatAssociative
<1>4. <<Slash>> \o (<<kind>> \o <<Slash>>) = <<Slash, kind, Slash>>
  BY KindConcat
<1>5. QED
  BY <1>2, <1>3, <1>4

\* The path is always one of that shape: Init and AddSegment build it from
\* "/" and segments.
PathInv ==
    /\ path \in Seq(Tokens)
    /\ \E E \in Seq(Seq(Words)) : PathShape(path, E)

LEMMA PathInvInit == Init => PathInv
<1> SUFFICES ASSUME Init PROVE PathInv
  OBVIOUS
<1>1. PICK seg \in Segments : path = <<Slash>> \o seg
  BY DEF Init
<1>2. seg \in Seq(Words)
  BY SegmentsType
<1>3. << >> \in Seq(Tokens) /\ << >> \in Seq(Seq(Words))
  BY EmptySeq
<1>4. SplitDet(<< >>, << << >> >> \o << >>)
  <2>1. << << >> >> \in Seq(Seq(Words))
    BY EmptySeq
  <2>2. << << >> >> \o << >> = << << >> >>
    BY <2>1, ConcatEmptySeq
  <2>3. QED
    BY <2>2, SplitEmpty
<1>5. /\ << >> \o <<Slash>> \o seg \in Seq(Tokens)
      /\ SplitDet(<< >> \o <<Slash>> \o seg, << << >> >> \o Append(<< >>, seg))
  BY <1>3, <1>4, SplitSegment
<1>6. << >> \o <<Slash>> \o seg = path /\ Append(<< >>, seg) = <<seg>>
  <2>1. <<Slash>> \in Seq(Tokens)
    BY DEF Tokens
  <2>2. QED
    BY <1>1, <2>1, ConcatEmptySeq
<1>7. <<seg>> \in Seq(Seq(Words)) /\ Len(<<seg>>) = 1 /\ <<seg>>[1] = seg
  BY <1>2
<1>8. PathShape(path, <<seg>>)
  BY <1>1, <1>5, <1>6, <1>7 DEF PathShape
<1>9. QED
  BY <1>5, <1>6, <1>7, <1>8 DEF PathInv

LEMMA PathInvStep == PathInv /\ [Next]_vars => PathInv'
<1> SUFFICES ASSUME PathInv, [Next]_vars PROVE PathInv'
  OBVIOUS
<1>1. PICK E \in Seq(Seq(Words)) : PathShape(path, E)
  BY DEF PathInv
<1>2. CASE AddSegment
  <2>1. PICK seg \in Segments : path' = path \o <<Slash>> \o seg
    BY <1>2 DEF AddSegment
  <2>2. seg \in Seq(Words) /\ Append(E, seg) \in Seq(Seq(Words))
    BY SegmentsType, AppendProperties
  <2>3. PathShape(path', Append(E, seg))
    BY <1>1, <2>1, ShapeStep DEF PathInv
  <2>4. path' \in Seq(Tokens)
    BY <1>1, <2>1, SplitSegment DEF PathInv, PathShape
  <2>5. QED
    BY <2>2, <2>3, <2>4 DEF PathInv
<1>3. CASE UNCHANGED path
  BY <1>3 DEF PathInv
<1>4. QED
  BY <1>2, <1>3 DEF Next, ChangeQuery, vars

(***************************************************************************)
(* The handlers' parse of every routed path loses nothing, for every set  *)
(* of words and every bound on the path: the version root, the repo       *)
(* handle joins, the resource kind and the target spell the path again.   *)
(***************************************************************************)
THEOREM RouteParseHolds == Spec => []RouteParse
<1>1. PathInv => RouteParse
  <2> SUFFICES ASSUME PathInv, NEW kind \in {"manifests", "tags", "referrers"},
                      IsResource(path, kind)
               PROVE  path = <<Slash>> \o Elems(path)[1] \o <<Slash>> \o RepoOf(path)
                             \o <<Slash, kind, Slash>> \o TargetOf(path)
    BY DEF RouteParse
  <2>1. PICK E \in Seq(Seq(Words)) : PathShape(path, E)
    BY DEF PathInv
  <2> DEFINE L == Len(E)
  <2>2. Elems(path) = E
    <3>1. Split(path) = << << >> >> \o E
      BY <2>1, SplitDetValue DEF PathShape
    <3>2. Tail(<< << >> >> \o E) = E
      OBVIOUS
    <3>3. QED
      BY <3>1, <3>2 DEF Elems
  <2>3. L >= 4 /\ E[L - 1] = <<kind>>
    BY <2>2 DEF IsResource, Is
  <2>4. PICK r \in Seq(Tokens) :
            /\ JoinDet(SubSeq(E, 2, L - 2), r)
            /\ path = Pre(E[1], r) \o <<Slash>> \o E[L - 1] \o <<Slash>> \o E[L]
    BY <2>1, <2>3 DEF PathShape
  <2>5. RepoOf(path) = r /\ TargetOf(path) = E[L] /\ Elems(path)[1] = E[1]
    <3>1. Join(SubSeq(E, 2, L - 2)) = r
      BY <2>4, JoinDetValue
    <3>2. QED
      BY <2>2, <3>1 DEF RepoOf, TargetOf
  <2>6. /\ E[1] \in Seq(Tokens) /\ E[L] \in Seq(Tokens)
        /\ E[L - 1] \in Seq(Tokens)
    <3>1. 1 \in 1..L /\ L - 1 \in 1..L /\ L \in 1..L
      BY <2>3
    <3>2. E[1] \in Seq(Words) /\ E[L] \in Seq(Words) /\ E[L - 1] \in Seq(Words)
      BY <3>1, ElementOfSeq
    <3>3. QED
      BY <3>2, SegmentsType, SeqMonotonic
  <2>7. Pre(E[1], r) \in Seq(Tokens) /\ <<kind>> \in Seq(Tokens)
    <3>1. <<Slash>> \in Seq(Tokens)
      BY DEF Tokens
    <3>2. <<Slash>> \o E[1] \in Seq(Tokens)
      BY <2>6, <3>1, ConcatProperties
    <3>3. <<Slash>> \o E[1] \o <<Slash>> \in Seq(Tokens)
      BY <3>1, <3>2, ConcatProperties
    <3>4. QED
      BY <2>3, <2>4, <2>6, <3>1, <3>3, ConcatProperties DEF Pre
  <2>8. path = Pre(E[1], r) \o <<Slash, kind, Slash>> \o E[L]
    <3>1. Pre(E[1], r) \o <<Slash>> \o <<kind>> \o <<Slash>>
            = Pre(E[1], r) \o <<Slash, kind, Slash>>
      BY <2>7, KindSplice
    <3>2. QED
      BY <2>3, <2>4, <3>1, Zenon
  <2>9. QED
    BY <2>4, <2>5, <2>8, Zenon DEF Pre
<1>2. QED
  BY <1>1, PathInvInit, PathInvStep, PTL DEF Spec
=============================================================================
