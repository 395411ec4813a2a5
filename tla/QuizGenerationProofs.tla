------------------------ MODULE QuizGenerationProofs ------------------------
(***************************************************************************)
(* Proofs about QuizGeneration for any plan, any drafts of the model, any  *)
(* prompts and any finite set of workers: the quiz holds whole plans of    *)
(* checked questions and says where they are weak (QuizIsSound), and while *)
(* one generation at a time works, no complete batch and no ready quiz is  *)
(* undone (WorkIsKept).                                                    *)
(*                                                                         *)
(* The invariant QuizInv follows the questions on their way: what a batch  *)
(* has in part is of its plan (Of), what a run has from the model fills    *)
(* the batch (Fills), a complete batch is whole and, unless it warns,      *)
(* clean (Whole, Clean, Fits), and a request for more relies on a quiz     *)
(* that is still the one it was made for (ContentFits).  AloneFits says    *)
(* what is true besides as long as no two generations meet.                *)
(*                                                                         *)
(* Sequences come first: FlattenSeq, with which a run commits its batches, *)
(* is a fold, and what it computes is proved by induction over the         *)
(* batches, from the least number that would be a counterexample.          *)
(***************************************************************************)
EXTENDS QuizGeneration, FiniteSetTheorems, WellFoundedInduction, TLAPS

-----------------------------------------------------------------------------
(* Least elements, and induction by them.                                   *)

\* A set of numbers that is not empty has a least element: what the CHOOSE of
\* NextIncomplete and of FirstFault picks.
LEMMA LeastExists ==
  ASSUME NEW S \in SUBSET Nat, S # {}
  PROVE  \E n \in S : \A m \in S : n <= m
<1>1. PICK n \in S : \A m \in S : ~(<<m, n>> \in OpToRel(<, Nat))
  BY NatLessThanWellFounded, WFMin, Zenon
<1>2. \A m \in S : ~(m < n)
  BY <1>1 DEF OpToRel
<1>. QED BY <1>2

\* Induction over a set of numbers.
LEMMA SetInduction ==
  ASSUME NEW S, 0 \in S, \A n \in Nat : n \in S => n + 1 \in S
  PROVE  Nat \subseteq S
<1>. SUFFICES ASSUME Nat \ S # {} PROVE FALSE
  OBVIOUS
<1>1. PICK n \in Nat \ S : \A m \in Nat \ S : n <= m
  BY LeastExists
<1>2. n # 0 /\ n - 1 \in Nat /\ ~(n <= n - 1) /\ n = (n - 1) + 1
  OBVIOUS
<1>3. n - 1 \in S
  BY <1>1, <1>2
<1>. QED BY <1>2, <1>3

-----------------------------------------------------------------------------
(* What FlattenSeq computes: prefix by prefix.                              *)

Flattens(F, parts, n) ==
  F = [i \in 1 .. n |-> IF i = 1 THEN parts[i] ELSE F[i - 1] \o parts[i]]

\* The fold that FlattenSeq is a value of exists for every length.
LEMMA FlattenExists ==
  ASSUME NEW parts, NEW n \in Nat
  PROVE  \E F : Flattens(F, parts, n)
<1>. DEFINE S == {m \in Nat : \E F : Flattens(F, parts, m)}
<1>1. 0 \in S
  <2>. DEFINE F == [i \in 1 .. 0 |-> <<>>]
  <2>1. 1 .. 0 = {}
    OBVIOUS
  <2>2. Flattens(F, parts, 0)
    BY <2>1 DEF Flattens
  <2>. QED BY <2>2
<1>2. ASSUME NEW m \in Nat, m \in S PROVE m + 1 \in S
  <2>1. PICK F : Flattens(F, parts, m)
    BY <1>2
  <2>. DEFINE G == [i \in 1 .. (m + 1) |-> IF i = m + 1
                       THEN IF i = 1 THEN parts[i] ELSE F[i - 1] \o parts[i] ELSE F[i]]
  <2>2. ASSUME NEW i \in 1 .. (m + 1) PROVE G[i] = IF i = 1 THEN parts[i] ELSE G[i - 1] \o parts[i]
    <3>1. CASE i = m + 1 /\ i # 1
      <4>1. i - 1 \in 1 .. m /\ i - 1 # m + 1 /\ i - 1 \in 1 .. (m + 1)
        BY <3>1
      <4>2. G[i - 1] = F[i - 1]
        BY <4>1
      <4>. QED BY <3>1, <4>2
    <3>2. CASE i = 1
      <4>1. CASE m = 0
        BY <3>2, <4>1
      <4>2. CASE m # 0
        <5>1. 1 \in 1 .. m /\ 1 # m + 1
          BY <4>2
        <5>2. F[1] = parts[1]
          BY <2>1, <5>1 DEF Flattens
        <5>. QED BY <3>2, <5>1, <5>2
      <4>. QED BY <4>1, <4>2
    <3>3. CASE i # m + 1 /\ i # 1
      <4>1. i \in 1 .. m /\ i - 1 \in 1 .. m /\ i - 1 # m + 1 /\ i - 1 \in 1 .. (m + 1)
        BY <3>3
      <4>2. F[i] = F[i - 1] \o parts[i]
        BY <2>1, <3>3, <4>1 DEF Flattens
      <4>3. G[i] = F[i] /\ G[i - 1] = F[i - 1]
        BY <3>3, <4>1
      <4>. QED BY <3>3, <4>2, <4>3
    <3>. QED BY <3>1, <3>2, <3>3
  <2>. HIDE DEF G
  <2>3. G = [i \in 1 .. (m + 1) |-> IF i = 1 THEN parts[i] ELSE G[i - 1] \o parts[i]]
    <3>1. G = [i \in 1 .. (m + 1) |-> G[i]]
      BY DEF G
    <3>. QED BY <2>2, <3>1
  <2>4. Flattens(G, parts, m + 1)
    BY <2>3 DEF Flattens
  <2>. QED BY <2>4
<1>. HIDE DEF S
<1>3. Nat \subseteq S
  BY <1>1, <1>2, SetInduction
<1>. QED BY <1>3 DEF S

\* FlattenSeq is the last value of that fold.
LEMMA FlattenIs ==
  ASSUME NEW parts, Len(parts) \in Nat, Len(parts) # 0
  PROVE  \E F : Flattens(F, parts, Len(parts)) /\ FlattenSeq(parts) = F[Len(parts)]
<1>. DEFINE F == CHOOSE F : F = [i \in 1 .. Len(parts) |-> IF i = 1 THEN parts[i] ELSE F[i - 1] \o parts[i]]
<1>1. Flattens(F, parts, Len(parts))
  BY FlattenExists DEF Flattens
<1>2. FlattenSeq(parts) = F[Len(parts)]
  BY DEF FlattenSeq
<1>. QED BY <1>1, <1>2

\* The elements of two sequences, one behind the other.
LEMMA ConcatFacts ==
  ASSUME NEW X, NEW s \in Seq(X), NEW t \in Seq(X)
  PROVE  /\ s \o t \in Seq(X) /\ Len(s \o t) = Len(s) + Len(t)
         /\ \A i \in DOMAIN s : i \in DOMAIN (s \o t) /\ (s \o t)[i] = s[i]
         /\ \A i \in DOMAIN (s \o t) :
              \/ i \in DOMAIN s /\ (s \o t)[i] = s[i]
              \/ i \notin DOMAIN s /\ i - Len(s) \in DOMAIN t /\ (s \o t)[i] = t[i - Len(s)]
  OBVIOUS

\* An element of a sequence over X is in X.
LEMMA ElementIn ==
  ASSUME NEW X, NEW s \in Seq(X), NEW i \in DOMAIN s
  PROVE  s[i] \in X
  OBVIOUS

\* Sequences of one length and with the same members are the same.
LEMMA SameSequence ==
  ASSUME NEW X, NEW s \in Seq(X), NEW t \in Seq(X), Len(s) = Len(t),
         \A i \in 1 .. Len(s) : s[i] = t[i]
  PROVE  s = t
  OBVIOUS

\* Sequences of one length have one domain.
LEMMA SameDomain ==
  ASSUME NEW X, NEW Y, NEW s \in Seq(X), NEW t \in Seq(Y), Len(s) = Len(t)
  PROVE  DOMAIN s = DOMAIN t
  OBVIOUS

\* A function on 1 .. n with values in X is a sequence over X.
LEMMA AsSequence ==
  ASSUME NEW X, NEW n \in Nat, NEW f, f = [i \in 1 .. n |-> f[i]], \A i \in 1 .. n : f[i] \in X
  PROVE  f \in Seq(X) /\ Len(f) = n
<1>1. f \in [1 .. n -> X]
  OBVIOUS
<1>. QED BY <1>1

\* What holds of the first part, and stays when a part is put behind what is
\* there, holds of the whole.  `Good` has the sequences that may be there, with
\* the number of parts they are made of.
LEMMA FlattenInduction ==
  ASSUME NEW X, NEW parts \in Seq(Seq(X)), parts # <<>>, NEW Good,
         <<1, parts[1]>> \in Good,
         \A n \in 1 .. (Len(parts) - 1) : \A s \in Seq(X) :
           <<n, s>> \in Good => <<n + 1, s \o parts[n + 1]>> \in Good
  PROVE  FlattenSeq(parts) \in Seq(X) /\ <<Len(parts), FlattenSeq(parts)>> \in Good
<1>1. Len(parts) \in Nat /\ Len(parts) # 0 /\ \A b \in 1 .. Len(parts) : parts[b] \in Seq(X)
  OBVIOUS
<1>2. PICK F : Flattens(F, parts, Len(parts)) /\ FlattenSeq(parts) = F[Len(parts)]
  BY <1>1, FlattenIs
<1>. DEFINE N == Len(parts)
            S == {m \in Nat : m + 1 \in 1 .. N => F[m + 1] \in Seq(X) /\ <<m + 1, F[m + 1]>> \in Good}
<1>3. 0 \in S
  <2>1. F[1] = parts[1] /\ parts[1] \in Seq(X)
    BY <1>1, <1>2 DEF Flattens
  <2>2. 0 + 1 = 1
    OBVIOUS
  <2>. QED BY <2>1, <2>2
<1>4. ASSUME NEW m \in Nat, m \in S PROVE m + 1 \in S
  <2>. SUFFICES ASSUME (m + 1) + 1 \in 1 .. N
                PROVE  F[(m + 1) + 1] \in Seq(X) /\ <<(m + 1) + 1, F[(m + 1) + 1]>> \in Good
    OBVIOUS
  <2>. DEFINE k == m + 1
  <2>1. k \in 1 .. N /\ k \in 1 .. (N - 1) /\ k + 1 \in 1 .. N /\ k + 1 # 1 /\ (k + 1) - 1 = k
    BY <1>1
  <2>2. F[k] \in Seq(X) /\ <<k, F[k]>> \in Good
    BY <1>4, <2>1
  <2>. HIDE DEF k
  <2>3. F[k + 1] = F[k] \o parts[k + 1]
    BY <1>2, <2>1 DEF Flattens
  <2>4. parts[k + 1] \in Seq(X)
    BY <1>1, <2>1
  <2>5. F[k] \o parts[k + 1] \in Seq(X)
    BY <2>2, <2>4, ConcatFacts
  <2>6. <<k + 1, F[k] \o parts[k + 1]>> \in Good
    BY <2>1, <2>2
  <2>. QED BY <2>3, <2>5, <2>6 DEF k
<1>. HIDE DEF S
<1>5. Nat \subseteq S
  BY <1>3, <1>4, SetInduction
<1>6. N - 1 \in Nat /\ (N - 1) + 1 = N /\ N \in 1 .. N
  BY <1>1
<1>7. N - 1 \in S
  BY <1>5, <1>6
<1>. QED BY <1>2, <1>6, <1>7 DEF S

\* Two sequences whose parts have the same lengths and agree element by
\* element are of one length, and agree element by element.
LEMMA FlattenAlike ==
  ASSUME NEW X, NEW Y, NEW ps \in Seq(Seq(X)), NEW qs \in Seq(Seq(Y)), NEW R,
         ps # <<>>, Len(ps) = Len(qs),
         \A b \in DOMAIN ps : Len(ps[b]) = Len(qs[b]),
         \A b \in DOMAIN ps : \A k \in DOMAIN ps[b] : <<ps[b][k], qs[b][k]>> \in R
  PROVE  /\ FlattenSeq(ps) \in Seq(X) /\ FlattenSeq(qs) \in Seq(Y)
         /\ Len(FlattenSeq(ps)) = Len(FlattenSeq(qs))
         /\ \A i \in DOMAIN FlattenSeq(ps) : <<FlattenSeq(ps)[i], FlattenSeq(qs)[i]>> \in R
<1>1. Len(ps) \in Nat /\ Len(ps) # 0 /\ \A b \in 1 .. Len(ps) : ps[b] \in Seq(X) /\ qs[b] \in Seq(Y)
  OBVIOUS
<1>2. PICK F : Flattens(F, ps, Len(ps)) /\ FlattenSeq(ps) = F[Len(ps)]
  BY <1>1, FlattenIs
<1>. DEFINE Alike(s, t) == /\ t \in Seq(Y) /\ Len(s) = Len(t)
                           /\ \A i \in DOMAIN s : <<s[i], t[i]>> \in R
            Good == {e \in Nat \X Seq(Y) :
                       e[1] \in 1 .. Len(ps) => Alike(F[e[1]], e[2]) /\ F[e[1]] \in Seq(X)}
<1>3. <<1, qs[1]>> \in Good
  <2>1. F[1] = ps[1]
    BY <1>1, <1>2 DEF Flattens
  <2>2. 1 \in Nat /\ 1 \in 1 .. Len(ps) /\ qs[1] \in Seq(Y) /\ 1 \in DOMAIN ps
    BY <1>1
  <2>3. Alike(ps[1], qs[1])
    BY <2>2
  <2>. QED BY <1>1, <2>1, <2>2, <2>3
<1>4. ASSUME NEW n \in 1 .. (Len(qs) - 1), NEW t \in Seq(Y), <<n, t>> \in Good
      PROVE  <<n + 1, t \o qs[n + 1]>> \in Good
  <2>1. n \in 1 .. Len(ps) /\ n + 1 \in 1 .. Len(ps) /\ n + 1 # 1 /\ (n + 1) - 1 = n /\ n + 1 \in Nat
        /\ n + 1 \in DOMAIN ps
    BY <1>1
  <2>2. F[n + 1] = F[n] \o ps[n + 1]
    BY <1>2, <2>1 DEF Flattens
  <2>3. Alike(F[n], t) /\ F[n] \in Seq(X)
    BY <1>4, <2>1
  <2>4. Alike(ps[n + 1], qs[n + 1]) /\ ps[n + 1] \in Seq(X) /\ qs[n + 1] \in Seq(Y)
    BY <1>1, <2>1
  <2>5. ASSUME NEW s \in Seq(X), NEW s2 \in Seq(X), NEW t2 \in Seq(Y), Alike(s, t), Alike(s2, t2)
        PROVE  Alike(s \o s2, t \o t2)
    <3>1. t \o t2 \in Seq(Y) /\ Len(s \o s2) = Len(t \o t2)
      BY <2>5
    <3>2. ASSUME NEW i \in DOMAIN (s \o s2) PROVE <<(s \o s2)[i], (t \o t2)[i]>> \in R
      <4>1. CASE i <= Len(s)
        <5>1. i \in DOMAIN s /\ (s \o s2)[i] = s[i] /\ (t \o t2)[i] = t[i]
          BY <2>5, <4>1
        <5>. QED BY <2>5, <5>1
      <4>2. CASE ~(i <= Len(s))
        <5>1. i - Len(s) \in DOMAIN s2 /\ (s \o s2)[i] = s2[i - Len(s)] /\ (t \o t2)[i] = t2[i - Len(s)]
          <6>1. i \in DOMAIN (t \o t2) /\ ~(i <= Len(t))
            BY <2>5, <3>1, <4>2
          <6>2. i - Len(s) \in DOMAIN s2 /\ (s \o s2)[i] = s2[i - Len(s)]
            BY ONLY <4>2, s \in Seq(X), s2 \in Seq(X), i \in DOMAIN (s \o s2)
          <6>3. (t \o t2)[i] = t2[i - Len(t)]
            BY ONLY <2>5, <6>1, t2 \in Seq(Y), t \in Seq(Y)
          <6>. QED BY <2>5, <6>2, <6>3
        <5>. QED BY <2>5, <5>1
      <4>. QED BY <4>1, <4>2
    <3>. QED BY <3>1, <3>2
  <2>. HIDE DEF Alike
  <2>6. Alike(F[n + 1], t \o qs[n + 1])
    BY <2>2, <2>3, <2>4, <2>5
  <2>7. t \o qs[n + 1] \in Seq(Y) /\ F[n] \o ps[n + 1] \in Seq(X)
    BY <2>3, <2>4, ConcatFacts
  <2>. QED BY <2>1, <2>2, <2>6, <2>7
<1>. HIDE DEF Good
<1>5. qs # <<>> /\ Len(qs) = Len(ps) /\ Len(ps) \in 1 .. Len(ps)
  BY <1>1
<1>6. FlattenSeq(qs) \in Seq(Y) /\ <<Len(qs), FlattenSeq(qs)>> \in Good
  BY <1>3, <1>4, <1>5, FlattenInduction
<1>. QED BY <1>2, <1>5, <1>6 DEF Good

\* Elements of different places differ in the whole as they do in the parts.
LEMMA FlattenApart ==
  ASSUME NEW X, NEW ps \in Seq(Seq(X)), ps # <<>>, NEW D,
         \A b \in DOMAIN ps : \A i, k \in DOMAIN ps[b] :
           i # k => <<ps[b][i], ps[b][k]>> \in D,
         \A b, c \in DOMAIN ps : \A i \in DOMAIN ps[b], k \in DOMAIN ps[c] :
           b # c => <<ps[b][i], ps[c][k]>> \in D
  PROVE  \A i, k \in DOMAIN FlattenSeq(ps) :
           i # k => <<FlattenSeq(ps)[i], FlattenSeq(ps)[k]>> \in D
<1>1. Len(ps) \in Nat /\ Len(ps) # 0 /\ DOMAIN ps = 1 .. Len(ps)
      /\ \A b \in 1 .. Len(ps) : ps[b] \in Seq(X)
  OBVIOUS
<1>. DEFINE Apart(s) == \A i, k \in DOMAIN s : i # k => <<s[i], s[k]>> \in D
            Known(s, n) == \A i \in DOMAIN s : \E b \in 1 .. n : \E k \in DOMAIN ps[b] : s[i] = ps[b][k]
            Good == {e \in Nat \X Seq(X) : Apart(e[2]) /\ Known(e[2], e[1])}
<1>2. <<1, ps[1]>> \in Good
  <2>1. 1 \in DOMAIN ps /\ 1 \in 1 .. 1 /\ ps[1] \in Seq(X)
    BY <1>1
  <2>2. Apart(ps[1])
    BY <2>1
  <2>3. Known(ps[1], 1)
    BY <2>1
  <2>. HIDE DEF Apart, Known
  <2>. QED BY <2>1, <2>2, <2>3
<1>3. ASSUME NEW n \in 1 .. (Len(ps) - 1), NEW s \in Seq(X), <<n, s>> \in Good
      PROVE  <<n + 1, s \o ps[n + 1]>> \in Good
  <2>. DEFINE t == ps[n + 1]
  <2>1. n + 1 \in DOMAIN ps /\ n + 1 \in Nat /\ t \in Seq(X) /\ Apart(s) /\ Known(s, n)
        /\ \A b \in 1 .. n : b \in DOMAIN ps /\ b \in 1 .. (n + 1) /\ b # n + 1
    BY <1>1, <1>3
  <2>2. ASSUME NEW i \in DOMAIN s, NEW k \in DOMAIN t
        PROVE  <<s[i], t[k]>> \in D /\ <<t[k], s[i]>> \in D
    <3>1. PICK b \in 1 .. n : \E m \in DOMAIN ps[b] : s[i] = ps[b][m]
      BY <2>1
    <3>2. PICK m \in DOMAIN ps[b] : s[i] = ps[b][m]
      BY <3>1
    <3>. QED BY <2>1, <3>2
  <2>3. Apart(t)
    BY <2>1
  <2>4. n + 1 \in 1 .. (n + 1)
    OBVIOUS
  <2>5. \A k \in DOMAIN t : \E m \in DOMAIN ps[n + 1] : t[k] = ps[n + 1][m]
    OBVIOUS
  <2>. HIDE DEF t
  <2>6. ASSUME NEW i \in DOMAIN (s \o t)
        PROVE  \/ i \in DOMAIN s /\ (s \o t)[i] = s[i]
               \/ i \notin DOMAIN s /\ i - Len(s) \in DOMAIN t /\ (s \o t)[i] = t[i - Len(s)]
    BY <2>1
  <2>7. Apart(s \o t)
    <3>. SUFFICES ASSUME NEW i \in DOMAIN (s \o t), NEW k \in DOMAIN (s \o t), i # k
                  PROVE  <<(s \o t)[i], (s \o t)[k]>> \in D
      OBVIOUS
    <3>1. i - Len(s) # k - Len(s)
      BY <2>1
    <3>2. CASE i \in DOMAIN s /\ k \in DOMAIN s
      <4>1. <<s[i], s[k]>> \in D
        BY <2>1, <3>2
      <4>. QED BY <2>6, <3>2, <4>1
    <3>3. CASE i \notin DOMAIN s /\ k \notin DOMAIN s
      <4>1. i - Len(s) \in DOMAIN t /\ k - Len(s) \in DOMAIN t
        BY <2>6, <3>3
      <4>2. <<t[i - Len(s)], t[k - Len(s)]>> \in D
        BY <2>3, <3>1, <4>1
      <4>. QED BY <2>6, <3>3, <4>2
    <3>. QED BY <2>2, <2>6, <3>2, <3>3
  <2>8. Known(s \o t, n + 1)
    <3>. SUFFICES ASSUME NEW i \in DOMAIN (s \o t)
                  PROVE  \E b \in 1 .. (n + 1) : \E k \in DOMAIN ps[b] : (s \o t)[i] = ps[b][k]
      OBVIOUS
    <3>1. CASE i \in DOMAIN s /\ (s \o t)[i] = s[i]
      BY <2>1, <3>1
    <3>2. CASE i - Len(s) \in DOMAIN t /\ (s \o t)[i] = t[i - Len(s)]
      BY <2>4, <2>5, <3>2
    <3>. QED BY <2>6, <3>1, <3>2
  <2>9. s \o t \in Seq(X)
    BY <2>1, ConcatFacts
  <2>. HIDE DEF Apart, Known
  <2>10. <<n + 1, s \o t>> \in Good
    BY <2>1, <2>7, <2>8, <2>9
  <2>. QED BY <2>10 DEF t
<1>. HIDE DEF Good
<1>4. <<Len(ps), FlattenSeq(ps)>> \in Good
  BY <1>2, <1>3, FlattenInduction
<1>. QED BY <1>4 DEF Good

\* The whole is not empty when the first part is not.
LEMMA FlattenNotEmpty ==
  ASSUME NEW X, NEW ps \in Seq(Seq(X)), ps # <<>>, ps[1] # <<>>
  PROVE  FlattenSeq(ps) # <<>>
<1>. DEFINE Good == {e \in Nat \X Seq(X) : e[2] # <<>>}
<1>1. <<1, ps[1]>> \in Good
  OBVIOUS
<1>2. ASSUME NEW n \in 1 .. (Len(ps) - 1), NEW s \in Seq(X), <<n, s>> \in Good
      PROVE  <<n + 1, s \o ps[n + 1]>> \in Good
  <2>1. ps[n + 1] \in Seq(X) /\ n + 1 \in Nat /\ s # <<>> /\ Len(s) > 0
    BY <1>2
  <2>2. s \o ps[n + 1] \in Seq(X) /\ Len(s \o ps[n + 1]) > 0
    <3>1. Len(ps[n + 1]) \in Nat
      BY <2>1
    <3>. QED BY <2>1, <3>1, ConcatFacts
  <2>3. s \o ps[n + 1] # <<>>
    BY <2>2
  <2>. QED BY <2>1, <2>2, <2>3
<1>. HIDE DEF Good
<1>3. <<Len(ps), FlattenSeq(ps)>> \in Good
  BY <1>1, <1>2, FlattenInduction
<1>. QED BY <1>3 DEF Good

-----------------------------------------------------------------------------
(* Questions, answers and batches.                                          *)

\* What the model writes and what a repair makes of it are questions, and a
\* repair leaves all but the citations.
LEMMA QuestionFacts ==
  /\ AllQuestions \subseteq Question
  /\ \A s \in DOMAIN Drafts : \A q \in Drafts[s] : q \in AllQuestions /\ q.slot = s
  /\ \A q \in AllQuestions : \A r \in SameContent(q) :
       r \in AllQuestions /\ r.slot = q.slot
<1>1. \A s \in DOMAIN Drafts : \A q \in Drafts[s] : q \in Question /\ q.slot = s
  BY PlanAssumption
<1>2. ASSUME NEW q \in Question, NEW r \in SameContent(q)
      PROVE  r \in Question /\ r.slot = q.slot /\ SameContent(r) = SameContent(q)
  BY DEF SameContent, Question
<1>3. \A q \in AllQuestions : \E s \in DOMAIN Drafts : \E d \in Drafts[s] :
        q = d \/ q \in SameContent(d)
  BY DEF AllQuestions
<1>4. \A s \in DOMAIN Drafts : \A d \in Drafts[s] :
        d \in AllQuestions /\ SameContent(d) \subseteq AllQuestions
  BY DEF AllQuestions
<1>5. AllQuestions \subseteq Question
  BY <1>1, <1>2, <1>3
<1>6. ASSUME NEW q \in AllQuestions, NEW r \in SameContent(q)
      PROVE  r \in AllQuestions
  <2>1. PICK s \in DOMAIN Drafts : \E d \in Drafts[s] : q = d \/ q \in SameContent(d)
    BY <1>3
  <2>2. PICK d \in Drafts[s] : q = d \/ q \in SameContent(d)
    BY <2>1
  <2>3. d \in Question /\ r \in SameContent(d)
    BY <1>1, <1>2, <2>2
  <2>. QED BY <1>4, <2>3
<1>. QED BY <1>1, <1>2, <1>4, <1>5, <1>6

\* Questions that belong to a plan: one at most for each of its slots.
Of(plan, questions) ==
  /\ questions \in Seq(AllQuestions)
  /\ Slots(questions) \subseteq Range(plan)
  /\ \A i, k \in DOMAIN questions : questions[i].slot = questions[k].slot => i = k
\* Questions that fill it.
Fills(plan, questions) ==
  /\ Of(plan, questions)
  /\ Len(questions) = Len(plan) /\ Range(plan) \subseteq Slots(questions)

IsPlan(plan) == plan \in Seq(DOMAIN Drafts) /\ IsInjective(plan) /\ plan # <<>>

\* A request has batches, and none is empty.
LEMMA PlanFacts ==
  ASSUME NEW op \in Ops
  PROVE  /\ Plan[op] \in Seq(Seq(DOMAIN Drafts)) /\ Plan[op] # <<>>
         /\ \A b \in DOMAIN Plan[op] : IsPlan(Plan[op][b])
<1>1. Plan[op] \in Seq(Seq(DOMAIN Drafts)) /\ Plan[op] # <<>>
  BY PlanAssumption
<1>2. \A b \in DOMAIN Plan[op] : Plan[op][b] \in Seq(DOMAIN Drafts)
  BY <1>1
<1>3. \A b \in DOMAIN Plan[op] : Plan[op][b] # <<>> /\ IsInjective(Plan[op][b])
  BY PlanAssumption
<1>. QED BY <1>1, <1>2, <1>3 DEF IsPlan

\* As many questions as slots, each slot once, are all the slots.
LEMMA SameLength ==
  ASSUME NEW plan, IsPlan(plan), NEW questions, Of(plan, questions),
         Range(plan) \subseteq Slots(questions)
  PROVE  Fills(plan, questions)
<1>1. Len(plan) \in Nat /\ Len(questions) \in Nat
      /\ DOMAIN plan = 1 .. Len(plan) /\ DOMAIN questions = 1 .. Len(questions)
  BY DEF IsPlan, Of
<1>. DEFINE f == [i \in 1 .. Len(questions) |-> questions[i].slot]
<1>2. plan \in Bijection(1 .. Len(plan), Range(plan))
  BY <1>1 DEF IsPlan, Bijection, Injection, Surjection, IsInjective, Range
<1>3. f \in Bijection(1 .. Len(questions), Range(plan))
  <2>1. \A i \in 1 .. Len(questions) : f[i] \in Range(plan)
    BY <1>1 DEF Of, Slots
  <2>2. \A s \in Range(plan) : \E i \in 1 .. Len(questions) : f[i] = s
    BY <1>1 DEF Slots
  <2>3. \A i, k \in 1 .. Len(questions) : f[i] = f[k] => i = k
    BY <1>1 DEF Of
  <2>4. f \in [1 .. Len(questions) -> Range(plan)]
    BY <2>1
  <2>. HIDE DEF f
  <2>. QED BY <2>2, <2>3, <2>4 DEF Bijection, Injection, Surjection, IsInjective
<1>4. Cardinality(Range(plan)) = Len(plan) /\ Cardinality(Range(plan)) = Len(questions)
  BY <1>1, <1>2, <1>3, FS_CountingElements DEF ExistsBijection
<1>. QED BY <1>4 DEF Fills

\* generate: the accepted questions with the answer for the slots they leave
\* open fill the plan.
LEMMA ReplyFills ==
  ASSUME NEW plan, IsPlan(plan), NEW accepted, Of(plan, accepted),
         NEW reply \in Replies(MissingSlots(plan, accepted))
  PROVE  Fills(plan, accepted \o reply)
<1>. DEFINE M == MissingSlots(plan, accepted)
            n == Cardinality(M)
<1>1. M = Range(plan) \ Slots(accepted) /\ M \subseteq DOMAIN Drafts
  BY DEF MissingSlots, Range, IsPlan
<1>2. IsFiniteSet(M) /\ n \in Nat
  <2>1. plan \in Surjection(1 .. Len(plan), Range(plan)) /\ Len(plan) \in Nat
    BY DEF IsPlan, Surjection, Range
  <2>2. IsFiniteSet(Range(plan))
    BY <2>1, FS_NatSurjection DEF ExistsSurjection
  <2>3. M \in SUBSET Range(plan)
    BY <1>1
  <2>. HIDE DEF M
  <2>. QED BY <2>2, <2>3, FS_Subset, FS_CardinalityType
<1>3. PICK written \in {f \in [M -> UNION {Drafts[s] : s \in M}] : \A s \in M : f[s] \in Drafts[s]},
           order \in {o \in [1 .. n -> M] : \A a, b \in DOMAIN o : o[a] = o[b] => a = b} :
        reply = [i \in 1 .. n |-> written[order[i]]]
  BY DEF Replies
<1>. HIDE DEF M
<1>4. order \in [1 .. n -> M] /\ \A a, b \in 1 .. n : order[a] = order[b] => a = b
  BY <1>3
<1>5. \A s \in M : \E i \in 1 .. n : order[i] = s
  <2>1. order \in Injection(1 .. n, M)
    BY <1>4 DEF Injection, IsInjective
  <2>2. Cardinality(1 .. n) = n
    BY <1>2, FS_Interval
  <2>3. order \in Surjection(1 .. n, M)
    BY <1>2, <2>1, <2>2, FS_Injection
  <2>. QED BY <2>3 DEF Surjection
<1>. HIDE DEF n
<1>6. \A i \in 1 .. n : reply[i] \in AllQuestions /\ reply[i].slot = order[i]
  BY <1>1, <1>3, <1>4, QuestionFacts
<1>7. reply \in Seq(AllQuestions) /\ DOMAIN reply = 1 .. n
  BY <1>2, <1>3, <1>6
<1>. DEFINE output == accepted \o reply
<1>8. accepted \in Seq(AllQuestions)
  BY DEF Of
<1>9. /\ output \in Seq(AllQuestions) /\ Len(output) = Len(accepted) + Len(reply)
      /\ \A i \in DOMAIN accepted : i \in DOMAIN output /\ output[i] = accepted[i]
      /\ \A i \in DOMAIN output :
           \/ i \in DOMAIN accepted /\ output[i] = accepted[i]
           \/ i \notin DOMAIN accepted /\ i - Len(accepted) \in DOMAIN reply
              /\ output[i] = reply[i - Len(accepted)]
  BY <1>7, <1>8, ConcatFacts
<1>10. \A i \in 1 .. n : i + Len(accepted) \in DOMAIN output /\ output[i + Len(accepted)] = reply[i]
  BY <1>2, <1>7, <1>8
<1>11. \A i \in DOMAIN accepted : accepted[i].slot \in Range(plan) /\ accepted[i].slot \notin M
  BY <1>1 DEF Of, Slots
<1>12. \A i \in 1 .. n : reply[i].slot \in M /\ reply[i].slot \in Range(plan)
  BY <1>1, <1>4, <1>6
<1>. HIDE DEF output
<1>13. Slots(output) \subseteq Range(plan)
  BY <1>7, <1>9, <1>11, <1>12 DEF Slots
<1>14. Range(plan) \subseteq Slots(output)
  <2>. SUFFICES ASSUME NEW s \in Range(plan) PROVE \E i \in DOMAIN output : output[i].slot = s
    BY DEF Slots
  <2>1. CASE s \in M
    BY <1>5, <1>6, <1>10, <2>1
  <2>2. CASE s \in Slots(accepted)
    BY <1>9, <2>2 DEF Slots
  <2>. QED BY <1>1, <2>1, <2>2
<1>15. ASSUME NEW i \in DOMAIN output, NEW k \in DOMAIN output, output[i].slot = output[k].slot
       PROVE  i = k
  <2>1. CASE i \in DOMAIN accepted /\ k \in DOMAIN accepted
    BY <1>9, <1>15, <2>1 DEF Of
  <2>2. CASE i \notin DOMAIN accepted /\ k \notin DOMAIN accepted
    <3>1. i - Len(accepted) \in 1 .. n /\ k - Len(accepted) \in 1 .. n
          /\ output[i] = reply[i - Len(accepted)] /\ output[k] = reply[k - Len(accepted)]
      BY <1>7, <1>9, <2>2
    <3>2. i - Len(accepted) = k - Len(accepted)
      BY <1>4, <1>6, <1>15, <3>1
    <3>3. i \in Int /\ k \in Int /\ Len(accepted) \in Int
      BY <1>8, <1>9
    <3>. QED BY <3>2, <3>3
  <2>3. CASE (i \in DOMAIN accepted) # (k \in DOMAIN accepted)
    BY <1>7, <1>9, <1>11, <1>12, <1>15, <2>3
  <2>. QED BY <2>1, <2>2, <2>3
<1>16. Of(plan, output)
  BY <1>9, <1>13, <1>15 DEF Of
<1>. QED BY <1>14, <1>16, SameLength DEF output

\* _order_questions_by_plan: each question at its place.
LEMMA Ordered ==
  ASSUME NEW plan, IsPlan(plan), NEW output, Fills(plan, output)
  PROVE  /\ InPlanOrder(output, plan) \in Seq(AllQuestions)
         /\ Len(InPlanOrder(output, plan)) = Len(plan)
         /\ \A i \in DOMAIN plan : /\ InPlanOrder(output, plan)[i].slot = plan[i]
                                   /\ InPlanOrder(output, plan)[i] \in Range(output)
<1>1. Len(plan) \in Nat /\ DOMAIN plan = 1 .. Len(plan) /\ output \in Seq(AllQuestions)
  BY DEF IsPlan, Fills, Of
<1>. DEFINE o == InPlanOrder(output, plan)
<1>2. ASSUME NEW i \in DOMAIN plan
      PROVE  o[i].slot = plan[i] /\ o[i] \in Range(output)
  <2>1. plan[i] \in Slots(output)
    BY DEF Fills, Range
  <2>2. \E q \in Range(output) : q.slot = plan[i]
    BY <2>1 DEF Slots, Range
  <2>3. o[i] = CHOOSE q \in Range(output) : q.slot = plan[i]
    BY DEF InPlanOrder
  <2>. QED BY <2>2, <2>3
<1>3. o = [i \in 1 .. Len(plan) |-> o[i]]
  BY <1>1 DEF InPlanOrder
<1>4. \A q \in Range(output) : q \in AllQuestions
  BY <1>1 DEF Range
<1>. HIDE DEF o
<1>5. o \in Seq(AllQuestions) /\ Len(o) = Len(plan)
  BY <1>1, <1>2, <1>3, <1>4
<1>. QED BY <1>2, <1>5 DEF o

\* The result of a batch: the whole plan in its order; without a warning every
\* question has its citations and its level, and no prompt is a second one.
Whole(plan, result) ==
  /\ result.questions \in Seq(AllQuestions) /\ Len(result.questions) = Len(plan)
  /\ \A i \in DOMAIN plan : LET q == result.questions[i]
                            IN  q.slot = plan[i] /\ q.sound /\ q.cites # "split"
Clean(result, excluded) ==
  /\ \A i \in DOMAIN result.questions :
       LET q == result.questions[i]
       IN  q.fits /\ q.cites # "missing" /\ q.prompt \notin excluded
  /\ \A i, k \in DOMAIN result.questions :
       result.questions[i].prompt = result.questions[k].prompt => i = k

\* generate: a result without a fault is whole, and clean unless it warns.
LEMMA ResultFacts ==
  ASSUME NEW plan, IsPlan(plan), NEW output, Fills(plan, output), NEW excluded,
         Faults(output, plan) = {}
  PROVE  /\ Whole(plan, Result(output, plan, excluded))
         /\ Result(output, plan, excluded).warned \in BOOLEAN
         /\ ~Result(output, plan, excluded).warned
              => Clean(Result(output, plan, excluded), excluded)
<1>. DEFINE o == InPlanOrder(output, plan)
            r == Result(output, plan, excluded)
<1>1. r.questions = o /\ r.warned = (\E i \in DOMAIN plan : Warned(output, plan, excluded, i))
  BY DEF Result
<1>2. /\ o \in Seq(AllQuestions) /\ Len(o) = Len(plan)
      /\ \A i \in DOMAIN plan : o[i].slot = plan[i] /\ o[i] \in Range(output)
  BY Ordered
<1>3. \A i \in DOMAIN plan : o[i].sound /\ o[i].cites # "split"
  BY DEF Faults, Unsound, Uncitable
<1>4. Whole(plan, r)
  BY <1>1, <1>2, <1>3 DEF Whole
<1>5. ASSUME ~r.warned PROVE Clean(r, excluded)
  <2>1. \A i \in DOMAIN plan : o[i].fits /\ ~LacksCitation(output, i) /\ ~Repeated(output, excluded, i)
    BY <1>1, <1>5 DEF Warned, OffLevel
  <2>2. Len(plan) \in Nat /\ DOMAIN plan = 1 .. Len(plan) /\ DOMAIN output = DOMAIN plan
        /\ DOMAIN o = DOMAIN plan /\ output \in Seq(AllQuestions)
    BY <1>2 DEF IsPlan, Fills, Of
  <2>3. ASSUME NEW i \in DOMAIN plan, NEW k \in DOMAIN plan, output[i].prompt = output[k].prompt
        PROVE  i = k
    <3>1. \A m, p \in DOMAIN plan : m < p => output[m].prompt # output[p].prompt
      <4>1. \A m, p \in DOMAIN plan : m < p => m \in 1 .. (p - 1)
        BY <2>2
      <4>. QED BY <2>1, <4>1 DEF Repeated
    <3>2. i < k \/ k < i \/ i = k
      BY <2>2
    <3>. QED BY <2>3, <3>1, <3>2
  <2>4. \A i \in DOMAIN plan : \E m \in DOMAIN plan : o[i] = output[m]
    BY <1>2, <2>2 DEF Range
  <2>5. \A m \in DOMAIN plan : output[m].cites # "missing" /\ output[m].prompt \notin excluded
    BY <2>1 DEF LacksCitation, Repeated
  <2>6. ASSUME NEW i \in DOMAIN plan, NEW k \in DOMAIN plan, o[i].prompt = o[k].prompt
        PROVE  i = k
    <3>1. PICK m \in DOMAIN plan : o[i] = output[m]
      BY <2>4
    <3>2. PICK p \in DOMAIN plan : o[k] = output[p]
      BY <2>4
    <3>3. m = p
      BY <2>3, <2>6, <3>1, <3>2
    <3>4. plan[i] = plan[k]
      BY <1>2, <3>1, <3>2, <3>3
    <3>. QED BY <3>4 DEF IsPlan, IsInjective
  <2>7. \A i \in DOMAIN o : o[i].fits /\ o[i].cites # "missing" /\ o[i].prompt \notin excluded
    BY <2>1, <2>2, <2>4, <2>5
  <2>. HIDE DEF o, r
  <2>. QED BY <1>1, <2>2, <2>6, <2>7 DEF Clean
<1>6. r.warned \in BOOLEAN
  BY <1>1
<1>. QED BY <1>4, <1>5, <1>6

\* FirstFault is a place of the plan.
LEMMA FirstFaultIn ==
  ASSUME NEW plan, IsPlan(plan), NEW output, Faults(output, plan) # {}
  PROVE  FirstFault(output, plan) \in DOMAIN plan
<1>1. Faults(output, plan) \in SUBSET Nat /\ Faults(output, plan) \subseteq DOMAIN plan
  BY DEF Faults, IsPlan
<1>2. \E i \in Faults(output, plan) : \A k \in Faults(output, plan) : i <= k
  BY <1>1, LeastExists
<1>3. FirstFault(output, plan) \in Faults(output, plan)
  BY <1>2 DEF FirstFault
<1>. QED BY <1>1, <1>3

\* _merge_repaired_questions: the repaired question stays at its place.
LEMMA RepairFills ==
  ASSUME NEW plan, IsPlan(plan), NEW output, Fills(plan, output), NEW i \in DOMAIN plan,
         NEW q \in SameContent(output[i])
  PROVE  Fills(plan, [output EXCEPT ![i] = q])
<1>. DEFINE o == [output EXCEPT ![i] = q]
<1>1. output \in Seq(AllQuestions) /\ DOMAIN output = DOMAIN plan /\ Len(output) = Len(plan)
  BY DEF Fills, Of, IsPlan
<1>2. q \in AllQuestions /\ q.slot = output[i].slot
  BY <1>1, QuestionFacts
<1>3. o \in Seq(AllQuestions) /\ Len(o) = Len(output) /\ DOMAIN o = DOMAIN output
  BY <1>1, <1>2
<1>4. \A k \in DOMAIN output : o[k].slot = output[k].slot
  BY <1>1, <1>2
<1>. HIDE DEF o
<1>5. Slots(o) = Slots(output)
  BY <1>3, <1>4 DEF Slots
<1>6. Of(plan, o)
  BY <1>3, <1>4, <1>5 DEF Fills, Of
<1>. QED BY <1>3, <1>5, <1>6 DEF Fills, o

\* CITATION_CHECKPOINT: what is left without one question belongs to the plan.
LEMMA RestOf ==
  ASSUME NEW plan, IsPlan(plan), NEW output, Fills(plan, output), NEW i \in DOMAIN plan
  PROVE  Of(plan, [k \in 1 .. (Len(output) - 1) |-> output[IF k < i THEN k ELSE k + 1]])
<1>. DEFINE at(k) == IF k < i THEN k ELSE k + 1
            kept == [k \in 1 .. (Len(output) - 1) |-> output[at(k)]]
<1>1. output \in Seq(AllQuestions) /\ Len(output) \in Nat /\ DOMAIN output = 1 .. Len(output)
      /\ i \in 1 .. Len(output)
  BY DEF Fills, Of, IsPlan
<1>2. \A k \in 1 .. (Len(output) - 1) : at(k) \in DOMAIN output
  BY <1>1
<1>3. \A k, m \in 1 .. (Len(output) - 1) : at(k) = at(m) => k = m
  BY <1>1
<1>4. Len(output) - 1 \in Nat
  BY <1>1
<1>. HIDE DEF at
<1>5. kept \in Seq(AllQuestions) /\ DOMAIN kept = 1 .. (Len(output) - 1)
  BY <1>1, <1>2, <1>4
<1>6. \A k \in DOMAIN kept : kept[k] = output[at(k)] /\ at(k) \in DOMAIN output
  BY <1>2
<1>. HIDE DEF kept
<1>7. Slots(kept) \subseteq Slots(output)
  BY <1>6 DEF Slots
<1>8. \A k, m \in DOMAIN kept : kept[k].slot = kept[m].slot => k = m
  BY <1>3, <1>5, <1>6 DEF Fills, Of
<1>9. Of(plan, kept)
  BY <1>5, <1>7, <1>8 DEF Fills, Of
<1>. QED BY <1>9 DEF kept, at

-----------------------------------------------------------------------------
(* The invariant.                                                           *)

\* Types of the rows.
Batch == [attempts : Nat, done : BOOLEAN, partial : Seq(AllQuestions),
          result : [questions : Seq(AllQuestions), warned : BOOLEAN]]
Checkpoint == [print : Int, batches : Seq(Batch)]
QuizRow == [status : {"QUEUED", "GENERATING", "READY", "PUBLISHED", "FAILED", "ARCHIVED"},
            content : Seq([job : Jobs, question : AllQuestions]),
            warned : BOOLEAN, based : SUBSET Jobs]
JobRow == [status : Active \union {"ABSENT", "SUCCEEDED", "FAILED"}, op : Ops,
           attempts : Nat, step : {"queued", "refused", "later"}, cp : Checkpoint,
           existing : SUBSET Prompts, cancelled : BOOLEAN]
Working == {"begin", "attempt", "call", "check", "commit"}
RunRow == [pc : Working \union {"idle", "defer", "succeed", "failing", "fail"},
           job : Jobs \union {0}, attempts : Nat, step : {"queued", "refused", "later"},
           cp : Checkpoint, batch : Nat, output : Seq(AllQuestions),
           repaired : BOOLEAN, outcome : {"none", "retry", "final"}]
RowTypes ==
  /\ job \in [Jobs -> JobRow] /\ run \in [Workers -> RunRow]
  /\ index \in Nat /\ budget \in [faults : Nat, requests : Nat]
  /\ spoiled \in BOOLEAN

\* A job is never tried more often than it may be, and only a job that was
\* asked for is run; the first one creates the quiz.
JobsFit ==
  /\ \A j \in Jobs : job[j].attempts <= MaxJobAttempts(job[j].op)
  /\ \A w \in Workers :
       IF run[w].pc = "idle" THEN run[w].job = 0
       ELSE run[w].job \in Jobs /\ job[run[w].job].status # "ABSENT"
  /\ job[1].op = "CREATE" /\ job[1].status # "ABSENT"

\* A checkpoint that fits the plan of its job.  Its complete batches are whole;
\* those without a warning repeat no prompt, of the quiz, of themselves or of
\* each other.
GoodBatch(batch, plan, existing) ==
  /\ Of(plan, batch.partial)
  /\ batch.done => /\ Whole(plan, batch.result)
                   /\ ~batch.result.warned => Clean(batch.result, existing)
SharePrompt(r, s) ==
  \E i \in DOMAIN r.questions, k \in DOMAIN s.questions :
    r.questions[i].prompt = s.questions[k].prompt
Unwarned(batch) == batch.done /\ ~batch.result.warned
Fits(cp, op, existing) ==
  /\ cp \in Checkpoint /\ DOMAIN cp.batches = DOMAIN Plan[op]
  /\ \A b \in DOMAIN cp.batches : GoodBatch(cp.batches[b], Plan[op][b], existing)
  /\ \A b, c \in DOMAIN cp.batches :
       b # c /\ Unwarned(cp.batches[b]) /\ Unwarned(cp.batches[c])
         => ~SharePrompt(cp.batches[b].result, cp.batches[c].result)
Good(cp, op, existing) == cp = NoCheckpoint \/ Fits(cp, op, existing)

\* What a run has in hand at each place of the handler.
RunFits(r, op, existing) ==
  /\ Good(r.cp, op, existing)
  /\ r.pc \in {"call", "check", "commit"} => Fits(r.cp, op, existing)
  /\ r.pc \in {"call", "check"} => r.batch \in Incomplete(r.cp)
  /\ r.pc = "check" => Fills(Plan[op][r.batch], r.output)
  /\ r.pc = "commit" => Incomplete(r.cp) = {}
CheckpointsFit ==
  /\ \A j \in Jobs : Good(job[j].cp, job[j].op, job[j].existing)
  /\ \A w \in Workers : run[w].pc # "idle" =>
       RunFits(run[w], job[run[w].job].op, job[run[w].job].existing)

\* What the quiz holds, and what a request for more may rely on.
Keys(content) == [i \in DOMAIN content |-> <<content[i].job, content[i].question.slot>>]
PromptsOf(content) == {content[i].question.prompt : i \in DOMAIN content}
ContentFits ==
  /\ WholePlans /\ FlawsAreFlagged
  /\ job[2].status = "ABSENT" => Keys(quiz.content) \in {<<>>, Written(1)}
  /\ quiz.status \in Settled => quiz.content # <<>>
  /\ quiz.based \subseteq {2}
  /\ 2 \in quiz.based => /\ job[2].op = "APPEND" /\ job[2].status # "ABSENT"
                         /\ Keys(quiz.content) = Written(1)
                         /\ job[2].existing = PromptsOf(quiz.content)

RowsInv == RowTypes /\ JobsFit /\ CheckpointsFit
ContentInv == quiz \in QuizRow /\ ContentFits
QuizInv == RowsInv /\ ContentInv

\* While one generation at a time works: its run and its row have the same
\* checkpoint, and nobody is about to write into a quiz that is ready but the
\* run that made it so or one that appends.
AloneFits ==
  /\ \A j \in Jobs : job[j].status = "ABSENT" => job[j].cp = NoCheckpoint
  /\ ~spoiled =>
    /\ ~Crossed
    /\ \A w \in Workers : run[w].pc \in Working => run[w].cp = job[run[w].job].cp
    /\ quiz.status \in Settled =>
         \A w \in Workers : run[w].pc \in {"idle", "succeed"} \/ Op(w) = "APPEND"

-----------------------------------------------------------------------------
(* The functions of the checkpoint.                                         *)

\* No checkpoint is a checkpoint without batches.
LEMMA NoCheckpointTyped == NoCheckpoint \in Checkpoint
  BY DEF NoCheckpoint, Checkpoint

\* One batch is replaced.
LEMMA FitsReplaced ==
  ASSUME NEW op \in Ops, NEW existing, NEW cp, Fits(cp, op, existing),
         NEW b \in DOMAIN cp.batches, NEW x \in Batch,
         GoodBatch(x, Plan[op][b], existing),
         \A c \in DOMAIN cp.batches :
           c # b /\ Unwarned(x) /\ Unwarned(cp.batches[c])
             => ~SharePrompt(x.result, cp.batches[c].result)
  PROVE  Fits([cp EXCEPT !.batches = [cp.batches EXCEPT ![b] = x]], op, existing)
<1>. DEFINE bs == cp.batches
            new == [cp EXCEPT !.batches = [bs EXCEPT ![b] = x]]
<1>1. cp \in Checkpoint /\ bs \in Seq(Batch) /\ DOMAIN bs = DOMAIN Plan[op]
  BY DEF Fits, Checkpoint
<1>2. new.batches = [bs EXCEPT ![b] = x] /\ new \in Checkpoint
  BY <1>1 DEF Checkpoint
<1>3. DOMAIN new.batches = DOMAIN bs
  BY <1>2
<1>4. new.batches[b] = x /\ \A c \in DOMAIN bs : c # b => new.batches[c] = bs[c]
  BY <1>2
<1>. HIDE DEF new
<1>5. \A c \in DOMAIN bs : GoodBatch(new.batches[c], Plan[op][c], existing)
  BY <1>4 DEF Fits
<1>6. \A r, s : SharePrompt(r, s) => SharePrompt(s, r)
  BY DEF SharePrompt
<1>7. \A c, d \in DOMAIN bs :
        c # d /\ Unwarned(new.batches[c]) /\ Unwarned(new.batches[d])
          => ~SharePrompt(new.batches[c].result, new.batches[d].result)
  BY <1>4, <1>6 DEF Fits
<1>. QED BY <1>1, <1>2, <1>3, <1>5, <1>7 DEF Fits, new

\* create: the plan with nothing done.
LEMMA NewCheckpointFits ==
  ASSUME index \in Nat, NEW op \in Ops, NEW existing
  PROVE  Fits(NewCheckpoint(op), op, existing)
<1>. DEFINE x == [attempts |-> 0, done |-> FALSE, partial |-> <<>>, result |-> NoResult]
            cp == NewCheckpoint(op)
<1>1. cp.print = index /\ cp.batches = [b \in DOMAIN Plan[op] |-> x]
      /\ cp = [print |-> index, batches |-> [b \in DOMAIN Plan[op] |-> x]]
  BY DEF NewCheckpoint
<1>2. x \in Batch
  BY DEF Batch, NoResult
<1>3. [b \in DOMAIN Plan[op] |-> x] \in Seq(Batch)
  <2>1. DOMAIN Plan[op] = 1 .. Len(Plan[op]) /\ Len(Plan[op]) \in Nat
    BY PlanFacts
  <2>. HIDE DEF x
  <2>. QED BY <1>2, <2>1
<1>4. cp \in Checkpoint
  BY <1>1, <1>3 DEF Checkpoint
<1>5. \A plan : Of(plan, <<>>)
  BY DEF Of, Slots
<1>6. \A b \in DOMAIN cp.batches : GoodBatch(cp.batches[b], Plan[op][b], existing) /\ ~Unwarned(cp.batches[b])
  BY <1>1, <1>5 DEF GoodBatch, Unwarned
<1>. QED BY <1>1, <1>4, <1>6 DEF Fits

\* resetIncompleteAttempts: only the attempts of open batches change.
LEMMA ResetFits ==
  ASSUME NEW op \in Ops, NEW existing, NEW cp, Fits(cp, op, existing)
  PROVE  /\ Fits(ResetIncomplete(cp), op, existing)
         /\ ResetIncomplete(cp).print = cp.print
         /\ DOMAIN ResetIncomplete(cp).batches = DOMAIN cp.batches
         /\ \A b \in DOMAIN cp.batches :
              cp.batches[b].done => ResetIncomplete(cp).batches[b] = cp.batches[b]
<1>. DEFINE bs == cp.batches
            x(b) == IF bs[b].done THEN bs[b] ELSE [bs[b] EXCEPT !.attempts = 0]
            new == ResetIncomplete(cp)
<1>1. cp \in Checkpoint /\ bs \in Seq(Batch) /\ DOMAIN bs = DOMAIN Plan[op]
  BY DEF Fits, Checkpoint
<1>2. new.batches = [b \in DOMAIN bs |-> x(b)] /\ new.print = cp.print
      /\ new = [print |-> cp.print, batches |-> [b \in DOMAIN bs |-> x(b)]]
  <2>1. cp = [print |-> cp.print, batches |-> cp.batches]
    BY <1>1 DEF Checkpoint
  <2>2. new = [cp EXCEPT !.batches = [b \in DOMAIN bs |-> x(b)]]
    BY DEF ResetIncomplete
  <2>. HIDE DEF x, new, bs
  <2>. QED BY <2>1, <2>2
<1>3. ASSUME NEW b \in DOMAIN bs
      PROVE  /\ x(b) \in Batch /\ x(b).done = bs[b].done /\ x(b).result = bs[b].result
             /\ x(b).partial = bs[b].partial
             /\ bs[b].done => x(b) = bs[b]
  <2>1. bs[b] \in Batch
    BY <1>1
  <2>. HIDE DEF bs
  <2>. QED BY <2>1 DEF Batch
<1>. HIDE DEF x, bs, new
<1>4. [b \in DOMAIN bs |-> x(b)] \in Seq(Batch)
  <2>1. Len(bs) \in Nat /\ DOMAIN bs = 1 .. Len(bs)
    BY <1>1
  <2>. QED BY <1>3, <2>1
<1>5. new \in Checkpoint
  BY <1>1, <1>2, <1>4 DEF Checkpoint
<1>6. \A b \in DOMAIN bs : new.batches[b] = x(b)
  BY <1>2
<1>7. \A b \in DOMAIN bs : /\ GoodBatch(new.batches[b], Plan[op][b], existing)
                           /\ Unwarned(new.batches[b]) = Unwarned(bs[b])
                           /\ new.batches[b].result = bs[b].result
  BY <1>3, <1>6 DEF Fits, GoodBatch, Unwarned, bs
<1>8. Fits(new, op, existing)
  <2>1. DOMAIN new.batches = DOMAIN bs
    BY <1>2
  <2>2. \A b, c \in DOMAIN bs : b # c /\ Unwarned(bs[b]) /\ Unwarned(bs[c])
          => ~SharePrompt(bs[b].result, bs[c].result)
    BY DEF Fits, bs
  <2>3. \A b, c \in DOMAIN bs : b # c /\ Unwarned(new.batches[b]) /\ Unwarned(new.batches[c])
          => ~SharePrompt(new.batches[b].result, new.batches[c].result)
    BY <1>7, <2>2
  <2>. QED BY <1>1, <1>5, <1>7, <2>1, <2>3 DEF Fits
<1>. QED BY <1>2, <1>3, <1>6, <1>8 DEF new, bs

\* The checkpoint a handler goes on with fits the plan.
LEMMA OpenFits ==
  ASSUME index \in Nat, NEW op \in Ops, NEW existing, NEW cp, Good(cp, op, existing)
  PROVE  Fits(ReadCheckpoint(cp, op), op, existing)
  BY NewCheckpointFits DEF ReadCheckpoint, Good

\* nextIncompleteIndex picks an incomplete batch if there is one.
LEMMA NextIncompleteIn ==
  ASSUME NEW op \in Ops, NEW existing, NEW cp, Fits(cp, op, existing)
  PROVE  IF Incomplete(cp) = {} THEN NextIncomplete(cp) = 0
         ELSE NextIncomplete(cp) \in Incomplete(cp) /\ NextIncomplete(cp) # 0
<1>1. DOMAIN cp.batches = 1 .. Len(Plan[op])
  BY PlanFacts DEF Fits
<1>2. Incomplete(cp) \in SUBSET Nat /\ 0 \notin Incomplete(cp)
  BY <1>1 DEF Incomplete
<1>3. CASE Incomplete(cp) # {}
  <2>1. \E b \in Incomplete(cp) : \A c \in Incomplete(cp) : b <= c
    BY <1>2, <1>3, LeastExists
  <2>. QED BY <1>2, <1>3, <2>1 DEF NextIncomplete
<1>. QED BY <1>3 DEF NextIncomplete

\* recordAttempt
LEMMA RecordFits ==
  ASSUME NEW op \in Ops, NEW existing, NEW cp, Fits(cp, op, existing), NEW b \in Incomplete(cp)
  PROVE  /\ Fits(RecordAttempt(cp, b), op, existing)
         /\ RecordAttempt(cp, b).print = cp.print
         /\ DOMAIN RecordAttempt(cp, b).batches = DOMAIN cp.batches
         /\ b \in Incomplete(RecordAttempt(cp, b))
         /\ \A c \in DOMAIN cp.batches : c # b => RecordAttempt(cp, b).batches[c] = cp.batches[c]
<1>. DEFINE old == cp.batches[b]
            x == [old EXCEPT !.attempts = IF old.attempts = BatchMaxAttempts
                                          THEN old.attempts ELSE old.attempts + 1]
            new == RecordAttempt(cp, b)
<1>1. cp \in Checkpoint /\ cp.batches \in Seq(Batch) /\ b \in DOMAIN cp.batches /\ ~old.done
  BY DEF Fits, Checkpoint, Incomplete
<1>2. old \in Batch
  BY <1>1
<1>3. new = [cp EXCEPT !.batches = [cp.batches EXCEPT ![b] = x]]
  BY <1>1 DEF RecordAttempt, Checkpoint
<1>. HIDE DEF old
<1>4. x \in Batch /\ x.done = old.done /\ x.result = old.result /\ x.partial = old.partial
  <2>. DEFINE n == IF old.attempts = BatchMaxAttempts THEN old.attempts ELSE old.attempts + 1
  <2>1. old.attempts \in Nat
    BY <1>2 DEF Batch
  <2>2. n \in Nat
    BY <2>1
  <2>3. x = [old EXCEPT !.attempts = n]
    OBVIOUS
  <2>. HIDE DEF n, x
  <2>. QED BY ONLY <1>2, <2>2, <2>3 DEF Batch
<1>. HIDE DEF x, new
<1>5. GoodBatch(x, Plan[op][b], existing) /\ ~Unwarned(x)
  BY <1>1, <1>4 DEF Fits, GoodBatch, Unwarned, old
<1>6. Fits(new, op, existing)
  BY <1>1, <1>3, <1>4, <1>5, FitsReplaced
<1>7. new.print = cp.print /\ new.batches = [cp.batches EXCEPT ![b] = x]
  BY <1>1, <1>3 DEF Checkpoint
<1>8. b \in Incomplete(new)
  BY <1>1, <1>4, <1>7 DEF Incomplete
<1>. QED BY <1>6, <1>7, <1>8 DEF new

\* partial
LEMMA PartialFits ==
  ASSUME NEW op \in Ops, NEW existing, NEW cp, Fits(cp, op, existing), NEW b \in Incomplete(cp),
         NEW questions, Of(Plan[op][b], questions)
  PROVE  /\ Fits(Partial(cp, b, questions), op, existing)
         /\ Partial(cp, b, questions).print = cp.print
         /\ DOMAIN Partial(cp, b, questions).batches = DOMAIN cp.batches
         /\ b \in Incomplete(Partial(cp, b, questions))
         /\ \A c \in DOMAIN cp.batches :
              c # b => Partial(cp, b, questions).batches[c] = cp.batches[c]
<1>. DEFINE old == cp.batches[b]
            x == [old EXCEPT !.partial = questions]
            new == Partial(cp, b, questions)
<1>1. cp \in Checkpoint /\ cp.batches \in Seq(Batch) /\ b \in DOMAIN cp.batches /\ ~old.done
  BY DEF Fits, Checkpoint, Incomplete
<1>2. old \in Batch /\ questions \in Seq(AllQuestions)
  BY <1>1 DEF Of
<1>3. new = [cp EXCEPT !.batches = [cp.batches EXCEPT ![b] = x]]
  BY <1>1 DEF Partial, Checkpoint
<1>. HIDE DEF old
<1>4. x \in Batch /\ x.done = old.done /\ x.result = old.result /\ x.partial = questions
  BY <1>2 DEF Batch
<1>. HIDE DEF x, new
<1>5. GoodBatch(x, Plan[op][b], existing) /\ ~Unwarned(x)
  BY <1>1, <1>4 DEF GoodBatch, Unwarned, old
<1>6. Fits(new, op, existing)
  BY <1>1, <1>3, <1>4, <1>5, FitsReplaced
<1>7. new.print = cp.print /\ new.batches = [cp.batches EXCEPT ![b] = x]
  BY <1>1, <1>3 DEF Checkpoint
<1>8. b \in Incomplete(new)
  BY <1>1, <1>4, <1>7 DEF Incomplete
<1>. QED BY <1>6, <1>7, <1>8 DEF new

\* complete: the prompts of the batches that are there were excluded.
LEMMA CompleteFits ==
  ASSUME NEW op \in Ops, NEW existing, NEW cp, Fits(cp, op, existing), NEW b \in Incomplete(cp),
         NEW result \in [questions : Seq(AllQuestions), warned : BOOLEAN],
         NEW excluded, excluded = existing \union {q.prompt : q \in Questions(cp)},
         Whole(Plan[op][b], result), ~result.warned => Clean(result, excluded)
  PROVE  /\ Fits(Complete(cp, b, result), op, existing)
         /\ Complete(cp, b, result).print = cp.print
         /\ DOMAIN Complete(cp, b, result).batches = DOMAIN cp.batches
         /\ \A c \in DOMAIN cp.batches :
              c # b => Complete(cp, b, result).batches[c] = cp.batches[c]
<1>. DEFINE old == cp.batches[b]
            x == [old EXCEPT !.done = TRUE, !.result = result, !.partial = <<>>]
            new == Complete(cp, b, result)
<1>1. cp \in Checkpoint /\ cp.batches \in Seq(Batch) /\ b \in DOMAIN cp.batches /\ ~old.done
  BY DEF Fits, Checkpoint, Incomplete
<1>2. old \in Batch /\ <<>> \in Seq(AllQuestions)
  BY <1>1
<1>3. new = [cp EXCEPT !.batches = [cp.batches EXCEPT ![b] = x]]
  BY <1>1 DEF Complete, Checkpoint
<1>. HIDE DEF old
<1>4. x \in Batch /\ x.done /\ x.result = result /\ x.partial = <<>>
  <2>. DEFINE x1 == [old EXCEPT !.done = TRUE]
              x2 == [x1 EXCEPT !.result = result]
              x3 == [x2 EXCEPT !.partial = <<>>]
  <2>1. x1 \in Batch /\ x1.done
    BY <1>2 DEF Batch
  <2>2. x = x3
    OBVIOUS
  <2>. HIDE DEF x, x1
  <2>3. x2 \in Batch /\ x2.done /\ x2.result = result
    BY <2>1 DEF Batch
  <2>. HIDE DEF x2
  <2>4. x3 \in Batch /\ x3.done /\ x3.result = result /\ x3.partial = <<>>
    BY <1>2, <2>3 DEF Batch
  <2>. HIDE DEF x3
  <2>. QED BY <2>2, <2>4
<1>. HIDE DEF x, new
<1>5. GoodBatch(x, Plan[op][b], existing)
  <2>1. Of(Plan[op][b], <<>>)
    BY DEF Of, Slots
  <2>2. ~result.warned => Clean(result, existing)
    BY DEF Clean
  <2>. QED BY <1>4, <2>1, <2>2 DEF GoodBatch
<1>6. ASSUME NEW c \in DOMAIN cp.batches, Unwarned(x)
      PROVE  ~SharePrompt(x.result, cp.batches[c].result)
  <2>1. \A k \in DOMAIN cp.batches[c].result.questions :
          cp.batches[c].result.questions[k].prompt \in excluded
    <3>. PICK qs : qs = cp.batches[c].result.questions
      OBVIOUS
    <3>1. \A k \in DOMAIN qs : qs[k] \in Range(qs)
      BY DEF Range
    <3>2. Range(qs) \subseteq Questions(cp)
      BY <1>6 DEF Questions
    <3>. QED BY <3>1, <3>2
  <2>2. Clean(result, excluded)
    BY <1>4, <1>6 DEF Unwarned
  <2>. QED BY <1>4, <2>1, <2>2 DEF SharePrompt, Clean
<1>7. Fits(new, op, existing)
  BY <1>1, <1>3, <1>4, <1>5, <1>6, FitsReplaced
<1>8. new.print = cp.print /\ new.batches = [cp.batches EXCEPT ![b] = x]
  BY <1>1, <1>3 DEF Checkpoint
<1>. QED BY <1>7, <1>8 DEF new

-----------------------------------------------------------------------------
(* One job row and the runs of that job change.                             *)

\* Every job may be tried.
LEMMA BoundFacts ==
  \A op \in Ops : MaxJobAttempts(op) \in Nat /\ MaxJobAttempts(op) # 0
<1>. TAKE op \in Ops
<1>1. Len(Plan[op]) \in Nat \ {0} /\ BatchMaxAttempts \in Nat \ {0}
  BY PlanFacts, PlanAssumption
<1>2. \A a, b \in Nat \ {0} : a * b \in Nat \ {0}
  OBVIOUS
<1>. QED BY <1>1, <1>2 DEF MaxJobAttempts

\* What the invariant says of one row and of one run.
LEMMA RowFacts ==
  ASSUME RowsInv
  PROVE  /\ \A j \in Jobs : job[j] \in JobRow /\ job[j].op \in Ops /\ job[j].cp \in Checkpoint
                            /\ job[j].attempts \in Nat
                            /\ job[j].attempts <= MaxJobAttempts(job[j].op)
                            /\ Good(job[j].cp, job[j].op, job[j].existing)
         /\ \A w \in Workers : run[w] \in RunRow /\ run[w].cp \in Checkpoint
         /\ \A w \in Workers : run[w].pc # "idle" =>
              /\ run[w].job \in Jobs /\ job[run[w].job].status # "ABSENT"
              /\ RunFits(run[w], job[run[w].job].op, job[run[w].job].existing)
         /\ index \in Nat
<1>1. \A j \in Jobs : job[j] \in JobRow
  BY DEF RowsInv, RowTypes
<1>2. \A w \in Workers : run[w] \in RunRow
  BY DEF RowsInv, RowTypes
<1>3. \A j \in Jobs : job[j].op \in Ops /\ job[j].cp \in Checkpoint /\ job[j].attempts \in Nat
  BY <1>1 DEF JobRow
<1>4. \A w \in Workers : run[w].cp \in Checkpoint
  BY <1>2 DEF RunRow
<1>. QED BY <1>1, <1>2, <1>3, <1>4 DEF RowsInv, RowTypes, JobsFit, CheckpointsFit

\* One job row changes, with runs that end or that belong to it.
LEMMA RowsStep ==
  ASSUME RowsInv, NEW j \in Jobs, NEW row \in JobRow, job' = [job EXCEPT ![j] = row],
         row.status # "ABSENT", row.attempts <= MaxJobAttempts(row.op),
         Good(row.cp, row.op, row.existing),
         j = 1 \/ job[j].status # "ABSENT" => row.op = job[j].op /\ row.existing = job[j].existing,
         run' \in [Workers -> RunRow],
         \A v \in Workers :
           \/ run'[v] = run[v]
           \/ run'[v].pc = "idle" /\ run'[v].job = 0
           \/ run'[v].pc # "idle" /\ run'[v].job = j /\ RunFits(run'[v], row.op, row.existing)
  PROVE  job' \in [Jobs -> JobRow] /\ JobsFit' /\ CheckpointsFit'
<1>1. job \in [Jobs -> JobRow] /\ JobsFit /\ CheckpointsFit
  BY DEF RowsInv, RowTypes
<1>2. job'[j] = row /\ \A i \in Jobs \ {j} : job'[i] = job[i]
  BY <1>1
<1>3. job' \in [Jobs -> JobRow]
  BY <1>1
<1>4. 1 \in Jobs
  BY DEF Jobs
<1>5. \A i \in Jobs : /\ job'[i].attempts <= MaxJobAttempts(job'[i].op)
                      /\ Good(job'[i].cp, job'[i].op, job'[i].existing)
  BY <1>1, <1>2 DEF JobsFit, CheckpointsFit
<1>6. job'[1].op = "CREATE" /\ job'[1].status # "ABSENT"
  BY <1>1, <1>2, <1>4 DEF JobsFit
<1>7. ASSUME NEW v \in Workers
      PROVE  IF run'[v].pc = "idle" THEN run'[v].job = 0
             ELSE /\ run'[v].job \in Jobs /\ job'[run'[v].job].status # "ABSENT"
                  /\ RunFits(run'[v], job'[run'[v].job].op, job'[run'[v].job].existing)
  <2>1. CASE run'[v] = run[v]
    <3>1. CASE run[v].pc = "idle"
      BY <1>1, <2>1, <3>1 DEF JobsFit
    <3>2. CASE run[v].pc # "idle"
      <4>1. /\ run[v].job \in Jobs /\ job[run[v].job].status # "ABSENT"
            /\ RunFits(run[v], job[run[v].job].op, job[run[v].job].existing)
        BY <1>1, <3>2 DEF JobsFit, CheckpointsFit
      <4>2. /\ job'[run[v].job].op = job[run[v].job].op
            /\ job'[run[v].job].existing = job[run[v].job].existing
            /\ job'[run[v].job].status # "ABSENT"
        BY <1>2, <4>1
      <4>. QED BY <2>1, <3>2, <4>1, <4>2
    <3>. QED BY <3>1, <3>2
  <2>2. CASE run'[v].pc = "idle" /\ run'[v].job = 0
    BY <2>2
  <2>3. CASE run'[v].pc # "idle" /\ run'[v].job = j /\ RunFits(run'[v], row.op, row.existing)
    BY <1>2, <2>3
  <2>. QED BY <2>1, <2>2, <2>3
<1>8. JobsFit'
  BY <1>5, <1>6, <1>7 DEF JobsFit
<1>9. CheckpointsFit'
  BY <1>5, <1>7 DEF CheckpointsFit
<1>. QED BY <1>3, <1>8, <1>9

\* A step of a run: its own row and its job's row.
LEMMA WorkerStep ==
  ASSUME RowsInv, NEW w \in Workers, run[w].pc # "idle",
         NEW row \in JobRow, job' = [job EXCEPT ![run[w].job] = row],
         NEW r \in RunRow, run' = [run EXCEPT ![w] = r],
         row.status # "ABSENT", row.attempts <= MaxJobAttempts(row.op),
         Good(row.cp, row.op, row.existing),
         row.op = job[run[w].job].op, row.existing = job[run[w].job].existing,
         \/ r.pc = "idle" /\ r.job = 0
         \/ r.pc # "idle" /\ r.job = run[w].job /\ RunFits(r, row.op, row.existing)
  PROVE  job' \in [Jobs -> JobRow] /\ run' \in [Workers -> RunRow] /\ JobsFit' /\ CheckpointsFit'
<1>1. run \in [Workers -> RunRow] /\ run[w].job \in Jobs
  BY RowFacts DEF RowsInv, RowTypes
<1>2. run' \in [Workers -> RunRow] /\ run'[w] = r /\ \A v \in Workers \ {w} : run'[v] = run[v]
  BY <1>1
<1>3. \A v \in Workers :
        \/ run'[v] = run[v]
        \/ run'[v].pc = "idle" /\ run'[v].job = 0
        \/ run'[v].pc # "idle" /\ run'[v].job = run[w].job /\ RunFits(run'[v], row.op, row.existing)
  BY <1>2
<1>. QED BY <1>1, <1>2, <1>3, RowsStep

\* A row that is written as it was.
LEMMA JobIsKept ==
  ASSUME job \in [Jobs -> JobRow], NEW j \in Jobs
  PROVE  job = [job EXCEPT ![j] = job[j]]
  OBVIOUS

\* An idle worker has nothing in hand.
LEMMA IdleTyped == Idle \in RunRow /\ Idle.pc = "idle" /\ Idle.job = 0 /\ Idle.cp = NoCheckpoint
<1>1. NoCheckpoint \in Checkpoint /\ <<>> \in Seq(AllQuestions)
  BY NoCheckpointTyped
<1>. QED BY <1>1 DEF Idle, RunRow, Working

\* Settling: only who it is stays of a run.
SettledRow(w, pc, outcome) ==
  [Idle EXCEPT !.pc = pc, !.job = run[w].job, !.attempts = run[w].attempts,
               !.outcome = outcome]
\* A run that settles its job has no checkpoint in hand.
LEMMA SettledRun ==
  ASSUME RowsInv, NEW w \in Workers, run[w].pc # "idle",
         NEW pc \in {"defer", "succeed", "failing", "fail"}, NEW outcome \in {"none", "retry", "final"},
         NEW op, NEW existing
  PROVE  /\ SettledRow(w, pc, outcome) \in RunRow
         /\ SettledRow(w, pc, outcome).pc = pc /\ SettledRow(w, pc, outcome).job = run[w].job
         /\ SettledRow(w, pc, outcome).outcome = outcome
         /\ SettledRow(w, pc, outcome).attempts = run[w].attempts
         /\ RunFits(SettledRow(w, pc, outcome), op, existing)
<1>. DEFINE r == [Idle EXCEPT !.pc = pc, !.job = run[w].job, !.attempts = run[w].attempts,
                              !.outcome = outcome]
<1>0. r = SettledRow(w, pc, outcome)
  BY DEF SettledRow
<1>1. Idle \in RunRow /\ Idle.cp = NoCheckpoint
  BY IdleTyped
<1>2. run[w].job \in Jobs /\ run[w].attempts \in Nat
  BY RowFacts DEF RunRow
<1>3. r.pc = pc /\ r.job = run[w].job /\ r.attempts = run[w].attempts /\ r.outcome = outcome
      /\ r.cp = Idle.cp
  BY <1>1 DEF RunRow
<1>4. r \in RunRow
  BY <1>1, <1>2 DEF RunRow, Working
<1>. HIDE DEF r
<1>5. RunFits(r, op, existing)
  BY <1>1, <1>3 DEF RunFits, Good
<1>. QED BY <1>0, <1>3, <1>4, <1>5

\* JobService.checkpoint, on the row.
LEMMA SavedRow ==
  ASSUME RowsInv, NEW w \in Workers, run[w].pc # "idle", NEW cp \in Checkpoint, Save(w, cp)
  PROVE  \E row \in JobRow :
           /\ job' = [job EXCEPT ![run[w].job] = row]
           /\ row.cp = cp /\ row.op = job[run[w].job].op
           /\ row.existing = job[run[w].job].existing
           /\ row.status # "ABSENT" /\ row.attempts <= MaxJobAttempts(row.op)
<1>. DEFINE j == run[w].job
            row == [job[j] EXCEPT !.cp = cp]
<1>1. job \in [Jobs -> JobRow] /\ j \in Jobs /\ job[j] \in JobRow
      /\ job[j].status # "ABSENT" /\ job[j].attempts <= MaxJobAttempts(job[j].op)
  BY RowFacts DEF RowsInv, RowTypes
<1>2. job' = [job EXCEPT ![j] = row]
  BY <1>1 DEF Save
<1>. DEFINE old == job[j]
<1>3. old \in JobRow
  BY <1>1
<1>. HIDE DEF old
<1>4. /\ [old EXCEPT !.cp = cp] \in JobRow
      /\ [old EXCEPT !.cp = cp].cp = cp /\ [old EXCEPT !.cp = cp].op = old.op
      /\ [old EXCEPT !.cp = cp].existing = old.existing
      /\ [old EXCEPT !.cp = cp].status = old.status
      /\ [old EXCEPT !.cp = cp].attempts = old.attempts
  BY <1>3 DEF JobRow
<1>5. row = [old EXCEPT !.cp = cp]
  BY DEF old
<1>. HIDE DEF row
<1>. QED BY <1>1, <1>2, <1>4, <1>5 DEF old

-----------------------------------------------------------------------------
(* The steps of a run, on the rows of the jobs and of the runs.             *)

\* The rows after a step.
RowsKept == job' \in [Jobs -> JobRow] /\ run' \in [Workers -> RunRow] /\ JobsFit' /\ CheckpointsFit'

\* A run that goes on, its job as it was.
LEMMA RunOnly ==
  ASSUME RowsInv, NEW w \in Workers, run[w].pc # "idle", job' = job,
         NEW r \in RunRow, run' = [run EXCEPT ![w] = r],
         \/ r.pc = "idle" /\ r.job = 0
         \/ /\ r.pc # "idle" /\ r.job = run[w].job
            /\ RunFits(r, job[run[w].job].op, job[run[w].job].existing)
  PROVE  RowsKept
<1>1. run[w].job \in Jobs /\ job[run[w].job] \in JobRow /\ job \in [Jobs -> JobRow]
  BY RowFacts DEF RowsInv, RowTypes
<1>. DEFINE row == job[run[w].job]
<1>2. job' = [job EXCEPT ![run[w].job] = row] /\ row \in JobRow
  BY <1>1, JobIsKept
<1>3. row.status # "ABSENT" /\ row.attempts <= MaxJobAttempts(row.op) /\ Good(row.cp, row.op, row.existing)
  BY <1>1, RowFacts
<1>. HIDE DEF row
<1>4. row.op = job[run[w].job].op /\ row.existing = job[run[w].job].existing
  BY DEF row
<1>. QED BY <1>2, <1>3, <1>4, WorkerStep DEF RowsKept

\* A run that settles its job next, its job as it was.
LEMMA SettlingKeeps ==
  ASSUME RowsInv, NEW w \in Workers, run[w].pc # "idle", job' = job,
         NEW pc \in {"defer", "succeed", "failing", "fail"}, NEW outcome \in {"none", "retry", "final"},
         Settling(w, pc, outcome)
  PROVE  RowsKept
<1>. DEFINE r == SettledRow(w, pc, outcome)
<1>1. /\ r \in RunRow /\ r.pc = pc /\ r.job = run[w].job
      /\ RunFits(r, job[run[w].job].op, job[run[w].job].existing)
  BY SettledRun
<1>2. run' = [run EXCEPT ![w] = r]
  BY DEF Settling, SettledRow
<1>. HIDE DEF r
<1>. QED BY <1>1, <1>2, RunOnly

\* A run that has saved its checkpoint and settles its job next.
LEMMA SavingKeeps ==
  ASSUME RowsInv, NEW w \in Workers, run[w].pc # "idle",
         NEW cp, Fits(cp, job[run[w].job].op, job[run[w].job].existing), Save(w, cp),
         NEW pc \in {"defer", "succeed", "failing", "fail"}, NEW outcome \in {"none", "retry", "final"},
         Settling(w, pc, outcome)
  PROVE  RowsKept
<1>. DEFINE r == SettledRow(w, pc, outcome)
<1>1. /\ r \in RunRow /\ r.pc = pc /\ r.job = run[w].job
      /\ RunFits(r, job[run[w].job].op, job[run[w].job].existing)
  BY SettledRun
<1>2. run' = [run EXCEPT ![w] = r]
  BY DEF Settling, SettledRow
<1>. HIDE DEF r
<1>3. cp \in Checkpoint
  BY DEF Fits
<1>4. PICK row \in JobRow :
           /\ job' = [job EXCEPT ![run[w].job] = row]
           /\ row.cp = cp /\ row.op = job[run[w].job].op
           /\ row.existing = job[run[w].job].existing
           /\ row.status # "ABSENT" /\ row.attempts <= MaxJobAttempts(row.op)
  BY <1>3, SavedRow
<1>5. Good(row.cp, row.op, row.existing)
  BY <1>4 DEF Good
<1>. QED BY <1>1, <1>2, <1>4, <1>5, WorkerStep DEF RowsKept

\* A run that has saved its checkpoint and goes on.
LEMMA SavingGoesOn ==
  ASSUME RowsInv, NEW w \in Workers, run[w].pc # "idle",
         NEW cp, Fits(cp, job[run[w].job].op, job[run[w].job].existing), Save(w, cp),
         NEW r \in RunRow, run' = [run EXCEPT ![w] = r],
         r.pc # "idle", r.job = run[w].job,
         RunFits(r, job[run[w].job].op, job[run[w].job].existing)
  PROVE  RowsKept
<1>3. cp \in Checkpoint
  BY DEF Fits
<1>4. PICK row \in JobRow :
           /\ job' = [job EXCEPT ![run[w].job] = row]
           /\ row.cp = cp /\ row.op = job[run[w].job].op
           /\ row.existing = job[run[w].job].existing
           /\ row.status # "ABSENT" /\ row.attempts <= MaxJobAttempts(row.op)
  BY <1>3, SavedRow
<1>5. Good(row.cp, row.op, row.existing)
  BY <1>4 DEF Good
<1>. QED BY <1>4, <1>5, WorkerStep DEF RowsKept

\* Claim: the run starts with the checkpoint of its row.
LEMMA ClaimKeeps ==
  ASSUME RowsInv, NEW w \in Workers, NEW j \in Jobs, Claim(w, j)
  PROVE  RowsKept
<1>. DEFINE old == job[j]
            row == [old EXCEPT !.status = "RUNNING", !.attempts = old.attempts + 1]
            r == [Idle EXCEPT !.pc = "begin", !.job = j, !.attempts = row.attempts,
                              !.step = old.step, !.cp = old.cp]
<1>1. /\ old \in JobRow /\ old.op \in Ops /\ old.attempts \in Nat
      /\ Good(old.cp, old.op, old.existing) /\ old.cp \in Checkpoint
      /\ old.step \in {"queued", "refused", "later"}
      /\ job \in [Jobs -> JobRow] /\ run \in [Workers -> RunRow]
  BY RowFacts DEF RowsInv, RowTypes, JobRow
<1>2. run[w].pc = "idle" /\ old.status \in {"QUEUED", "RETRY"} /\ old.attempts < MaxJobAttempts(old.op)
  BY DEF Claim, CanClaim
<1>3. job' = [job EXCEPT ![j] = row]
  BY <1>1 DEF Claim
<1>4. job'[j].attempts = row.attempts /\ run' = [run EXCEPT ![w] = r]
  BY <1>1, <1>3 DEF Claim
<1>. HIDE DEF old
<1>5. /\ row \in JobRow /\ row.status = "RUNNING" /\ row.attempts = old.attempts + 1
      /\ row.op = old.op /\ row.existing = old.existing /\ row.cp = old.cp
  <2>1. old.attempts + 1 \in Nat
    BY <1>1
  <2>2. row.status = "RUNNING" /\ row.attempts = old.attempts + 1
        /\ row.op = old.op /\ row.existing = old.existing /\ row.cp = old.cp
    BY <1>1 DEF JobRow
  <2>3. \A n \in Nat : [old EXCEPT !.status = "RUNNING", !.attempts = n] \in JobRow
    BY <1>1 DEF JobRow, Active
  <2>. QED BY <2>1, <2>2, <2>3
<1>. HIDE DEF row
<1>6. row.attempts \in Nat /\ row.attempts <= MaxJobAttempts(row.op) /\ MaxJobAttempts(row.op) \in Nat
  BY <1>1, <1>2, <1>5, BoundFacts
<1>7. Idle \in RunRow
  BY IdleTyped
<1>8. r \in RunRow
  BY <1>1, <1>6, <1>7 DEF RunRow, Working
<1>9. r.pc = "begin" /\ r.job = j /\ r.cp = old.cp
  BY <1>7 DEF RunRow
<1>. HIDE DEF r
<1>10. RunFits(r, row.op, row.existing)
  BY <1>1, <1>5, <1>9 DEF RunFits
<1>11. run' \in [Workers -> RunRow] /\ run'[w] = r /\ \A v \in Workers \ {w} : run'[v] = run[v]
  BY <1>1, <1>4, <1>8
<1>12. \A v \in Workers :
           \/ run'[v] = run[v]
           \/ run'[v].pc = "idle" /\ run'[v].job = 0
           \/ run'[v].pc # "idle" /\ run'[v].job = j /\ RunFits(run'[v], row.op, row.existing)
  BY <1>9, <1>10, <1>11
<1>13. Good(row.cp, row.op, row.existing) /\ row.status # "ABSENT"
  BY <1>1, <1>5
<1>14. row.op = job[j].op /\ row.existing = job[j].existing
  BY <1>5 DEF old
<1>. QED BY <1>3, <1>5, <1>6, <1>11, <1>12, <1>13, <1>14, RowsStep DEF RowsKept

\* Begin changes the step of the row.
LEMMA BeginKeeps ==
  ASSUME RowsInv, NEW w \in Workers, Begin(w)
  PROVE  RowsKept
<1>1. run[w].pc = "begin"
  BY DEF Begin
<1>2. CASE Throw(w, "retry") /\ UNCHANGED job
  BY <1>1, <1>2, SettlingKeeps DEF Throw
<1>3. CASE job' = [job EXCEPT ![run[w].job].step = "later"] /\ GoTo(w, "attempt")
  <2>. DEFINE j == run[w].job
              old == job[j]
              row == [old EXCEPT !.step = "later"]
              cur == run[w]
              r == [cur EXCEPT !.pc = "attempt"]
  <2>1. /\ j \in Jobs /\ old \in JobRow /\ old.status # "ABSENT"
        /\ old.attempts <= MaxJobAttempts(old.op) /\ Good(old.cp, old.op, old.existing)
        /\ cur \in RunRow /\ RunFits(cur, old.op, old.existing)
    BY <1>1, RowFacts
  <2>2. job' = [job EXCEPT ![j] = row] /\ run' = [run EXCEPT ![w] = r]
    BY <1>3, <2>1 DEF GoTo, RowsInv, RowTypes
  <2>. HIDE DEF old, cur
  <2>3. /\ row \in JobRow /\ row.status = old.status /\ row.attempts = old.attempts
        /\ row.op = old.op /\ row.existing = old.existing /\ row.cp = old.cp
    BY <2>1 DEF JobRow
  <2>4. r \in RunRow /\ r.pc = "attempt" /\ r.job = cur.job /\ r.cp = cur.cp
    BY <2>1 DEF RunRow, Working
  <2>. HIDE DEF row, r
  <2>5. RunFits(r, row.op, row.existing)
    BY <2>1, <2>3, <2>4 DEF RunFits
  <2>. QED BY <1>1, <2>1, <2>2, <2>3, <2>4, <2>5, WorkerStep DEF RowsKept, old, cur
<1>. QED BY <1>2, <1>3 DEF Begin

\* What handle starts from fits the plan.
LEMMA OpenedFits ==
  ASSUME RowsInv, NEW w \in Workers, run[w].pc # "idle"
  PROVE  Fits(OpenCheckpoint(w), job[run[w].job].op, job[run[w].job].existing)
<1>. DEFINE op == job[run[w].job].op
            existing == job[run[w].job].existing
            cp == ReadCheckpoint(run[w].cp, op)
<1>1. op \in Ops /\ Good(run[w].cp, op, existing) /\ index \in Nat
  BY RowFacts DEF RunFits
<1>. HIDE DEF op, existing
<1>2. Fits(cp, op, existing)
  BY <1>1, OpenFits
<1>3. Fits(ResetIncomplete(cp), op, existing)
  BY <1>1, <1>2, ResetFits
<1>. QED BY <1>2, <1>3 DEF OpenCheckpoint, Op, op, existing

\* Attempt saves the opened checkpoint, with one attempt more.
LEMMA AttemptKeeps ==
  ASSUME RowsInv, NEW w \in Workers, Attempt(w)
  PROVE  RowsKept
<1>. DEFINE op == job[run[w].job].op
            existing == job[run[w].job].existing
            cp == OpenCheckpoint(w)
            b == NextIncomplete(cp)
            cur == run[w]
<1>1. cur.pc = "attempt" /\ cur.pc # "idle"
  BY DEF Attempt
<1>2. Fits(cp, op, existing) /\ op \in Ops /\ cur \in RunRow /\ run \in [Workers -> RunRow]
  BY <1>1, OpenedFits, RowFacts DEF RowsInv, RowTypes
<1>. HIDE DEF cp
<1>3. CASE b = 0
  <2>. DEFINE r == [cur EXCEPT !.pc = "commit", !.cp = cp, !.step = "later"]
  <2>1. Save(w, cp) /\ run' = [run EXCEPT ![w] = r]
    BY <1>2, <1>3 DEF Attempt, cp
  <2>2. Incomplete(cp) = {}
    BY <1>2, <1>3, NextIncompleteIn
  <2>3. cp \in Checkpoint
    BY <1>2 DEF Fits
  <2>. HIDE DEF cur
  <2>4. r \in RunRow /\ r.pc = "commit" /\ r.job = cur.job /\ r.cp = cp
    BY <1>2, <2>3 DEF RunRow, Working
  <2>. HIDE DEF r
  <2>5. RunFits(r, op, existing)
    BY <1>2, <2>2, <2>4 DEF RunFits, Good
  <2>. QED BY <1>1, <1>2, <2>1, <2>4, <2>5, SavingGoesOn DEF cur
<1>4. CASE b # 0
  <2>. DEFINE new == RecordAttempt(cp, b)
              r == [cur EXCEPT !.pc = "call", !.batch = b, !.step = "later", !.cp = new]
  <2>1. Save(w, new) /\ run' = [run EXCEPT ![w] = r]
    BY <1>2, <1>4 DEF Attempt, cp
  <2>2. b \in Incomplete(cp)
    BY <1>2, <1>4, NextIncompleteIn
  <2>3. Fits(new, op, existing) /\ b \in Incomplete(new)
    BY <1>2, <2>2, RecordFits
  <2>4. new \in Checkpoint /\ b \in Nat
    <3>1. DOMAIN cp.batches \subseteq Nat
      BY <1>2, PlanFacts DEF Fits
    <3>. QED BY <2>2, <2>3, <3>1 DEF Fits, Incomplete
  <2>. HIDE DEF cur, b, new
  <2>5. r \in RunRow /\ r.pc = "call" /\ r.job = cur.job /\ r.cp = new /\ r.batch = b
    BY <1>2, <2>4 DEF RunRow, Working
  <2>. HIDE DEF r
  <2>6. RunFits(r, op, existing)
    BY <2>3, <2>5 DEF RunFits, Good
  <2>. QED BY <1>1, <2>1, <2>3, <2>5, <2>6, SavingGoesOn DEF cur
<1>. QED BY <1>3, <1>4

\* What a run at the model knows.
LEMMA AtModel ==
  ASSUME RowsInv, NEW w \in Workers, run[w].pc \in {"call", "check"}
  PROVE  /\ Op(w) = job[run[w].job].op /\ Op(w) \in Ops
         /\ Fits(run[w].cp, Op(w), job[run[w].job].existing)
         /\ run[w].batch \in Incomplete(run[w].cp)
         /\ IsPlan(BatchPlan(w)) /\ BatchPlan(w) = Plan[Op(w)][run[w].batch]
         /\ run[w].pc = "check" => Fills(BatchPlan(w), run[w].output)
         /\ Of(BatchPlan(w), run[w].cp.batches[run[w].batch].partial)
<1>1. /\ job[run[w].job].op \in Ops /\ RunFits(run[w], job[run[w].job].op, job[run[w].job].existing)
  BY RowFacts
<1>2. /\ Fits(run[w].cp, Op(w), job[run[w].job].existing) /\ run[w].batch \in Incomplete(run[w].cp)
      /\ run[w].pc = "check" => Fills(BatchPlan(w), run[w].output)
  BY <1>1 DEF RunFits, Op, BatchPlan
<1>3. run[w].batch \in DOMAIN Plan[Op(w)] /\ Of(BatchPlan(w), run[w].cp.batches[run[w].batch].partial)
  BY <1>2 DEF Fits, Incomplete, GoodBatch, BatchPlan
<1>. QED BY <1>1, <1>2, <1>3, PlanFacts DEF Op, BatchPlan

\* Reply fills the batch.
LEMMA ReplyKeeps ==
  ASSUME RowsInv, NEW w \in Workers, Reply(w)
  PROVE  RowsKept
<1>. DEFINE op == job[run[w].job].op
            existing == job[run[w].job].existing
            cur == run[w]
            accepted == cur.cp.batches[cur.batch].partial
            missing == MissingSlots(BatchPlan(w), accepted)
<1>1. cur.pc = "call"
  BY DEF Reply
<1>2. PICK reply \in Replies(missing) :
        LET output == accepted \o reply
            cp == IF missing = {} THEN cur.cp ELSE Partial(cur.cp, cur.batch, output)
        IN  /\ run' = [run EXCEPT ![w].pc = "check", ![w].output = output, ![w].cp = cp]
            /\ IF missing = {} THEN UNCHANGED job ELSE Save(w, cp)
  BY DEF Reply
<1>. DEFINE output == accepted \o reply
            cp == IF missing = {} THEN cur.cp ELSE Partial(cur.cp, cur.batch, output)
            r == [cur EXCEPT !.pc = "check", !.output = output, !.cp = cp]
<1>3. /\ op \in Ops /\ Fits(cur.cp, op, existing) /\ cur.batch \in Incomplete(cur.cp)
      /\ IsPlan(BatchPlan(w)) /\ BatchPlan(w) = Plan[op][cur.batch] /\ Of(BatchPlan(w), accepted)
      /\ cur \in RunRow /\ run \in [Workers -> RunRow]
  BY <1>1, AtModel, RowFacts DEF RowsInv, RowTypes
<1>4. run' = [run EXCEPT ![w] = r] /\ IF missing = {} THEN UNCHANGED job ELSE Save(w, cp)
  BY <1>2, <1>3
<1>. HIDE DEF missing, accepted
<1>5. Fills(BatchPlan(w), output)
  BY <1>3, ReplyFills DEF missing
<1>. HIDE DEF output
<1>6. output \in Seq(AllQuestions) /\ Of(Plan[op][cur.batch], output)
  BY <1>3, <1>5 DEF Fills, Of
<1>7. Fits(cp, op, existing) /\ cur.batch \in Incomplete(cp) /\ cp \in Checkpoint
  <2>1. missing # {} => /\ Fits(Partial(cur.cp, cur.batch, output), op, existing)
                        /\ cur.batch \in Incomplete(Partial(cur.cp, cur.batch, output))
    <3>. HIDE DEF cur, op, existing
    <3>. QED BY <1>3, <1>6, PartialFits
  <2>. QED BY <1>3, <2>1 DEF Fits
<1>8. cur.pc # "idle"
  BY <1>1
<1>. HIDE DEF cp, cur
<1>9. r \in RunRow /\ r.pc = "check" /\ r.job = cur.job /\ r.cp = cp /\ r.output = output
      /\ r.batch = cur.batch
  BY <1>3, <1>6, <1>7 DEF RunRow, Working
<1>. HIDE DEF r
<1>10. RunFits(r, op, existing)
  BY <1>3, <1>5, <1>7, <1>9 DEF RunFits, Good
<1>11. CASE missing = {}
  BY <1>4, <1>8, <1>9, <1>10, <1>11, RunOnly DEF cur
<1>12. CASE missing # {}
  BY <1>4, <1>7, <1>8, <1>9, <1>10, <1>12, SavingGoesOn DEF cur
<1>. QED BY <1>11, <1>12

\* FailBatch saves a checkpoint that fits.
LEMMA FailBatchKeeps ==
  ASSUME RowsInv, NEW w \in Workers, run[w].pc \in {"call", "check"},
         NEW cp, Fits(cp, job[run[w].job].op, job[run[w].job].existing),
         NEW retryable, FailBatch(w, cp, retryable)
  PROVE  RowsKept
<1>1. PICK outcome \in {"none", "retry", "final"} : Settling(w, "failing", outcome)
  BY DEF FailBatch, Throw
<1>2. Save(w, cp) /\ run[w].pc # "idle"
  BY DEF FailBatch
<1>. QED BY <1>1, <1>2, SavingKeeps

\* Accept completes the batch with a whole result.
LEMMA AcceptKeeps ==
  ASSUME RowsInv, NEW w \in Workers, Accept(w)
  PROVE  RowsKept
<1>. DEFINE op == job[run[w].job].op
            existing == job[run[w].job].existing
            cur == run[w]
            result == Result(cur.output, BatchPlan(w), Excluded(w))
            cp == Complete(cur.cp, cur.batch, result)
            r == [cur EXCEPT !.pc = "commit", !.cp = cp, !.output = <<>>, !.repaired = FALSE,
                             !.batch = 0]
<1>1. cur.pc = "check" /\ Save(w, cp)
      /\ Verdict(cur.output, BatchPlan(w), cur.repaired) = "result"
  BY DEF Accept
<1>2. /\ op \in Ops /\ Fits(cur.cp, op, existing) /\ cur.batch \in Incomplete(cur.cp)
      /\ IsPlan(BatchPlan(w)) /\ BatchPlan(w) = Plan[op][cur.batch]
      /\ Fills(BatchPlan(w), cur.output)
      /\ cur \in RunRow /\ run \in [Workers -> RunRow]
  BY <1>1, AtModel, RowFacts DEF RowsInv, RowTypes
<1>3. \/ NextIncomplete(cp) # 0 /\ Settling(w, "defer", "none")
      \/ NextIncomplete(cp) = 0 /\ run' = [run EXCEPT ![w] = r]
  BY <1>2 DEF Accept
<1>4. Faults(cur.output, BatchPlan(w)) = {}
  BY <1>1 DEF Verdict
<1>5. /\ Whole(BatchPlan(w), result) /\ result.warned \in BOOLEAN
      /\ ~result.warned => Clean(result, Excluded(w))
  <2>. HIDE DEF cur
  <2>. QED BY <1>2, <1>4, ResultFacts
<1>6. result \in [questions : Seq(AllQuestions), warned : BOOLEAN]
  <2>1. result = [questions |-> result.questions, warned |-> result.warned]
    BY DEF Result
  <2>. HIDE DEF result
  <2>. QED BY <1>5, <2>1 DEF Whole
<1>7. Excluded(w) = existing \union {q.prompt : q \in Questions(cur.cp)}
  BY DEF Excluded
<1>8. Fits(cp, op, existing)
  <2>1. /\ op \in Ops /\ Fits(cur.cp, op, existing) /\ cur.batch \in Incomplete(cur.cp)
        /\ BatchPlan(w) = Plan[op][cur.batch]
    BY <1>2
  <2>2. Whole(Plan[op][cur.batch], result) /\ (~result.warned => Clean(result, Excluded(w)))
    BY <1>5, <2>1
  <2>. HIDE DEF cur, op, existing, result
  <2>. QED BY ONLY <1>6, <1>7, <2>1, <2>2, CompleteFits
<1>. HIDE DEF cp
<1>9. CASE NextIncomplete(cp) # 0 /\ Settling(w, "defer", "none")
  BY <1>1, <1>8, <1>9, SavingKeeps
<1>10. CASE NextIncomplete(cp) = 0 /\ run' = [run EXCEPT ![w] = r]
  <2>1. Incomplete(cp) = {}
    BY <1>2, <1>8, <1>10, NextIncompleteIn
  <2>2. cp \in Checkpoint /\ <<>> \in Seq(AllQuestions)
    BY <1>8 DEF Fits
  <2>3. cur.pc # "idle"
    BY <1>1
  <2>. HIDE DEF cur
  <2>4. r \in RunRow
    BY <1>2, <2>2 DEF RunRow, Working
  <2>5. r.pc = "commit" /\ r.job = cur.job /\ r.cp = cp
    BY <1>2 DEF RunRow
  <2>. HIDE DEF r
  <2>6. RunFits(r, op, existing)
    BY <1>8, <2>1, <2>5 DEF RunFits, Good
  <2>. QED BY <1>1, <1>8, <1>10, <2>3, <2>4, <2>5, <2>6, SavingGoesOn DEF cur
<1>. QED BY <1>3, <1>9, <1>10

\* Repair changes the citations of one question only.
LEMMA RepairKeeps ==
  ASSUME RowsInv, NEW w \in Workers, Repair(w)
  PROVE  RowsKept
<1>. DEFINE op == job[run[w].job].op
            existing == job[run[w].job].existing
            cur == run[w]
            i == FirstFault(cur.output, BatchPlan(w))
<1>1. cur.pc = "check" /\ job' = job
      /\ Verdict(cur.output, BatchPlan(w), cur.repaired) = "repair"
  BY DEF Repair
<1>2. /\ op \in Ops /\ Fits(cur.cp, op, existing) /\ cur.batch \in Incomplete(cur.cp)
      /\ IsPlan(BatchPlan(w)) /\ BatchPlan(w) = Plan[op][cur.batch]
      /\ Fills(BatchPlan(w), cur.output)
      /\ cur \in RunRow /\ run \in [Workers -> RunRow]
  BY <1>1, AtModel, RowFacts DEF RowsInv, RowTypes
<1>3. i \in DOMAIN BatchPlan(w)
  <2>1. Faults(cur.output, BatchPlan(w)) # {}
    BY <1>1 DEF Verdict
  <2>. QED BY <1>2, <2>1, FirstFaultIn
<1>4. PICK q \in SameContent(cur.output[i]) :
        run' = [run EXCEPT ![w].repaired = TRUE, ![w].output = [@ EXCEPT ![i] = q]]
  BY DEF Repair
<1>. DEFINE o == [cur.output EXCEPT ![i] = q]
            r == [cur EXCEPT !.repaired = TRUE, !.output = o]
<1>5. run' = [run EXCEPT ![w] = r]
  BY <1>2, <1>4 DEF RunRow
<1>. HIDE DEF i
<1>6. Fills(BatchPlan(w), o)
  BY <1>2, <1>3, RepairFills
<1>7. o \in Seq(AllQuestions)
  BY <1>6 DEF Fills, Of
<1>8. cur.pc # "idle"
  BY <1>1
<1>. HIDE DEF cur, o
<1>9. r \in RunRow /\ r.pc = cur.pc /\ r.job = cur.job /\ r.cp = cur.cp /\ r.output = o
      /\ r.batch = cur.batch
  BY <1>2, <1>7 DEF RunRow
<1>. HIDE DEF r
<1>10. RunFits(r, op, existing)
  BY <1>1, <1>2, <1>6, <1>9 DEF RunFits, Good
<1>. QED BY <1>1, <1>5, <1>8, <1>9, <1>10, RunOnly DEF cur

\* GiveUpCitations keeps the questions but one.
LEMMA GiveUpKeeps ==
  ASSUME RowsInv, NEW w \in Workers, GiveUpCitations(w)
  PROVE  RowsKept
<1>. DEFINE op == job[run[w].job].op
            existing == job[run[w].job].existing
            cur == run[w]
            i == FirstFault(cur.output, BatchPlan(w))
            kept == [k \in 1 .. (Len(cur.output) - 1) |-> cur.output[IF k < i THEN k ELSE k + 1]]
<1>1. /\ cur.pc = "check" /\ FailBatch(w, Partial(cur.cp, cur.batch, kept), TRUE)
      /\ Verdict(cur.output, BatchPlan(w), cur.repaired) = "uncitable"
  BY DEF GiveUpCitations
<1>2. /\ op \in Ops /\ Fits(cur.cp, op, existing) /\ cur.batch \in Incomplete(cur.cp)
      /\ IsPlan(BatchPlan(w)) /\ BatchPlan(w) = Plan[op][cur.batch]
      /\ Fills(BatchPlan(w), cur.output)
  BY <1>1, AtModel
<1>3. i \in DOMAIN BatchPlan(w)
  <2>1. Faults(cur.output, BatchPlan(w)) # {}
    BY <1>1 DEF Verdict
  <2>. QED BY <1>2, <2>1, FirstFaultIn
<1>4. Of(BatchPlan(w), kept)
  <2>. HIDE DEF i, cur
  <2>. QED BY <1>2, <1>3, RestOf
<1>. HIDE DEF kept
<1>5. Fits(Partial(cur.cp, cur.batch, kept), op, existing)
  <2>. HIDE DEF cur, op, existing
  <2>. QED BY <1>2, <1>4, PartialFits
<1>. QED BY <1>1, <1>5, FailBatchKeeps

\* The job is settled, or left as it is, and the run ends.
LEMMA EndKeeps ==
  ASSUME RowsInv, NEW w \in Workers, run[w].pc # "idle", EndRun(w),
         \/ job' = job
         \/ \E row \in JobRow :
              /\ job' = [job EXCEPT ![run[w].job] = row]
              /\ row.status # "ABSENT" /\ row.attempts <= MaxJobAttempts(row.op)
              /\ Good(row.cp, row.op, row.existing)
              /\ row.op = job[run[w].job].op /\ row.existing = job[run[w].job].existing
  PROVE  RowsKept
<1>1. Idle \in RunRow /\ Idle.pc = "idle" /\ Idle.job = 0 /\ run' = [run EXCEPT ![w] = Idle]
  BY IdleTyped DEF EndRun
<1>2. CASE job' = job
  BY <1>1, <1>2, RunOnly
<1>3. CASE \E row \in JobRow :
              /\ job' = [job EXCEPT ![run[w].job] = row]
              /\ row.status # "ABSENT" /\ row.attempts <= MaxJobAttempts(row.op)
              /\ Good(row.cp, row.op, row.existing)
              /\ row.op = job[run[w].job].op /\ row.existing = job[run[w].job].existing
  <2>1. PICK row \in JobRow :
              /\ job' = [job EXCEPT ![run[w].job] = row]
              /\ row.status # "ABSENT" /\ row.attempts <= MaxJobAttempts(row.op)
              /\ Good(row.cp, row.op, row.existing)
              /\ row.op = job[run[w].job].op /\ row.existing = job[run[w].job].existing
    BY <1>3
  <2>. QED BY <1>1, <2>1, WorkerStep DEF RowsKept
<1>. QED BY <1>2, <1>3

\* Succeed drops the checkpoint.
LEMMA SucceedKeeps ==
  ASSUME RowsInv, NEW w \in Workers, Succeed(w)
  PROVE  RowsKept
<1>. DEFINE j == run[w].job
            old == job[j]
            row == [old EXCEPT !.status = "SUCCEEDED", !.step = "later", !.cp = NoCheckpoint]
<1>1. run[w].pc # "idle" /\ EndRun(w)
  BY DEF Succeed
<1>2. j \in Jobs /\ old \in JobRow /\ old.attempts <= MaxJobAttempts(old.op) /\ job \in [Jobs -> JobRow]
  BY <1>1, RowFacts DEF RowsInv, RowTypes
<1>3. job' = [job EXCEPT ![j] = row]
  BY <1>2 DEF Succeed
<1>. HIDE DEF old
<1>4. row \in JobRow /\ row.status = "SUCCEEDED" /\ row.attempts = old.attempts
      /\ row.op = old.op /\ row.existing = old.existing /\ row.cp = NoCheckpoint
  BY <1>2, NoCheckpointTyped DEF JobRow
<1>. HIDE DEF row
<1>5. Good(row.cp, row.op, row.existing)
  BY <1>4 DEF Good
<1>6. row.op = job[j].op /\ row.existing = job[j].existing
  BY <1>4 DEF old
<1>. QED BY <1>1, <1>2, <1>3, <1>4, <1>5, <1>6, EndKeeps

\* Defer gives the attempt back.
LEMMA DeferKeeps ==
  ASSUME RowsInv, NEW w \in Workers, Defer(w)
  PROVE  RowsKept
<1>. DEFINE j == run[w].job
            old == job[j]
            n == IF old.attempts = 0 THEN 0 ELSE old.attempts - 1
            row == [old EXCEPT !.status = "RETRY", !.attempts = n]
<1>1. run[w].pc # "idle" /\ EndRun(w)
  BY DEF Defer
<1>2. j \in Jobs /\ old \in JobRow /\ old.attempts <= MaxJobAttempts(old.op) /\ job \in [Jobs -> JobRow]
      /\ old.attempts \in Nat /\ old.op \in Ops /\ Good(old.cp, old.op, old.existing)
  BY <1>1, RowFacts DEF RowsInv, RowTypes
<1>3. job' = [job EXCEPT ![j] = row] \/ job' = job
  BY <1>2 DEF Defer
<1>. HIDE DEF old
<1>4. n \in Nat /\ n <= MaxJobAttempts(old.op)
  BY <1>2, BoundFacts
<1>. HIDE DEF n
<1>5. row \in JobRow /\ row.status = "RETRY" /\ row.attempts = n
      /\ row.op = old.op /\ row.existing = old.existing /\ row.cp = old.cp
  BY <1>2, <1>4 DEF JobRow, Active
<1>. HIDE DEF row
<1>6. row.op = job[j].op /\ row.existing = job[j].existing
  BY <1>5 DEF old
<1>. QED BY <1>1, <1>2, <1>3, <1>4, <1>5, <1>6, EndKeeps

\* Fail ends the attempt or the job.
LEMMA FailKeeps ==
  ASSUME RowsInv, NEW w \in Workers, Fail(w)
  PROVE  RowsKept
<1>. DEFINE j == run[w].job
            old == job[j]
            final == run[w].outcome = "final" \/ job[j].attempts >= MaxJobAttempts(job[j].op)
            s == IF old.step = "queued" THEN "refused" ELSE old.step
            t == IF final THEN "FAILED" ELSE "RETRY"
            row == [old EXCEPT !.status = t, !.step = s]
<1>1. run[w].pc # "idle" /\ EndRun(w)
  BY DEF Fail
<1>2. j \in Jobs /\ old \in JobRow /\ old.attempts <= MaxJobAttempts(old.op) /\ job \in [Jobs -> JobRow]
      /\ Good(old.cp, old.op, old.existing)
  BY <1>1, RowFacts DEF RowsInv, RowTypes
<1>3. job' = [job EXCEPT ![j] = row] \/ job' = job
  BY <1>2 DEF Fail
<1>4. t \in {"FAILED", "RETRY"}
  OBVIOUS
<1>5. s \in {"queued", "refused", "later"}
  BY <1>2 DEF JobRow
<1>. HIDE DEF old, s, t
<1>6. row \in JobRow /\ row.status = t /\ row.attempts = old.attempts
      /\ row.op = old.op /\ row.existing = old.existing /\ row.cp = old.cp
  BY <1>2, <1>4, <1>5 DEF JobRow, Active
<1>. HIDE DEF row
<1>7. row.op = job[j].op /\ row.existing = job[j].existing /\ row.status # "ABSENT"
  BY <1>4, <1>6 DEF old
<1>. QED BY <1>1, <1>2, <1>3, <1>6, <1>7, EndKeeps

\* MarkFailed leaves the row alone.
LEMMA MarkFailedKeeps ==
  ASSUME RowsInv, NEW w \in Workers, MarkFailed(w)
  PROVE  RowsKept
<1>1. run[w].pc = "failing" /\ job' = job /\ (EndRun(w) \/ GoTo(w, "fail"))
  BY DEF MarkFailed
<1>2. CASE EndRun(w)
  BY <1>1, <1>2, EndKeeps
<1>3. CASE GoTo(w, "fail")
  <2>. DEFINE cur == run[w]
              r == [cur EXCEPT !.pc = "fail"]
  <2>1. cur \in RunRow /\ run \in [Workers -> RunRow] /\ cur.pc # "idle"
        /\ RunFits(cur, job[run[w].job].op, job[run[w].job].existing)
    BY <1>1, RowFacts DEF RowsInv, RowTypes
  <2>2. run' = [run EXCEPT ![w] = r]
    BY <1>3, <2>1 DEF GoTo
  <2>. HIDE DEF cur
  <2>3. r \in RunRow /\ r.pc = "fail" /\ r.job = cur.job /\ r.cp = cur.cp
    BY <2>1 DEF RunRow
  <2>. HIDE DEF r
  <2>4. RunFits(r, job[run[w].job].op, job[run[w].job].existing)
    BY <2>1, <2>3 DEF RunFits
  <2>. QED BY <1>1, <2>1, <2>2, <2>3, <2>4, RunOnly DEF cur
<1>. QED BY <1>1, <1>2, <1>3

\* No step of a run breaks the rows.
LEMMA StepKeepsRows ==
  ASSUME RowsInv, NEW w \in Workers, Step(w)
  PROVE  RowsKept
<1>1. CASE Begin(w)
  BY <1>1, BeginKeeps
<1>2. CASE Attempt(w)
  BY <1>2, AttemptKeeps
<1>3. CASE ContractFails(w)
  BY <1>3, SettlingKeeps DEF ContractFails, Throw
<1>4. CASE Reply(w)
  BY <1>4, ReplyKeeps
<1>5. CASE \E retryable \in BOOLEAN : CallFails(w, retryable)
  <2>1. PICK retryable \in BOOLEAN : CallFails(w, retryable)
    BY <1>5
  <2>2. run[w].pc \in {"call", "check"} /\ FailBatch(w, run[w].cp, retryable)
    BY <2>1 DEF CallFails
  <2>3. Fits(run[w].cp, job[run[w].job].op, job[run[w].job].existing)
    BY <2>2, AtModel
  <2>. QED BY <2>2, <2>3, FailBatchKeeps
<1>6. CASE Accept(w)
  BY <1>6, AcceptKeeps
<1>7. CASE Reject(w)
  <2>2. run[w].pc \in {"call", "check"} /\ FailBatch(w, run[w].cp, TRUE)
    BY <1>7 DEF Reject
  <2>3. Fits(run[w].cp, job[run[w].job].op, job[run[w].job].existing)
    BY <2>2, AtModel
  <2>. QED BY <2>2, <2>3, FailBatchKeeps
<1>8. CASE Repair(w)
  BY <1>8, RepairKeeps
<1>9. CASE GiveUpCitations(w)
  BY <1>9, GiveUpKeeps
<1>10. CASE CommitCreate(w)
  <2>1. run[w].pc # "idle" /\ job' = job
        /\ (Settling(w, "failing", "retry") \/ Settling(w, "succeed", "none"))
    BY <1>10 DEF CommitCreate, Throw
  <2>. QED BY <2>1, SettlingKeeps
<1>11. CASE CommitAppend(w)
  <2>1. run[w].pc # "idle" /\ job' = job
        /\ \/ Settling(w, "failing", "retry") \/ Settling(w, "failing", "final")
           \/ Settling(w, "succeed", "none")
    BY <1>11 DEF CommitAppend, Throw
  <2>. QED BY <2>1, SettlingKeeps
<1>12. CASE Succeed(w)
  BY <1>12, SucceedKeeps
<1>13. CASE Defer(w)
  BY <1>13, DeferKeeps
<1>14. CASE MarkFailed(w)
  BY <1>14, MarkFailedKeeps
<1>15. CASE Fail(w)
  BY <1>15, FailKeeps
<1>. QED BY <1>1, <1>2, <1>3, <1>4, <1>5, <1>6, <1>7, <1>8, <1>9, <1>10, <1>11, <1>12, <1>13,
            <1>14, <1>15 DEF Step

-----------------------------------------------------------------------------
(* The other steps, on the rows.                                            *)

\* A job row changes under the runs, or a new job is made.
LEMMA JobOnly ==
  ASSUME RowsInv, NEW j \in Jobs, NEW row \in JobRow, job' = [job EXCEPT ![j] = row], run' = run,
         row.status # "ABSENT", row.attempts <= MaxJobAttempts(row.op),
         Good(row.cp, row.op, row.existing),
         j = 1 \/ job[j].status # "ABSENT" => row.op = job[j].op /\ row.existing = job[j].existing
  PROVE  RowsKept
<1>1. run' \in [Workers -> RunRow]
  BY DEF RowsInv, RowTypes
<1>. QED BY <1>1, RowsStep DEF RowsKept

\* The row of a job that is there is restated: its plan and its checkpoint stay.
LEMMA JobRestated ==
  ASSUME RowsInv, NEW j \in Jobs, run' = run, job[j].status # "ABSENT",
         NEW row \in JobRow, job' = [job EXCEPT ![j] = row], row.status # "ABSENT",
         row.attempts = job[j].attempts \/ row.attempts = 0,
         row.op = job[j].op, row.existing = job[j].existing, row.cp = job[j].cp
  PROVE  RowsKept
<1>1. job[j].attempts <= MaxJobAttempts(job[j].op)
      /\ job[j].op \in Ops /\ Good(job[j].cp, job[j].op, job[j].existing)
      /\ MaxJobAttempts(job[j].op) \in Nat
  BY RowFacts, BoundFacts
<1>2. row.attempts <= MaxJobAttempts(row.op)
  BY <1>1
<1>. QED BY <1>1, <1>2, JobOnly

\* NewJob: a request makes the second job.
LEMMA NewJobKeeps ==
  ASSUME RowsInv, job[2].status = "ABSENT", run' = run,
         NEW op \in Ops, NEW existing \in SUBSET Prompts,
         job' = [job EXCEPT ![2] = NewJob(op, existing)]
  PROVE  RowsKept
<1>. DEFINE row == NewJob(op, existing)
<1>1. row \in JobRow /\ row.op = op /\ row.cp = NoCheckpoint /\ row.attempts = 0
      /\ row.status = "QUEUED"
  BY NoCheckpointTyped DEF NewJob, JobRow, Active
<1>2. 2 \in Jobs /\ 2 # 1
  BY DEF Jobs
<1>3. row.attempts <= MaxJobAttempts(row.op)
  BY <1>1, BoundFacts
<1>. HIDE DEF row
<1>4. Good(row.cp, row.op, row.existing)
  BY <1>1 DEF Good
<1>. QED BY <1>1, <1>2, <1>3, <1>4, JobOnly DEF row

\* Nothing happens to the rows.
LEMMA UnchangedRows ==
  ASSUME RowsInv, job' = job, run' = run
  PROVE  RowsKept
  BY DEF RowsInv, RowTypes, RowsKept, JobsFit, CheckpointsFit

\* Reclaim offers the job again.
LEMMA ReclaimKeeps ==
  ASSUME RowsInv, NEW j \in Jobs, Reclaim(j)
  PROVE  RowsKept
<1>. DEFINE old == job[j]
            row == [old EXCEPT !.status = "RETRY"]
<1>1. old \in JobRow /\ job \in [Jobs -> JobRow]
  BY RowFacts DEF RowsInv, RowTypes
<1>2. old.status # "ABSENT" /\ run' = run /\ job' = [job EXCEPT ![j] = row]
  BY <1>1 DEF Reclaim
<1>. HIDE DEF old
<1>3. row \in JobRow /\ row.status = "RETRY" /\ row.attempts = old.attempts
      /\ row.op = old.op /\ row.existing = old.existing /\ row.cp = old.cp
  BY <1>1 DEF JobRow, Active
<1>. HIDE DEF row
<1>. QED BY <1>2, <1>3, JobRestated DEF old

\* AdminRetry offers a failed job again.
LEMMA AdminRetryKeeps ==
  ASSUME RowsInv, NEW j \in Jobs, AdminRetry(j)
  PROVE  RowsKept
<1>. DEFINE old == job[j]
            s == IF old.step = "refused" THEN "queued" ELSE old.step
            row == [old EXCEPT !.status = "RETRY", !.cancelled = FALSE, !.step = s]
<1>1. old \in JobRow /\ job \in [Jobs -> JobRow]
  BY RowFacts DEF RowsInv, RowTypes
<1>2. old.status # "ABSENT" /\ run' = run /\ job' = [job EXCEPT ![j] = row]
  BY <1>1 DEF AdminRetry
<1>3. s \in {"queued", "refused", "later"}
  BY <1>1 DEF JobRow
<1>. HIDE DEF old, s
<1>4. row \in JobRow /\ row.status = "RETRY" /\ row.attempts = old.attempts
      /\ row.op = old.op /\ row.existing = old.existing /\ row.cp = old.cp
  BY <1>1, <1>3 DEF JobRow, Active
<1>. HIDE DEF row
<1>. QED BY <1>2, <1>4, JobRestated DEF old

\* AdminCancel fails a job that waits.
LEMMA AdminCancelKeeps ==
  ASSUME RowsInv, NEW j \in Jobs, AdminCancel(j)
  PROVE  RowsKept
<1>. DEFINE old == job[j]
            s == IF old.step = "queued" THEN "refused" ELSE old.step
            row == [old EXCEPT !.status = "FAILED", !.cancelled = TRUE, !.step = s]
<1>1. old \in JobRow /\ job \in [Jobs -> JobRow]
  BY RowFacts DEF RowsInv, RowTypes
<1>2. old.status # "ABSENT" /\ run' = run /\ job' = [job EXCEPT ![j] = row]
  BY <1>1 DEF AdminCancel
<1>3. s \in {"queued", "refused", "later"}
  BY <1>1 DEF JobRow
<1>. HIDE DEF old, s
<1>4. row \in JobRow /\ row.status = "FAILED" /\ row.attempts = old.attempts
      /\ row.op = old.op /\ row.existing = old.existing /\ row.cp = old.cp
  BY <1>1, <1>3 DEF JobRow, Active
<1>. HIDE DEF row
<1>. QED BY <1>2, <1>4, JobRestated DEF old

\* RetryLast offers the latest job again, from its first attempt.
LEMMA RetryLastKeeps ==
  ASSUME RowsInv, RetryLast
  PROVE  RowsKept
<1>. DEFINE j == Latest
            old == job[j]
            row == [old EXCEPT !.status = "RETRY", !.attempts = 0, !.step = "queued",
                               !.cancelled = FALSE]
<1>0. j \in Jobs
  BY DEF Latest, Jobs
<1>1. old \in JobRow /\ job \in [Jobs -> JobRow]
  BY <1>0, RowFacts DEF RowsInv, RowTypes
<1>2. old.status # "ABSENT" /\ run' = run /\ job' = [job EXCEPT ![j] = row]
  BY <1>1 DEF RetryLast
<1>. HIDE DEF old, j
<1>4. row \in JobRow /\ row.status = "RETRY" /\ row.attempts = 0
      /\ row.op = old.op /\ row.existing = old.existing /\ row.cp = old.cp
  BY <1>1 DEF JobRow, Active
<1>. HIDE DEF row
<1>. QED BY <1>0, <1>2, <1>4, JobRestated DEF old

\* Nothing the owner or the administrator does breaks the rows.
LEMMA PersonKeepsRows ==
  ASSUME QuizInv, Person
  PROVE  RowsKept
<1>0. RowsInv
  BY DEF QuizInv
<1>1. CASE Reindex \/ Publish \/ Edit \/ Delete
  BY <1>0, <1>1, UnchangedRows DEF Reindex, Publish, Edit, Delete
<1>2. CASE AppendGeneration
  <2>. DEFINE existing == {quiz.content[i].question.prompt : i \in DOMAIN quiz.content}
  <2>1. existing \in SUBSET Prompts
    <3>1. quiz.content \in Seq([job : Jobs, question : AllQuestions])
      BY DEF QuizInv, ContentInv, QuizRow
    <3>2. \A q \in AllQuestions : q.prompt \in Prompts
      BY QuestionFacts DEF Question
    <3>3. ASSUME NEW i \in DOMAIN quiz.content PROVE quiz.content[i].question \in AllQuestions
      <4>1. quiz.content[i] \in [job : Jobs, question : AllQuestions]
        BY <3>1, ElementIn
      <4>. QED BY <4>1
    <3>. QED BY <3>2, <3>3
  <2>2. "APPEND" \in Ops /\ job[2].status = "ABSENT" /\ run' = run
        /\ job' = [job EXCEPT ![2] = NewJob("APPEND", existing)]
    BY <1>2 DEF AppendGeneration, Ops
  <2>. HIDE DEF existing
  <2>. QED BY <1>0, <2>1, <2>2, NewJobKeeps
<1>3. CASE Retry
  <2>1. "RETRY" \in Ops /\ {} \in SUBSET Prompts /\ job[2].status = "ABSENT" /\ run' = run
        /\ job' = [job EXCEPT ![2] = NewJob("RETRY", {})]
    BY <1>3 DEF Retry, Ops
  <2>. QED BY <1>0, <2>1, NewJobKeeps
<1>4. CASE RetryLast
  BY <1>0, <1>4, RetryLastKeeps
<1>5. CASE \E j \in Jobs : AdminRetry(j) \/ AdminCancel(j)
  BY <1>0, <1>5, AdminRetryKeeps, AdminCancelKeeps
<1>. QED BY <1>1, <1>2, <1>3, <1>4, <1>5 DEF Person

\* Crash ends the run only.
LEMMA CrashKeeps ==
  ASSUME RowsInv, NEW w \in Workers, Crash(w)
  PROVE  RowsKept
  BY EndKeeps DEF Crash

\* The counters that bound the model.
LEMMA BoundsKept ==
  ASSUME index \in Nat, budget \in [faults : Nat, requests : Nat], spoiled \in BOOLEAN, Next
  PROVE  index' \in Nat /\ budget' \in [faults : Nat, requests : Nat] /\ spoiled' \in BOOLEAN
<1>1. spoiled' \in BOOLEAN
  BY DEF Next, Track
<1>. DEFINE Same == index' = index /\ budget' = budget
            Fewer == index' = index /\ budget.faults > 0 /\ budget' = [budget EXCEPT !.faults = @ - 1]
            Asked == index' \in {index, index + 1} /\ AskFor
<1>2. ASSUME NEW w \in Workers, Step(w) PROVE Same
  <2>1. Begin(w) \/ Attempt(w) \/ ContractFails(w) => Same
    BY DEF Begin, Attempt, ContractFails
  <2>2. Reply(w) \/ (\E retryable \in BOOLEAN : CallFails(w, retryable)) => Same
    BY DEF Reply, CallFails
  <2>3. Accept(w) \/ Reject(w) => Same
    BY DEF Accept, Reject
  <2>4. Repair(w) \/ GiveUpCitations(w) => Same
    BY DEF Repair, GiveUpCitations
  <2>5. CommitCreate(w) \/ CommitAppend(w) => Same
    BY DEF CommitCreate, CommitAppend
  <2>6. Succeed(w) \/ Defer(w) \/ MarkFailed(w) \/ Fail(w) => Same
    BY DEF Succeed, Defer, MarkFailed, Fail
  <2>. HIDE DEF Same
  <2>. QED BY <1>2, <2>1, <2>2, <2>3, <2>4, <2>5, <2>6 DEF Step
<1>3. \A w \in Workers : Crash(w) => Fewer
  BY DEF Crash
<1>4. \A w \in Workers, j \in Jobs : Claim(w, j) => Same
  BY DEF Claim
<1>5. \A j \in Jobs : Reclaim(j) => Same \/ Fewer
  BY DEF Reclaim
<1>6. Person => Same \/ Asked
  BY DEF Person, Reindex, Publish, Edit, Delete, AppendGeneration, Retry, RetryLast,
         AdminRetry, AdminCancel
<1>7. Same \/ Fewer \/ Asked
  <2>. HIDE DEF Same, Fewer, Asked
  <2>. QED BY <1>2, <1>3, <1>4, <1>5, <1>6 DEF Next
<1>8. index' \in Nat
  BY <1>7
<1>9. budget.faults \in Nat /\ budget.requests \in Nat
  OBVIOUS
<1>10. \A n \in Nat : /\ [budget EXCEPT !.faults = n] \in [faults : Nat, requests : Nat]
                      /\ [budget EXCEPT !.requests = n] \in [faults : Nat, requests : Nat]
  OBVIOUS
<1>11. budget' \in [faults : Nat, requests : Nat]
  <2>1. CASE Same
    BY <2>1
  <2>2. CASE Fewer
    <3>1. budget.faults - 1 \in Nat
      BY <1>9, <2>2
    <3>. QED BY <1>10, <2>2, <3>1
  <2>3. CASE Asked
    <3>1. budget.requests - 1 \in Nat
      BY <1>9, <2>3 DEF AskFor
    <3>. QED BY <1>10, <2>3, <3>1 DEF AskFor
  <2>. QED BY <1>7, <2>1, <2>2, <2>3
<1>. QED BY <1>1, <1>8, <1>11

\* The rows stay as they should be.
LEMMA NextKeepsRows ==
  ASSUME QuizInv, Next
  PROVE  RowsInv'
<1>0. RowsInv
  BY DEF QuizInv
<1>1. RowsKept
  BY <1>0, StepKeepsRows, CrashKeeps, ClaimKeeps, ReclaimKeeps, PersonKeepsRows DEF Next
<1>2. index' \in Nat /\ budget' \in [faults : Nat, requests : Nat] /\ spoiled' \in BOOLEAN
  BY <1>0, BoundsKept DEF RowsInv, RowTypes
<1>. QED BY <1>1, <1>2 DEF RowsKept, RowsInv, RowTypes

-----------------------------------------------------------------------------
(* What a run commits.                                                      *)

Entry == [job : Jobs, question : AllQuestions]

\* aggregate: the whole plan in its order, checked; and without a warning in
\* any batch, without a flaw and without a prompt twice.
LEMMA Aggregated ==
  ASSUME RowsInv, NEW w \in Workers, run[w].pc = "commit"
  PROVE  /\ Aggregate(w) \in Seq(Entry) /\ Aggregate(w) # <<>> /\ AggregateWarned(w) \in BOOLEAN
         /\ Keys(Aggregate(w)) = Written(run[w].job)
         /\ \A i \in DOMAIN Aggregate(w) :
              LET q == Aggregate(w)[i].question IN
              /\ q.sound /\ q.cites # "split"
              /\ ~AggregateWarned(w) =>
                   q.fits /\ q.cites # "missing" /\ q.prompt \notin job[run[w].job].existing
         /\ ~AggregateWarned(w) =>
              \A i, k \in DOMAIN Aggregate(w) :
                i # k => Aggregate(w)[i].question.prompt # Aggregate(w)[k].question.prompt
<1>. DEFINE j == run[w].job
            op == job[j].op
            existing == job[j].existing
            bs == run[w].cp.batches
            qs(b) == bs[b].result.questions
            parts == [b \in DOMAIN bs |-> [k \in DOMAIN qs(b) |-> [job |-> j, question |-> qs(b)[k]]]]
            aw == AggregateWarned(w)
<1>1. j \in Jobs /\ op \in Ops /\ Fits(run[w].cp, op, existing) /\ Incomplete(run[w].cp) = {}
  BY RowFacts DEF RunFits
<1>2. aw = \E b \in DOMAIN bs : bs[b].result.warned
  BY DEF AggregateWarned
<1>3. Aggregate(w) = FlattenSeq(parts)
  BY DEF Aggregate
<1>4. DOMAIN bs = DOMAIN Plan[op]
      /\ \A b \in DOMAIN bs : bs[b].done /\ GoodBatch(bs[b], Plan[op][b], existing)
  BY <1>1 DEF Fits, Incomplete
<1>5. /\ Plan[op] \in Seq(Seq(DOMAIN Drafts)) /\ Plan[op] # <<>>
      /\ \A b \in DOMAIN Plan[op] : IsPlan(Plan[op][b])
  BY <1>1, PlanFacts
<1>6. \A b \in DOMAIN bs : /\ Whole(Plan[op][b], bs[b].result)
                           /\ ~bs[b].result.warned => Clean(bs[b].result, existing)
  BY <1>4 DEF GoodBatch
<1>7. \A b, c \in DOMAIN bs :
        b # c /\ ~bs[b].result.warned /\ ~bs[c].result.warned => ~SharePrompt(bs[b].result, bs[c].result)
  BY <1>1, <1>4 DEF Fits, Unwarned
<1>8. ASSUME NEW b \in DOMAIN bs
      PROVE  qs(b) \in Seq(AllQuestions) /\ Len(qs(b)) = Len(Plan[op][b])
             /\ DOMAIN qs(b) = DOMAIN Plan[op][b]
             /\ \A k \in DOMAIN qs(b) :
                  /\ qs(b)[k].slot = Plan[op][b][k] /\ qs(b)[k].sound /\ qs(b)[k].cites # "split"
                  /\ qs(b)[k] \in AllQuestions
  <2>1. qs(b) \in Seq(AllQuestions) /\ Len(qs(b)) = Len(Plan[op][b])
        /\ Plan[op][b] \in Seq(DOMAIN Drafts)
    BY <1>4, <1>5, <1>6 DEF Whole, IsPlan
  <2>2. DOMAIN qs(b) = DOMAIN Plan[op][b]
    <3>. DEFINE s == qs(b)
                t == Plan[op][b]
    <3>1. s \in Seq(AllQuestions) /\ t \in Seq(DOMAIN Drafts) /\ Len(s) = Len(t)
      BY <2>1
    <3>. HIDE DEF s, t
    <3>2. DOMAIN s = DOMAIN t
      BY <3>1, SameDomain
    <3>. QED BY <3>2 DEF s, t
  <2>. QED BY <1>6, <2>1, <2>2, ElementIn DEF Whole
<1>9. ASSUME NEW b \in DOMAIN bs, ~aw
      PROVE  /\ \A k \in DOMAIN qs(b) : /\ qs(b)[k].fits /\ qs(b)[k].cites # "missing"
                                        /\ qs(b)[k].prompt \notin existing
             /\ \A k, m \in DOMAIN qs(b) : k # m => qs(b)[k].prompt # qs(b)[m].prompt
  BY <1>2, <1>6, <1>9 DEF Clean
<1>10. ASSUME NEW b \in DOMAIN bs, NEW c \in DOMAIN bs, b # c, ~aw
       PROVE  \A k \in DOMAIN qs(b), m \in DOMAIN qs(c) : qs(b)[k].prompt # qs(c)[m].prompt
  BY <1>2, <1>7, <1>10 DEF SharePrompt
<1>. HIDE DEF qs, aw
<1>11. ASSUME NEW b \in DOMAIN bs
       PROVE  parts[b] \in Seq(Entry) /\ Len(parts[b]) = Len(Plan[op][b])
              /\ DOMAIN parts[b] = DOMAIN qs(b)
              /\ \A k \in DOMAIN parts[b] : /\ parts[b][k] \in Entry /\ parts[b][k].job = j
                                            /\ parts[b][k].question = qs(b)[k]
  <2>1. parts[b] = [k \in DOMAIN qs(b) |-> [job |-> j, question |-> qs(b)[k]]]
    OBVIOUS
  <2>. HIDE DEF parts
  <2>2. \A k \in DOMAIN qs(b) : [job |-> j, question |-> qs(b)[k]] \in Entry
    BY <1>1, <1>8 DEF Entry
  <2>3. Len(qs(b)) \in Nat /\ DOMAIN qs(b) = 1 .. Len(qs(b))
    BY <1>8
  <2>4. parts[b] \in Seq(Entry) /\ Len(parts[b]) = Len(qs(b))
    BY <2>1, <2>2, <2>3
  <2>5. DOMAIN parts[b] = DOMAIN qs(b)
    BY <2>1
  <2>6. ASSUME NEW k \in DOMAIN parts[b]
        PROVE  /\ parts[b][k] \in Entry /\ parts[b][k].job = j
               /\ parts[b][k].question = qs(b)[k]
    <3>1. parts[b][k] = [job |-> j, question |-> qs(b)[k]] /\ k \in DOMAIN qs(b)
      BY <2>1, <2>5
    <3>. QED BY <2>2, <3>1
  <2>. QED BY <1>8, <2>4, <2>5, <2>6
<1>12. parts \in Seq(Seq(Entry)) /\ Len(parts) = Len(Plan[op]) /\ DOMAIN parts = DOMAIN bs /\ parts # <<>>
  <2>1. DOMAIN parts = 1 .. Len(Plan[op]) /\ Len(Plan[op]) \in Nat /\ Len(Plan[op]) # 0
    <3>. PICK P : P = Plan[op]
      OBVIOUS
    <3>1. P \in Seq(Seq(DOMAIN Drafts)) /\ P # <<>>
      BY <1>5
    <3>2. DOMAIN P = 1 .. Len(P) /\ Len(P) \in Nat /\ Len(P) # 0
      BY ONLY <3>1
    <3>3. DOMAIN parts = DOMAIN P
      BY <1>4
    <3>. QED BY ONLY <3>2, <3>3, P = Plan[op]
  <2>2. parts = [b \in DOMAIN parts |-> parts[b]] /\ DOMAIN parts = DOMAIN bs
    OBVIOUS
  <2>. HIDE DEF parts
  <2>3. parts \in Seq(Seq(Entry)) /\ Len(parts) = Len(Plan[op])
    <3>. PICK n : n = Len(Plan[op])
      OBVIOUS
    <3>1. n \in Nat /\ parts = [b \in 1 .. n |-> parts[b]]
      BY <2>1, <2>2
    <3>2. \A b \in 1 .. n : parts[b] \in Seq(Entry)
      BY <1>11, <2>1, <2>2
    <3>3. parts \in Seq(Seq(Entry)) /\ Len(parts) = n
      BY ONLY <3>1, <3>2, AsSequence
    <3>. QED BY ONLY <3>3, n = Len(Plan[op])
  <2>4. parts # <<>>
    BY <2>1, <2>3
  <2>. QED BY <2>2, <2>3, <2>4
<1>. HIDE DEF parts, bs
<1>. DEFINE R == {x \in Entry \X DOMAIN Drafts :
                    /\ x[1].job = j /\ x[1].question.slot = x[2]
                    /\ x[1].question.sound /\ x[1].question.cites # "split"
                    /\ ~aw => /\ x[1].question.fits /\ x[1].question.cites # "missing"
                              /\ x[1].question.prompt \notin existing}
<1>13. ASSUME NEW b \in DOMAIN parts, NEW k \in DOMAIN parts[b]
       PROVE  <<parts[b][k], Plan[op][b][k]>> \in R
  <2>1. b \in DOMAIN bs /\ k \in DOMAIN qs(b)
    BY <1>11, <1>12
  <2>2. Plan[op][b][k] \in DOMAIN Drafts
    <3>1. Plan[op][b] \in Seq(DOMAIN Drafts) /\ k \in DOMAIN Plan[op][b]
      BY <1>4, <1>5, <1>8, <2>1 DEF IsPlan
    <3>. QED BY <3>1, ElementIn
  <2>3. /\ parts[b][k] \in Entry /\ parts[b][k].job = j /\ parts[b][k].question = qs(b)[k]
    BY <1>11, <2>1
  <2>4. /\ qs(b)[k].slot = Plan[op][b][k] /\ qs(b)[k].sound /\ qs(b)[k].cites # "split"
        /\ ~aw => /\ qs(b)[k].fits /\ qs(b)[k].cites # "missing"
                  /\ qs(b)[k].prompt \notin existing
    BY <1>8, <1>9, <2>1
  <2>. DEFINE e == parts[b][k]
              s == Plan[op][b][k]
  <2>5. /\ e \in Entry /\ s \in DOMAIN Drafts
        /\ e.job = j /\ e.question.slot = s
        /\ e.question.sound /\ e.question.cites # "split"
        /\ ~aw => /\ e.question.fits /\ e.question.cites # "missing"
                  /\ e.question.prompt \notin existing
    BY <2>2, <2>3, <2>4
  <2>. HIDE DEF e, s, j, op, existing
  <2>6. <<e, s>> \in R
    BY <2>5
  <2>. QED BY <2>6 DEF e, s
<1>14. \A b \in DOMAIN parts : Len(parts[b]) = Len(Plan[op][b])
  BY <1>11, <1>12
<1>. HIDE DEF R
<1>. DEFINE A == FlattenSeq(parts)
            S == FlattenSeq(Plan[op])
<1>15. /\ A \in Seq(Entry) /\ S \in Seq(DOMAIN Drafts) /\ Len(A) = Len(S)
       /\ \A i \in DOMAIN A : <<A[i], S[i]>> \in R
  <2>. DEFINE P == Plan[op]
  <2>1. P \in Seq(Seq(DOMAIN Drafts)) /\ parts \in Seq(Seq(Entry)) /\ parts # <<>>
        /\ Len(parts) = Len(P)
    BY <1>5, <1>12
  <2>2. \A b \in DOMAIN parts : Len(parts[b]) = Len(P[b])
    BY <1>14
  <2>3. \A b \in DOMAIN parts : \A k \in DOMAIN parts[b] : <<parts[b][k], P[b][k]>> \in R
    BY <1>13
  <2>4. A = FlattenSeq(parts) /\ S = FlattenSeq(P)
    OBVIOUS
  <2>. HIDE DEF P, A, S
  <2>5. /\ FlattenSeq(parts) \in Seq(Entry) /\ FlattenSeq(P) \in Seq(DOMAIN Drafts)
        /\ Len(FlattenSeq(parts)) = Len(FlattenSeq(P))
        /\ \A i \in DOMAIN FlattenSeq(parts) : <<FlattenSeq(parts)[i], FlattenSeq(P)[i]>> \in R
    BY <2>1, <2>2, <2>3, FlattenAlike
  <2>. QED BY <2>4, <2>5
<1>16. A # <<>>
  <2>1. 1 \in DOMAIN Plan[op] /\ 1 \in DOMAIN parts
    <3>1. Plan[op] \in Seq(Seq(DOMAIN Drafts)) /\ Plan[op] # <<>>
      BY <1>5
    <3>2. 1 \in DOMAIN Plan[op]
      BY ONLY <3>1
    <3>. QED BY <1>4, <1>12, <3>2
  <2>2. Len(parts[1]) # 0
    <3>. PICK p : p = Plan[op][1]
      OBVIOUS
    <3>1. p \in Seq(DOMAIN Drafts) /\ p # <<>> /\ Len(parts[1]) = Len(p)
      BY <1>5, <1>14, <2>1 DEF IsPlan
    <3>. QED BY ONLY <3>1
  <2>3. parts[1] # <<>>
    BY <2>2
  <2>. QED BY <1>12, <2>3, FlattenNotEmpty
<1>17. ASSUME ~aw
       PROVE  \A i, k \in DOMAIN A : i # k => A[i].question.prompt # A[k].question.prompt
  <2>. DEFINE D == {x \in Entry \X Entry : x[1].question.prompt # x[2].question.prompt}
  <2>1. ASSUME NEW b \in DOMAIN parts, NEW i \in DOMAIN parts[b], NEW k \in DOMAIN parts[b], i # k
        PROVE  <<parts[b][i], parts[b][k]>> \in D
    BY <1>9, <1>11, <1>12, <1>17, <2>1
  <2>2. ASSUME NEW b \in DOMAIN parts, NEW c \in DOMAIN parts,
               NEW i \in DOMAIN parts[b], NEW k \in DOMAIN parts[c], b # c
        PROVE  <<parts[b][i], parts[c][k]>> \in D
    BY <1>10, <1>11, <1>12, <1>17, <2>2
  <2>. HIDE DEF D
  <2>3. \A i, k \in DOMAIN A : i # k => <<A[i], A[k]>> \in D
    BY <1>12, <2>1, <2>2, FlattenApart
  <2>. QED BY <2>3 DEF D
<1>. HIDE DEF A
<1>18. Aggregate(w) = A
  BY <1>3 DEF A
<1>19. \A i \in DOMAIN A : /\ A[i].job = j /\ A[i].question.slot = S[i]
                           /\ A[i].question.sound /\ A[i].question.cites # "split"
                           /\ ~aw => /\ A[i].question.fits /\ A[i].question.cites # "missing"
                                     /\ A[i].question.prompt \notin existing
  BY <1>15 DEF R
<1>20. DOMAIN A = DOMAIN S
  <2>1. A \in Seq(Entry) /\ S \in Seq(DOMAIN Drafts) /\ Len(A) = Len(S)
    BY <1>15
  <2>. HIDE DEF S
  <2>. QED BY ONLY <2>1, SameDomain
<1>21. Keys(A) = Written(j)
  BY <1>19, <1>20 DEF Keys, Written, SlotsOf
<1>22. aw \in BOOLEAN
  BY <1>2
<1>. QED BY <1>15, <1>16, <1>17, <1>18, <1>19, <1>21, <1>22 DEF aw

-----------------------------------------------------------------------------
(* What the quiz holds.                                                     *)

\* A job that was asked for stays the job it is, and before that its row is
\* not touched.
JobKept ==
  \A j \in Jobs :
    /\ job[j].status # "ABSENT" => /\ job'[j].status # "ABSENT" /\ job'[j].op = job[j].op
                                   /\ job'[j].existing = job[j].existing
    /\ job'[j].status = "ABSENT" => job'[j] = job[j]

\* A row is written that keeps what it was asked for.
LEMMA FieldsKept ==
  ASSUME job \in [Jobs -> JobRow], NEW j \in Jobs, NEW row,
         job' = [job EXCEPT ![j] = row],
         row.status # "ABSENT",
         job[j].status # "ABSENT" => row.op = job[j].op /\ row.existing = job[j].existing
  PROVE  JobKept
  BY DEF JobKept

\* Saving a checkpoint keeps the job.
LEMMA SaveKeepsJob ==
  ASSUME RowsInv, NEW w \in Workers, run[w].pc # "idle", NEW cp, Save(w, cp)
  PROVE  JobKept
<1>. DEFINE old == job[run[w].job]
<1>1. job \in [Jobs -> JobRow] /\ run[w].job \in Jobs /\ old \in JobRow /\ old.status # "ABSENT"
  BY RowFacts DEF RowsInv, RowTypes
<1>2. job' = [job EXCEPT ![run[w].job] = [old EXCEPT !.cp = cp]]
  BY <1>1 DEF Save
<1>3. [old EXCEPT !.cp = cp].status = old.status /\ [old EXCEPT !.cp = cp].op = old.op
      /\ [old EXCEPT !.cp = cp].existing = old.existing
  <2>. HIDE DEF old
  <2>. QED BY <1>1 DEF JobRow
<1>. QED BY <1>1, <1>2, <1>3, FieldsKept

\* A claim keeps the job.
LEMMA ClaimKeepsJob ==
  ASSUME RowsInv, NEW w \in Workers, NEW j \in Jobs, Claim(w, j)
  PROVE  JobKept
<1>. DEFINE old == job[j]
            row == [old EXCEPT !.status = "RUNNING", !.attempts = old.attempts + 1]
<1>1. job \in [Jobs -> JobRow] /\ old \in JobRow
  BY RowFacts DEF RowsInv, RowTypes
<1>2. job' = [job EXCEPT ![j] = row]
  BY <1>1 DEF Claim
<1>3. row.status = "RUNNING" /\ row.op = old.op /\ row.existing = old.existing
  <2>. HIDE DEF old
  <2>. QED BY <1>1 DEF JobRow
<1>. HIDE DEF row
<1>. QED BY <1>1, <1>2, <1>3, FieldsKept

\* The begin of a run keeps the job.
LEMMA BeginKeepsJob ==
  ASSUME RowsInv, NEW w \in Workers, Begin(w)
  PROVE  JobKept
<1>. DEFINE j == run[w].job
            old == job[j]
            row == [old EXCEPT !.step = "later"]
<1>1. job \in [Jobs -> JobRow] /\ j \in Jobs /\ old \in JobRow /\ old.status # "ABSENT"
  BY RowFacts DEF RowsInv, RowTypes, Begin
<1>2. job' = [job EXCEPT ![j] = row] \/ job' = job
  BY <1>1 DEF Begin
<1>3. row.status = old.status /\ row.op = old.op /\ row.existing = old.existing
  <2>. HIDE DEF old
  <2>. QED BY <1>1 DEF JobRow
<1>. HIDE DEF row
<1>. QED BY <1>1, <1>2, <1>3, FieldsKept DEF JobKept

\* The end of a run keeps the job.
LEMMA EndsKeepJob ==
  ASSUME RowsInv, NEW w \in Workers, Succeed(w) \/ Defer(w) \/ Fail(w)
  PROVE  JobKept
<1>. DEFINE j == run[w].job
            old == job[j]
            n == IF old.attempts = 0 THEN 0 ELSE old.attempts - 1
            final == run[w].outcome = "final" \/ job[j].attempts >= MaxJobAttempts(job[j].op)
            s == IF old.step = "queued" THEN "refused" ELSE old.step
            t == IF final THEN "FAILED" ELSE "RETRY"
            done == [old EXCEPT !.status = "SUCCEEDED", !.step = "later", !.cp = NoCheckpoint]
            deferred == [old EXCEPT !.status = "RETRY", !.attempts = n]
            failed == [old EXCEPT !.status = t, !.step = s]
<1>1. job \in [Jobs -> JobRow] /\ j \in Jobs /\ old \in JobRow
  BY RowFacts DEF RowsInv, RowTypes, Succeed, Defer, Fail
<1>2. Succeed(w) => job' = [job EXCEPT ![j] = done]
  BY <1>1 DEF Succeed
<1>3. Defer(w) => job' = [job EXCEPT ![j] = deferred] \/ job' = job
  BY <1>1 DEF Defer
<1>4. Fail(w) => job' = [job EXCEPT ![j] = failed] \/ job' = job
  BY <1>1 DEF Fail
<1>5. t # "ABSENT"
  OBVIOUS
<1>. HIDE DEF n, s, t
<1>6. /\ done.status # "ABSENT" /\ done.op = old.op /\ done.existing = old.existing
      /\ deferred.status # "ABSENT" /\ deferred.op = old.op /\ deferred.existing = old.existing
      /\ failed.status # "ABSENT" /\ failed.op = old.op /\ failed.existing = old.existing
  <2>. HIDE DEF old
  <2>. QED BY <1>1, <1>5 DEF JobRow
<1>. HIDE DEF done, deferred, failed
<1>7. CASE job' = job
  BY <1>7 DEF JobKept
<1>. QED BY <1>1, <1>2, <1>3, <1>4, <1>6, <1>7, FieldsKept

\* So does every step of a run, ...
LEMMA StepKeepsJob ==
  ASSUME RowsInv, NEW w \in Workers, Step(w)
  PROVE  JobKept
<1>1. CASE Begin(w)
  BY <1>1, BeginKeepsJob
<1>2. CASE Succeed(w) \/ Defer(w) \/ Fail(w)
  BY <1>2, EndsKeepJob
<1>3. CASE UNCHANGED job
  BY <1>3 DEF JobKept
<1>4. CASE \E cp : run[w].pc # "idle" /\ Save(w, cp)
  BY <1>4, SaveKeepsJob
<1>5. ContractFails(w) \/ Repair(w) \/ CommitCreate(w) \/ CommitAppend(w) \/ MarkFailed(w)
        => UNCHANGED job
  BY DEF ContractFails, Repair, CommitCreate, CommitAppend, MarkFailed
<1>6. Attempt(w) \/ Accept(w) => \E cp : run[w].pc # "idle" /\ Save(w, cp)
  BY DEF Attempt, Accept
<1>7. Reply(w) => (\E cp : run[w].pc # "idle" /\ Save(w, cp)) \/ UNCHANGED job
  BY DEF Reply
<1>8. (\E retryable \in BOOLEAN : CallFails(w, retryable)) \/ Reject(w) \/ GiveUpCitations(w)
        => \E cp : run[w].pc # "idle" /\ Save(w, cp)
  BY DEF CallFails, Reject, GiveUpCitations, FailBatch
<1>. QED BY <1>1, <1>2, <1>3, <1>4, <1>5, <1>6, <1>7, <1>8 DEF Step

\* ... whatever people do, ...
LEMMA PersonKeepsJob ==
  ASSUME RowsInv, Person
  PROVE  JobKept
<1>1. job \in [Jobs -> JobRow]
  BY DEF RowsInv, RowTypes
<1>2. CASE Reindex \/ Publish \/ Edit \/ Delete
  BY <1>2 DEF Reindex, Publish, Edit, Delete, JobKept
<1>3. CASE AppendGeneration \/ Retry
  <2>1. PICK op, existing : job' = [job EXCEPT ![2] = NewJob(op, existing)]
    BY <1>3 DEF AppendGeneration, Retry
  <2>. DEFINE row == NewJob(op, existing)
  <2>2. row.status # "ABSENT" /\ job' = [job EXCEPT ![2] = row]
    BY <2>1 DEF NewJob
  <2>3. 2 \in Jobs /\ job[2].status = "ABSENT"
    BY <1>3 DEF AppendGeneration, Retry, Jobs
  <2>. HIDE DEF row
  <2>. QED BY <1>1, <2>2, <2>3, FieldsKept
<1>4. CASE RetryLast
  <2>. DEFINE j == Latest
              old == job[j]
              row == [old EXCEPT !.status = "RETRY", !.attempts = 0, !.step = "queued",
                                 !.cancelled = FALSE]
  <2>1. j \in Jobs
    BY DEF Latest, Jobs
  <2>2. old \in JobRow /\ job' = [job EXCEPT ![j] = row]
    BY <1>1, <1>4, <2>1 DEF RetryLast
  <2>3. row.status # "ABSENT" /\ row.op = old.op /\ row.existing = old.existing
    <3>. HIDE DEF old
    <3>. QED BY <2>2 DEF JobRow
  <2>. HIDE DEF row, j
  <2>. QED BY <1>1, <2>1, <2>2, <2>3, FieldsKept
<1>5. ASSUME NEW j \in Jobs, AdminRetry(j) \/ AdminCancel(j)
      PROVE  JobKept
  <2>. DEFINE old == job[j]
              s == IF old.step = "refused" THEN "queued" ELSE old.step
              t == IF old.step = "queued" THEN "refused" ELSE old.step
              again == [old EXCEPT !.status = "RETRY", !.cancelled = FALSE, !.step = s]
              ended == [old EXCEPT !.status = "FAILED", !.cancelled = TRUE, !.step = t]
  <2>1. old \in JobRow /\ (job' = [job EXCEPT ![j] = again] \/ job' = [job EXCEPT ![j] = ended])
    BY <1>1, <1>5 DEF AdminRetry, AdminCancel
  <2>. HIDE DEF s, t
  <2>2. /\ again.status # "ABSENT" /\ again.op = old.op /\ again.existing = old.existing
        /\ ended.status # "ABSENT" /\ ended.op = old.op /\ ended.existing = old.existing
    <3>. HIDE DEF old
    <3>. QED BY <2>1 DEF JobRow
  <2>. HIDE DEF again, ended
  <2>. QED BY <1>1, <2>1, <2>2, FieldsKept
<1>. QED BY <1>2, <1>3, <1>4, <1>5 DEF Person

\* ... and every step of the system.
LEMMA NextKeepsJob ==
  ASSUME RowsInv, Next
  PROVE  JobKept
<1>1. job \in [Jobs -> JobRow]
  BY DEF RowsInv, RowTypes
<1>2. ASSUME NEW j \in Jobs, Reclaim(j)
      PROVE  JobKept
  <2>. DEFINE old == job[j]
              row == [old EXCEPT !.status = "RETRY"]
  <2>1. old \in JobRow /\ job' = [job EXCEPT ![j] = row]
    BY <1>1, <1>2 DEF Reclaim
  <2>2. row.status # "ABSENT" /\ row.op = old.op /\ row.existing = old.existing
    <3>. HIDE DEF old
    <3>. QED BY <2>1 DEF JobRow
  <2>. HIDE DEF row
  <2>. QED BY <1>1, <2>1, <2>2, FieldsKept
<1>3. ASSUME NEW w \in Workers, Crash(w)
      PROVE  JobKept
  BY <1>3 DEF Crash, JobKept
<1>. QED BY <1>2, <1>3, StepKeepsJob, ClaimKeepsJob, PersonKeepsJob DEF Next

-----------------------------------------------------------------------------
(* What the quiz holds, step by step.                                       *)

Statuses == {"QUEUED", "GENERATING", "READY", "PUBLISHED", "FAILED", "ARCHIVED"}

\* What the invariant says of the quiz row.
LEMMA QuizFacts ==
  ASSUME ContentInv
  PROVE  /\ quiz \in QuizRow /\ quiz.content \in Seq(Entry) /\ quiz.warned \in BOOLEAN
         /\ quiz.status \in Statuses /\ quiz.based \subseteq {2}
         /\ quiz.status \in Settled => quiz.content # <<>>
  BY DEF ContentInv, ContentFits, QuizRow, Entry, Statuses

\* The questions stay, and nothing becomes settled without any.
Touched ==
  /\ quiz' \in QuizRow /\ quiz'.content = quiz.content /\ quiz'.warned = quiz.warned
  /\ quiz'.based \subseteq quiz.based
  /\ quiz'.status \in Settled => quiz.content # <<>>

\* A quiz that is only touched holds what it held.
LEMMA TouchedKeeps ==
  ASSUME QuizInv, RowsKept, JobKept, Touched
  PROVE  ContentInv'
<1>. DEFINE C == quiz.content
<1>1. /\ job[1].op = "CREATE" /\ job'[1].op = "CREATE"
      /\ 1 \in Jobs /\ 2 \in Jobs
  BY DEF QuizInv, RowsInv, JobsFit, RowsKept, Jobs
<1>2. Written(1)' = Written(1)
  BY <1>1 DEF Written, SlotsOf
<1>3. job[2].status # "ABSENT" => Written(2)' = Written(2)
  BY <1>1 DEF Written, SlotsOf, JobKept
<1>4. ContentFits
  BY DEF QuizInv, ContentInv
<1>5. quiz'.content = C /\ quiz'.warned = quiz.warned
  BY DEF Touched
<1>6. /\ Keys(C) \in {<<>>, Written(1), Written(2), Written(1) \o Written(2)}
      /\ \A i \in DOMAIN C : C[i].question.sound /\ C[i].question.cites # "split"
      /\ job[2].status = "ABSENT" => Keys(C) \in {<<>>, Written(1)}
  BY <1>4 DEF ContentFits, WholePlans, Keys
<1>7. Keys(C) \in {<<>>, Written(1), Written(2)', Written(1) \o Written(2)'}
  BY <1>3, <1>6
<1>8. WholePlans'
  <2>1. [i \in DOMAIN quiz'.content |-> <<quiz'.content[i].job, quiz'.content[i].question.slot>>] = Keys(C)
    BY <1>5 DEF Keys
  <2>. QED BY <1>2, <1>5, <1>6, <1>7, <2>1 DEF WholePlans
<1>9. FlawsAreFlagged'
  BY <1>4, <1>5 DEF ContentFits, FlawsAreFlagged
<1>10. job'[2].status = "ABSENT" => Keys(quiz'.content) \in {<<>>, Written(1)'}
  BY <1>1, <1>2, <1>5, <1>6 DEF JobKept
<1>11. 2 \in quiz'.based => /\ job'[2].op = "APPEND" /\ job'[2].status # "ABSENT"
                            /\ Keys(quiz'.content) = Written(1)'
                            /\ job'[2].existing = PromptsOf(quiz'.content)
  BY <1>1, <1>2, <1>4, <1>5 DEF ContentFits, Touched, JobKept
<1>12. quiz'.based \subseteq {2} /\ (quiz'.status \in Settled => quiz'.content # <<>>)
  BY <1>4, <1>5 DEF ContentFits, Touched
<1>13. ContentFits'
  BY <1>8, <1>9, <1>10, <1>11, <1>12 DEF ContentFits, Keys, PromptsOf
<1>. QED BY <1>13 DEF ContentInv, Touched

\* Changed, with or without another status.
LEMMA ChangedRow ==
  ASSUME NEW q \in QuizRow, NEW s \in Statuses
  PROVE  /\ Changed([q EXCEPT !.status = s]) \in QuizRow
         /\ Changed([q EXCEPT !.status = s]).content = q.content
         /\ Changed([q EXCEPT !.status = s]).warned = q.warned
         /\ Changed([q EXCEPT !.status = s]).based = {}
         /\ Changed([q EXCEPT !.status = s]).status = s
         /\ Changed(q) \in QuizRow /\ Changed(q).content = q.content
         /\ Changed(q).warned = q.warned /\ Changed(q).based = {} /\ Changed(q).status = q.status
  BY DEF QuizRow, Statuses, Changed

\* The quiz as it was, or only aged, or with another status.
LEMMA TouchedBy ==
  ASSUME ContentInv, NEW s \in Statuses, s \in Settled => quiz.content # <<>>,
         \/ quiz' = quiz \/ quiz' = Changed(quiz)
         \/ quiz' = Changed([quiz EXCEPT !.status = s])
  PROVE  Touched
<1>1. /\ quiz \in QuizRow
      /\ quiz.status \in Settled => quiz.content # <<>>
  BY QuizFacts
<1>2. CASE quiz' = quiz
  BY <1>1, <1>2 DEF Touched
<1>3. CASE quiz' = Changed(quiz)
  BY <1>1, <1>3, ChangedRow DEF Touched
<1>4. CASE quiz' = Changed([quiz EXCEPT !.status = s])
  BY <1>1, <1>4, ChangedRow DEF Touched
<1>. QED BY <1>2, <1>3, <1>4

\* replaceGroundedAndComplete: one plan, and its warning.
LEMMA ReplacingKeeps ==
  ASSUME QuizInv, RowsKept, NEW w \in Workers, run[w].pc = "commit", job' = job,
         quiz' = [status |-> "READY", content |-> Aggregate(w),
                  warned |-> AggregateWarned(w), based |-> {}],
         Op(w) # "APPEND"
  PROVE  ContentInv'
<1>. DEFINE A == Aggregate(w)
            aw == AggregateWarned(w)
<1>1. RowsInv /\ run[w].job \in Jobs /\ job[run[w].job].status # "ABSENT"
  BY RowFacts DEF QuizInv
<1>2. /\ A \in Seq(Entry) /\ A # <<>> /\ aw \in BOOLEAN
      /\ Keys(A) = Written(run[w].job)
      /\ \A i \in DOMAIN A :
           /\ A[i].question.sound /\ A[i].question.cites # "split"
           /\ ~aw => A[i].question.fits /\ A[i].question.cites # "missing"
      /\ ~aw => \A i, k \in DOMAIN A : i # k => A[i].question.prompt # A[k].question.prompt
  BY <1>1, Aggregated
<1>. HIDE DEF A, aw
<1>3. quiz' = [status |-> "READY", content |-> A, warned |-> aw, based |-> {}]
  BY DEF A, aw
<1>4. quiz'.content = A /\ quiz'.warned = aw /\ quiz'.based = {} /\ quiz'.status = "READY"
  BY <1>3
<1>5. quiz' \in QuizRow
  BY <1>2, <1>3 DEF QuizRow, Entry
<1>6. Written(1)' = Written(1) /\ Written(2)' = Written(2)
  BY DEF Written, SlotsOf
<1>7. Keys(A) \in {Written(1), Written(2)} /\ (job[2].status = "ABSENT" => Keys(A) = Written(1))
  BY <1>1, <1>2 DEF Jobs
<1>8. WholePlans'
  <2>1. [i \in DOMAIN quiz'.content |-> <<quiz'.content[i].job, quiz'.content[i].question.slot>>] = Keys(A)
    BY <1>4 DEF Keys
  <2>. QED BY <1>2, <1>4, <1>6, <1>7, <2>1 DEF WholePlans
<1>9. FlawsAreFlagged'
  BY <1>2, <1>4 DEF FlawsAreFlagged
<1>10. ContentFits'
  BY <1>2, <1>4, <1>6, <1>7, <1>8, <1>9 DEF ContentFits, Keys
<1>. QED BY <1>5, <1>10 DEF ContentInv

\* The slots of two lists of questions, one behind the other.
LEMMA KeysConcat ==
  ASSUME NEW s \in Seq(Entry), NEW t \in Seq(Entry)
  PROVE  Keys(s \o t) = Keys(s) \o Keys(t)
<1>. DEFINE K == Jobs \X DOMAIN Drafts
<1>1. \A e \in Entry : <<e.job, e.question.slot>> \in K
  BY QuestionFacts DEF Entry, Question
<1>2. \A u \in Seq(Entry) : Keys(u) \in Seq(K) /\ Len(Keys(u)) = Len(u)
                            /\ \A i \in DOMAIN u : Keys(u)[i] = <<u[i].job, u[i].question.slot>>
  BY <1>1 DEF Keys
<1>. HIDE DEF K
<1>3. s \o t \in Seq(Entry) /\ Len(s \o t) = Len(s) + Len(t)
  BY ConcatFacts
<1>4. Len(s) \in Nat /\ Len(t) \in Nat
  OBVIOUS
<1>. DEFINE a == Keys(s)
            b == Keys(t)
            c == Keys(s \o t)
<1>5. /\ a \in Seq(K) /\ b \in Seq(K) /\ c \in Seq(K)
      /\ Len(a) = Len(s) /\ Len(b) = Len(t) /\ Len(c) = Len(s) + Len(t)
      /\ \A i \in DOMAIN s : a[i] = <<s[i].job, s[i].question.slot>>
      /\ \A i \in DOMAIN t : b[i] = <<t[i].job, t[i].question.slot>>
      /\ \A i \in DOMAIN (s \o t) : c[i] = <<(s \o t)[i].job, (s \o t)[i].question.slot>>
  BY <1>2, <1>3
<1>. HIDE DEF a, b, c
<1>6. a \o b \in Seq(K) /\ Len(a \o b) = Len(a) + Len(b)
  BY <1>5, ConcatFacts
<1>7. ASSUME NEW i \in 1 .. (Len(s) + Len(t))
      PROVE  c[i] = (a \o b)[i]
  <2>1. i \in DOMAIN (s \o t) /\ i \in DOMAIN (a \o b)
    BY <1>3, <1>4, <1>5, <1>6
  <2>2. CASE i \in DOMAIN s
    <3>1. i \in DOMAIN a
      BY <1>4, <1>5, <2>2
    <3>2. (s \o t)[i] = s[i] /\ (a \o b)[i] = a[i]
      BY <1>5, <2>2, <3>1, ConcatFacts
    <3>. QED BY <1>5, <2>1, <2>2, <3>2
  <2>3. CASE i \notin DOMAIN s
    <3>1. i \notin DOMAIN a
      BY <1>4, <1>5, <2>3
    <3>2. i - Len(s) \in DOMAIN t /\ (s \o t)[i] = t[i - Len(s)]
      BY <2>1, <2>3, ConcatFacts
    <3>3. i - Len(a) \in DOMAIN b /\ (a \o b)[i] = b[i - Len(a)]
      BY <1>5, <2>1, <3>1, ConcatFacts
    <3>. QED BY <1>5, <2>1, <3>2, <3>3
  <2>. QED BY <2>2, <2>3
<1>8. c = a \o b
  <2>1. Len(c) = Len(a \o b) /\ Len(c) = Len(s) + Len(t) /\ c \in Seq(K)
    BY <1>5, <1>6
  <2>. QED BY ONLY <2>1, <1>6, <1>7, SameSequence
<1>. QED BY <1>8 DEF a, b, c

\* appendGroundedAndComplete: the second plan behind the first.
LEMMA AppendingKeeps ==
  ASSUME QuizInv, RowsKept, NEW w \in Workers, run[w].pc = "commit", job' = job,
         quiz' = Changed([quiz EXCEPT !.content = @ \o Aggregate(w),
                                      !.warned = @ \/ AggregateWarned(w)]),
         run[w].job \in quiz.based
  PROVE  ContentInv'
<1>. DEFINE A == Aggregate(w)
            aw == AggregateWarned(w)
            C == quiz.content
<1>1. RowsInv /\ ContentInv /\ ContentFits /\ run[w].job = 2
  BY QuizFacts DEF QuizInv, ContentInv
<1>2. /\ A \in Seq(Entry) /\ A # <<>> /\ aw \in BOOLEAN
      /\ Keys(A) = Written(2)
      /\ \A i \in DOMAIN A :
           /\ A[i].question.sound /\ A[i].question.cites # "split"
           /\ ~aw => /\ A[i].question.fits /\ A[i].question.cites # "missing"
                     /\ A[i].question.prompt \notin job[2].existing
      /\ ~aw => \A i, k \in DOMAIN A : i # k => A[i].question.prompt # A[k].question.prompt
  BY <1>1, Aggregated
<1>3. /\ job[2].status # "ABSENT" /\ Keys(C) = Written(1) /\ job[2].existing = PromptsOf(C)
  BY <1>1 DEF ContentFits
<1>4. quiz \in QuizRow /\ C \in Seq(Entry) /\ quiz.warned \in BOOLEAN
      /\ (quiz.status \in Settled => C # <<>>)
  BY <1>1, QuizFacts
<1>. HIDE DEF A, aw
<1>. DEFINE old == quiz
            D == C \o A
            row == [old EXCEPT !.content = D, !.warned = (old.warned \/ aw), !.based = {}]
<1>5. D \in Seq(Entry) /\ Len(D) = Len(C) + Len(A)
      /\ \A i \in DOMAIN D : \/ i \in DOMAIN C /\ D[i] = C[i]
                             \/ i \notin DOMAIN C /\ i - Len(C) \in DOMAIN A /\ D[i] = A[i - Len(C)]
  BY <1>2, <1>4, ConcatFacts
<1>6. quiz' = row
  BY <1>4 DEF Changed, QuizRow, A, aw
<1>7. /\ row.content = D /\ row.warned = (old.warned \/ aw) /\ row.based = {}
      /\ row.status = old.status /\ row \in QuizRow
  <2>. HIDE DEF old, D
  <2>1. old \in QuizRow /\ D \in Seq([job : Jobs, question : AllQuestions])
    BY <1>4, <1>5 DEF old, Entry
  <2>. QED BY <2>1 DEF QuizRow
<1>. HIDE DEF row
<1>8. quiz'.content = D /\ quiz'.warned = (quiz.warned \/ aw) /\ quiz'.based = {}
      /\ quiz'.status = quiz.status /\ quiz' \in QuizRow
  BY <1>6, <1>7
<1>9. Written(1)' = Written(1) /\ Written(2)' = Written(2)
  BY DEF Written, SlotsOf
<1>10. Keys(D) = Written(1) \o Written(2)
  BY <1>2, <1>3, <1>4, KeysConcat
<1>11. WholePlans'
  <2>1. [i \in DOMAIN quiz'.content |-> <<quiz'.content[i].job, quiz'.content[i].question.slot>>] = Keys(D)
    BY <1>8 DEF Keys
  <2>2. \A i \in DOMAIN C : C[i].question.sound /\ C[i].question.cites # "split"
    BY <1>1 DEF ContentFits, WholePlans
  <2>3. \A i \in DOMAIN D : D[i].question.sound /\ D[i].question.cites # "split"
    <3>. HIDE DEF C, D
    <3>. QED BY <1>2, <1>5, <2>2
  <2>. QED BY <1>8, <1>9, <1>10, <2>1, <2>3 DEF WholePlans
<1>12. ASSUME ~quiz.warned, ~aw
       PROVE  /\ \A i \in DOMAIN D : D[i].question.cites # "missing" /\ D[i].question.fits
              /\ \A i, k \in DOMAIN D : i # k => D[i].question.prompt # D[k].question.prompt
  <2>1. /\ \A i \in DOMAIN C : C[i].question.cites # "missing" /\ C[i].question.fits
        /\ \A i, k \in DOMAIN C : i # k => C[i].question.prompt # C[k].question.prompt
    BY <1>1, <1>12 DEF ContentFits, FlawsAreFlagged
  <2>2. \A i \in DOMAIN C, k \in DOMAIN A : C[i].question.prompt # A[k].question.prompt
    BY <1>2, <1>3, <1>12 DEF PromptsOf
  <2>3. Len(C) \in Nat /\ DOMAIN D \subseteq Nat
    BY <1>4, <1>5
  <2>. HIDE DEF C, D
  <2>4. \A i \in DOMAIN D : D[i].question.cites # "missing" /\ D[i].question.fits
    BY <1>2, <1>5, <1>12, <2>1
  <2>5. ASSUME NEW i \in DOMAIN D, NEW k \in DOMAIN D, i # k
        PROVE  D[i].question.prompt # D[k].question.prompt
    <3>1. CASE i \in DOMAIN C /\ k \in DOMAIN C
      BY <1>5, <2>1, <2>5, <3>1
    <3>2. CASE i \in DOMAIN C /\ k \notin DOMAIN C
      BY <1>5, <2>2, <2>5, <3>2
    <3>3. CASE i \notin DOMAIN C /\ k \in DOMAIN C
      BY <1>5, <2>2, <2>5, <3>3
    <3>4. CASE i \notin DOMAIN C /\ k \notin DOMAIN C
      <4>1. i - Len(C) \in DOMAIN A /\ D[i] = A[i - Len(C)] /\ k - Len(C) \in DOMAIN A /\ D[k] = A[k - Len(C)]
        BY <1>5, <3>4
      <4>2. i - Len(C) # k - Len(C)
        BY <2>3, <2>5
      <4>. QED BY <1>2, <1>12, <4>1, <4>2
    <3>. QED BY <3>1, <3>2, <3>3, <3>4
  <2>. QED BY <2>4, <2>5
<1>13. FlawsAreFlagged'
  <2>0. quiz'.content = D /\ quiz'.warned = (quiz.warned \/ aw)
    BY <1>8
  <2>. HIDE DEF D
  <2>1. CASE quiz.warned \/ aw
    BY <2>0, <2>1 DEF FlawsAreFlagged
  <2>2. CASE ~quiz.warned /\ ~aw
    <3>1. /\ \A i \in DOMAIN D : D[i].question.cites # "missing" /\ D[i].question.fits
          /\ \A i, k \in DOMAIN D : i # k => D[i].question.prompt # D[k].question.prompt
      BY <1>12, <2>2
    <3>. QED BY ONLY <2>0, <3>1 DEF FlawsAreFlagged
  <2>. QED BY <2>1, <2>2
<1>14. quiz'.status \in Settled => quiz'.content # <<>>
  <2>1. Len(C) \in Nat /\ Len(A) \in Nat /\ Len(A) # 0
    BY <1>2, <1>4
  <2>2. D # <<>>
    <3>1. Len(D) # 0
      BY <1>5, <2>1
    <3>. QED BY <3>1
  <2>. QED BY <1>8, <2>2
<1>15. ContentFits'
  BY <1>3, <1>8, <1>11, <1>13, <1>14 DEF ContentFits
<1>. QED BY <1>8, <1>15 DEF ContentInv

\* A request for more is based on the quiz as it is.
LEMMA AskingKeeps ==
  ASSUME QuizInv, RowsKept, AppendGeneration
  PROVE  ContentInv'
<1>. DEFINE C == quiz.content
            existing == {quiz.content[i].question.prompt : i \in DOMAIN quiz.content}
<1>1. RowsInv /\ ContentInv /\ ContentFits
  BY DEF QuizInv, ContentInv
<1>2. quiz \in QuizRow /\ C # <<>> /\ C \in Seq(Entry)
  <2>1. quiz.status \in Settled
    BY <1>1, QuizFacts DEF AppendGeneration, Statuses, Settled
  <2>. QED BY <1>1, <2>1, QuizFacts
<1>3. /\ job[2].status = "ABSENT" /\ job' = [job EXCEPT ![2] = NewJob("APPEND", existing)]
      /\ quiz' = [quiz EXCEPT !.based = {2}]
  BY DEF AppendGeneration
<1>4. job \in [Jobs -> JobRow] /\ 1 \in Jobs /\ 2 \in Jobs
  BY <1>1 DEF RowsInv, RowTypes, Jobs
<1>5. job'[1] = job[1] /\ job'[2] = NewJob("APPEND", existing)
  BY <1>3, <1>4
<1>6. job'[2].op = "APPEND" /\ job'[2].existing = existing /\ job'[2].status = "QUEUED"
  BY <1>5 DEF NewJob
<1>7. /\ quiz'.content = C /\ quiz'.warned = quiz.warned /\ quiz'.based = {2}
      /\ quiz'.status = quiz.status /\ quiz' \in QuizRow
  BY <1>2, <1>3, <1>4 DEF QuizRow
<1>8. Written(1)' = Written(1)
  BY <1>5 DEF Written, SlotsOf
<1>9. Keys(C) # <<>>
  <2>1. Len(C) # 0 /\ DOMAIN Keys(C) = 1 .. Len(C) /\ Len(C) \in Nat
    BY <1>2 DEF Keys
  <2>. QED BY <2>1
<1>10. Keys(C) = Written(1)
  BY <1>1, <1>3, <1>9 DEF ContentFits
<1>11. WholePlans'
  <2>1. [i \in DOMAIN quiz'.content |-> <<quiz'.content[i].job, quiz'.content[i].question.slot>>] = Keys(C)
    BY <1>7 DEF Keys
  <2>2. \A i \in DOMAIN C : C[i].question.sound /\ C[i].question.cites # "split"
    BY <1>1 DEF ContentFits, WholePlans
  <2>. QED BY <1>7, <1>8, <1>10, <2>1, <2>2 DEF WholePlans
<1>12. FlawsAreFlagged'
  BY <1>1, <1>7 DEF ContentFits, FlawsAreFlagged
<1>13. PromptsOf(quiz'.content) = existing
  BY <1>7 DEF PromptsOf
<1>14. ContentFits'
  BY <1>2, <1>6, <1>7, <1>8, <1>10, <1>11, <1>12, <1>13 DEF ContentFits, Keys, PromptsOf
<1>. QED BY <1>7, <1>14 DEF ContentInv

\* Steps of a run that leave the quiz alone.
LEMMA QuietSteps ==
  ASSUME NEW w \in Workers,
         \/ Attempt(w) \/ ContractFails(w) \/ Reply(w)
         \/ \E retryable \in BOOLEAN : CallFails(w, retryable)
         \/ Accept(w) \/ Reject(w) \/ Repair(w) \/ GiveUpCitations(w)
         \/ Succeed(w) \/ Defer(w) \/ Fail(w) \/ Crash(w)
         \/ \E j \in Jobs : Claim(w, j)
  PROVE  quiz' = quiz
  BY DEF Attempt, ContractFails, Reply, CallFails, Accept, Reject, Repair, GiveUpCitations,
         Succeed, Defer, Fail, Crash, Claim

\* The quiz holds whole plans after every step.
LEMMA NextKeepsContent ==
  ASSUME QuizInv, RowsKept, Next
  PROVE  ContentInv'
<1>1. RowsInv /\ ContentInv
  BY DEF QuizInv
<1>2. JobKept
  BY <1>1, NextKeepsJob
<1>3. ASSUME NEW s \in Statuses, s \in Settled => quiz.content # <<>>,
             \/ quiz' = quiz \/ quiz' = Changed(quiz)
             \/ quiz' = Changed([quiz EXCEPT !.status = s])
      PROVE  ContentInv'
  BY <1>1, <1>2, <1>3, TouchedBy, TouchedKeeps
<1>4. ASSUME quiz' = quiz \/ quiz' = Changed(quiz)
      PROVE  ContentInv'
  <2>1. "QUEUED" \in Statuses /\ "QUEUED" \notin Settled
    BY DEF Statuses, Settled
  <2>. QED BY <1>3, <1>4, <2>1
<1>5. ASSUME NEW s \in {"QUEUED", "GENERATING", "FAILED", "ARCHIVED"},
             quiz' = Changed([quiz EXCEPT !.status = s])
      PROVE  ContentInv'
  <2>1. s \in Statuses /\ s \notin Settled
    BY DEF Statuses, Settled
  <2>. QED BY <1>3, <1>5, <2>1
<1>6. ASSUME NEW w \in Workers, Step(w)
      PROVE  ContentInv'
  <2>1. CASE Begin(w)
    BY <1>4, <1>5, <2>1 DEF Begin
  <2>2. CASE CommitCreate(w)
    <3>1. CASE quiz' = quiz
      BY <1>4, <3>1
    <3>2. CASE quiz' # quiz
      BY <2>2, <3>2, ReplacingKeeps DEF CommitCreate
    <3>. QED BY <3>1, <3>2
  <2>3. CASE CommitAppend(w)
    <3>1. CASE quiz' = quiz
      BY <1>4, <3>1
    <3>2. CASE quiz' # quiz
      BY <2>3, <3>2, AppendingKeeps DEF CommitAppend, BaseIsCurrent
    <3>. QED BY <3>1, <3>2
  <2>4. CASE MarkFailed(w)
    BY <1>4, <1>5, <2>4 DEF MarkFailed
  <2>. QED BY <1>4, <1>6, <2>1, <2>2, <2>3, <2>4, QuietSteps DEF Step
<1>7. ASSUME Person
      PROVE  ContentInv'
  <2>1. CASE Publish
    <3>1. quiz.content # <<>> /\ quiz' = Changed([quiz EXCEPT !.status = "PUBLISHED"])
      BY <2>1 DEF Publish
    <3>2. "PUBLISHED" \in Statuses
      BY DEF Statuses
    <3>. QED BY <1>3, <3>1, <3>2
  <2>2. CASE AppendGeneration
    BY <2>2, AskingKeeps
  <2>3. CASE Delete \/ Retry
    BY <1>5, <2>3 DEF Delete, Retry
  <2>4. CASE RetryLast
    BY <1>4, <1>5, <2>4 DEF RetryLast
  <2>5. CASE Reindex \/ Edit \/ \E j \in Jobs : AdminRetry(j) \/ AdminCancel(j)
    BY <1>4, <2>5 DEF Reindex, Edit, AdminRetry, AdminCancel
  <2>. QED BY <1>7, <2>1, <2>2, <2>3, <2>4, <2>5 DEF Person
<1>8. ASSUME NEW j \in Jobs, Reclaim(j)
      PROVE  ContentInv'
  BY <1>4, <1>8 DEF Reclaim
<1>9. ASSUME NEW w \in Workers, Crash(w) \/ \E j \in Jobs : Claim(w, j)
      PROVE  ContentInv'
  BY <1>4, <1>9, QuietSteps
<1>. QED BY <1>6, <1>7, <1>8, <1>9 DEF Next

-----------------------------------------------------------------------------
(* The invariant holds.                                                     *)

\* The first state: a quiz without questions, one job, no run.
LEMMA InitQuizInv == Init => QuizInv
<1>. SUFFICES ASSUME Init PROVE QuizInv
  OBVIOUS
<1>1. /\ quiz = [status |-> "QUEUED", content |-> <<>>, warned |-> FALSE, based |-> {}]
      /\ job = [j \in Jobs |-> IF j = 1 THEN NewJob("CREATE", {}) ELSE Absent]
      /\ run = [w \in Workers |-> Idle]
      /\ index = 0 /\ budget = [faults |-> MaxFaults, requests |-> MaxRequests]
      /\ spoiled = FALSE
  BY DEF Init
<1>2. "CREATE" \in Ops /\ 1 \in Jobs /\ 2 \in Jobs
  BY DEF Ops, Jobs
<1>. DEFINE first == NewJob("CREATE", {})
<1>3. /\ first \in JobRow /\ first.op = "CREATE" /\ first.cp = NoCheckpoint
      /\ first.attempts = 0 /\ first.status = "QUEUED" /\ first.existing = {}
  BY <1>2, NoCheckpointTyped DEF NewJob, JobRow, Active
<1>. HIDE DEF first
<1>4. Absent = [first EXCEPT !.status = "ABSENT"]
  BY DEF Absent, first
<1>5. /\ Absent \in JobRow /\ Absent.op = "CREATE" /\ Absent.cp = NoCheckpoint
      /\ Absent.attempts = 0 /\ Absent.status = "ABSENT"
  BY <1>3, <1>4 DEF JobRow
<1>6. job[1] = first /\ job[2] = Absent /\ job \in [Jobs -> JobRow]
      /\ \A j \in Jobs : job[j] = first \/ job[j] = Absent
  BY <1>1, <1>2, <1>3, <1>5 DEF first, Jobs
<1>7. RowTypes
  BY <1>1, <1>6, IdleTyped, PlanAssumption DEF RowTypes
<1>8. \A j \in Jobs : job[j].attempts = 0 /\ job[j].op \in Ops /\ job[j].cp = NoCheckpoint
  BY <1>2, <1>3, <1>5, <1>6
<1>9. \A w \in Workers : run[w].pc = "idle" /\ run[w].job = 0
  BY <1>1, IdleTyped
<1>10. JobsFit
  BY <1>3, <1>6, <1>8, <1>9, BoundFacts DEF JobsFit
<1>11. CheckpointsFit
  BY <1>8, <1>9 DEF CheckpointsFit, Good
<1>12. quiz \in QuizRow /\ quiz.content = <<>> /\ quiz.based = {} /\ quiz.status = "QUEUED"
  BY <1>1 DEF QuizRow
<1>13. ContentFits
  <2>1. [i \in DOMAIN quiz.content |-> <<quiz.content[i].job, quiz.content[i].question.slot>>] = <<>>
        /\ DOMAIN quiz.content = {}
    BY <1>12
  <2>2. WholePlans
    BY <2>1 DEF WholePlans
  <2>3. FlawsAreFlagged
    BY <2>1 DEF FlawsAreFlagged
  <2>. QED BY <1>12, <2>1, <2>2, <2>3 DEF ContentFits, Keys, Settled
<1>. QED BY <1>7, <1>10, <1>11, <1>12, <1>13 DEF QuizInv, RowsInv, ContentInv

\* The invariant is inductive.
LEMMA NextKeepsInv ==
  ASSUME QuizInv, Next
  PROVE  QuizInv'
<1>1. RowsInv'
  BY NextKeepsRows
<1>2. RowsKept
  BY <1>1 DEF RowsInv, RowTypes, RowsKept
<1>3. ContentInv'
  BY <1>2, NextKeepsContent
<1>. QED BY <1>1, <1>3 DEF QuizInv

\* Nothing happens.
LEMMA StutterKeepsInv ==
  ASSUME QuizInv, UNCHANGED vars
  PROVE  QuizInv'
<1>1. quiz' = quiz /\ job' = job /\ run' = run /\ index' = index /\ budget' = budget
      /\ spoiled' = spoiled
  BY DEF vars
<1>2. RowsInv'
  BY <1>1 DEF QuizInv, RowsInv, RowTypes, JobsFit, CheckpointsFit
<1>3. RowsKept /\ JobKept
  BY <1>1, <1>2 DEF RowsInv, RowTypes, RowsKept, JobKept
<1>4. Touched
  <2>1. "QUEUED" \in Statuses /\ "QUEUED" \notin Settled
    BY DEF Statuses, Settled
  <2>. QED BY <1>1, <2>1, TouchedBy DEF QuizInv
<1>. QED BY <1>2, <1>3, <1>4, TouchedKeeps DEF QuizInv

\* The invariant is enough for what is promised of the quiz.
LEMMA InvIsSound == QuizInv => QuizIsSound
<1>. SUFFICES ASSUME QuizInv PROVE QuizIsSound
  OBVIOUS
<1>1. RowsInv /\ ContentInv /\ ContentFits
  BY DEF QuizInv, ContentInv
<1>2. WholePlans /\ FlawsAreFlagged
  BY <1>1 DEF ContentFits
<1>3. /\ quiz.status \in {"QUEUED", "GENERATING", "READY", "PUBLISHED", "FAILED", "ARCHIVED"}
      /\ quiz.warned \in BOOLEAN /\ quiz.based \subseteq Jobs
  BY <1>1, QuizFacts DEF Statuses, Jobs
<1>4. \A i \in DOMAIN quiz.content : quiz.content[i].question \in AllQuestions
  <2>1. quiz.content \in Seq(Entry)
    BY <1>1, QuizFacts
  <2>2. \A e \in Entry : e.question \in AllQuestions
    BY DEF Entry
  <2>. QED BY <2>1, <2>2, ElementIn
<1>5. \A j \in Jobs :
        /\ job[j].status \in Active \union {"ABSENT", "SUCCEEDED", "FAILED"}
        /\ job[j].attempts \in 0..MaxJobAttempts(job[j].op)
        /\ job[j].step \in {"queued", "refused", "later"}
  <2>. TAKE j \in Jobs
  <2>1. job[j] \in JobRow /\ job[j].attempts \in Nat /\ job[j].op \in Ops
        /\ job[j].attempts <= MaxJobAttempts(job[j].op)
    BY <1>1, RowFacts
  <2>2. MaxJobAttempts(job[j].op) \in Nat
    BY <2>1, BoundFacts
  <2>3. job[j].attempts \in 0..MaxJobAttempts(job[j].op)
    BY <2>1, <2>2
  <2>. QED BY <2>1, <2>3 DEF JobRow
<1>6. \A w \in Workers : run[w].job \in Jobs \union {0} /\ run[w].outcome \in {"none", "retry", "final"}
  BY <1>1, RowFacts DEF RunRow
<1>7. \A cp \in Checkpoint : \A b \in DOMAIN cp.batches : Range(cp.batches[b].partial) \subseteq AllQuestions
  <2>. TAKE cp \in Checkpoint
  <2>. TAKE b \in DOMAIN cp.batches
  <2>1. cp.batches \in Seq(Batch)
    BY DEF Checkpoint
  <2>2. cp.batches[b] \in Batch
    BY <2>1, ElementIn
  <2>3. cp.batches[b].partial \in Seq(AllQuestions)
    BY <2>2 DEF Batch
  <2>. QED BY <2>3, ElementIn DEF Range
<1>8. Checkpoints \subseteq Checkpoint
  BY <1>1, RowFacts DEF Checkpoints
<1>9. spoiled \in BOOLEAN
  BY <1>1 DEF RowsInv, RowTypes
<1>10. TypeOK
  BY <1>3, <1>4, <1>5, <1>6, <1>7, <1>8, <1>9 DEF TypeOK
<1>. QED BY <1>2, <1>10 DEF QuizIsSound

\* The invariant, for any plan, drafts, prompts and workers: rows and runs have
\* their types, every checkpoint fits the plan of its job and its complete
\* batches passed the checks of rag-service, and the quiz holds the plans of
\* its jobs.
THEOREM QuizInvHolds == Spec => []QuizInv
<1>1. QuizInv /\ [Next]_vars => QuizInv'
  BY NextKeepsInv, StutterKeepsInv
<1>. QED BY <1>1, InitQuizInv, PTL DEF Spec

\* A quiz always holds whole plans of checked questions, and warns of every
\* flaw: no interleaving of runs, crashes, expired leases, retries and
\* requests appends a plan twice, leaves half of one or hides a flaw.
THEOREM QuizStaysSound == Spec => []QuizIsSound
  BY QuizInvHolds, InvIsSound, PTL

-----------------------------------------------------------------------------
(* One generation at a time: what is done stays done.                       *)

\* Of two runs that are live, neither is another.
LEMMA OneRun ==
  ASSUME ~Crossed, NEW v \in Workers, NEW w \in Workers, run[v].pc # "idle", run[w].pc # "idle"
  PROVE  v = w
<1>. DEFINE S == {u \in Workers : run[u].pc # "idle"}
<1>1. IsFiniteSet(S) /\ Cardinality(S) \in Nat
  <2>1. S \in SUBSET Workers /\ IsFiniteSet(Workers)
    BY PlanAssumption
  <2>. QED BY <2>1, FS_Subset, FS_CardinalityType
<1>2. ~(Cardinality(S) > 1)
  BY DEF Crossed
<1>3. v \in S /\ w \in S
  OBVIOUS
<1>. HIDE DEF S
<1>4. SUFFICES ASSUME v # w PROVE FALSE
  OBVIOUS
<1>5. IsFiniteSet({v}) /\ Cardinality({v}) = 1
  BY FS_Singleton
<1>6. IsFiniteSet({v} \cup {w}) /\ Cardinality({v} \cup {w}) = 2
  <2>1. /\ IsFiniteSet({v} \cup {w})
        /\ Cardinality({v} \cup {w}) = IF w \in {v} THEN Cardinality({v}) ELSE Cardinality({v}) + 1
    BY <1>5, FS_AddElement
  <2>2. w \notin {v}
    BY <1>4
  <2>. QED BY <1>5, <2>1, <2>2
<1>7. Cardinality({v} \cup {w}) <= Cardinality(S)
  <2>1. ({v} \cup {w}) \in SUBSET S
    BY <1>3
  <2>. QED BY <1>1, <2>1, FS_Subset
<1>. QED BY <1>1, <1>2, <1>6, <1>7

\* A step of a worker leaves the others alone, and a run keeps its job to its end.
OthersStay(w) == \A v \in Workers : v # w => run'[v] = run[v]

\* The other workers are left alone.
LEMMA StepOthers ==
  ASSUME RowsInv, NEW w \in Workers, Step(w) \/ Crash(w) \/ \E j \in Jobs : Claim(w, j)
  PROVE  OthersStay(w)
<1>1. run \in [Workers -> RunRow]
  BY DEF RowsInv, RowTypes
<1>2. \E r : run' = [run EXCEPT ![w] = r]
  <2>1. CASE Begin(w)
    BY <2>1 DEF Begin, Throw, Settling, GoTo
  <2>2. CASE Attempt(w)
    BY <1>1, <2>2 DEF Attempt, Throw, Settling, GoTo
  <2>3. CASE ContractFails(w) \/ Reply(w)
    BY <1>1, <2>3 DEF ContractFails, Reply, Throw, Settling, GoTo
  <2>4. CASE (\E retryable \in BOOLEAN : CallFails(w, retryable)) \/ Reject(w) \/ GiveUpCitations(w)
    BY <2>4 DEF CallFails, Reject, GiveUpCitations, FailBatch, Throw, Settling
  <2>5. CASE Accept(w) \/ Repair(w)
    BY <1>1, <2>5 DEF Accept, Repair, Settling
  <2>6. CASE CommitCreate(w) \/ CommitAppend(w) \/ MarkFailed(w)
    BY <1>1, <2>6 DEF CommitCreate, CommitAppend, MarkFailed, Throw, Settling, EndRun, GoTo
  <2>7. CASE Succeed(w) \/ Defer(w) \/ Fail(w) \/ Crash(w)
    BY <2>7 DEF Succeed, Defer, Fail, Crash, EndRun
  <2>8. CASE \E j \in Jobs : Claim(w, j)
    BY <2>8 DEF Claim
  <2>. QED BY <2>1, <2>2, <2>3, <2>4, <2>5, <2>6, <2>7, <2>8 DEF Step
<1>. QED BY <1>1, <1>2 DEF OthersStay

\* A run that settles its job keeps it.
LEMMA SettlingRow ==
  ASSUME run \in [Workers -> RunRow], NEW w \in Workers, NEW pc, NEW outcome, Settling(w, pc, outcome)
  PROVE  run'[w].pc = pc /\ run'[w].job = run[w].job
<1>1. run'[w] = [Idle EXCEPT !.pc = pc, !.job = run[w].job, !.attempts = run[w].attempts,
                             !.outcome = outcome]
  BY DEF Settling
<1>. QED BY <1>1 DEF Idle

\* A run that has ended is idle.
LEMMA EndedRow ==
  ASSUME run \in [Workers -> RunRow], NEW w \in Workers, EndRun(w)
  PROVE  run'[w].pc = "idle" /\ run'[w].job = 0
  BY IdleTyped DEF EndRun

\* A checkpoint carries what is done in the one before it.
Carries(cp, new) ==
  /\ new.print = cp.print
  /\ \A b \in DOMAIN cp.batches :
       cp.batches[b].done => b \in DOMAIN new.batches /\ new.batches[b] = cp.batches[b]

\* The functions of the checkpoint carry what is done: they touch a batch
\* that is not.
LEMMA OthersKept ==
  ASSUME NEW cp \in Checkpoint, NEW b \in Incomplete(cp), NEW questions, NEW result
  PROVE  /\ Carries(cp, cp) /\ Carries(cp, RecordAttempt(cp, b))
         /\ Carries(cp, Partial(cp, b, questions)) /\ Carries(cp, Complete(cp, b, result))
<1>. DEFINE bs == cp.batches
<1>1. bs \in Seq(Batch) /\ b \in DOMAIN bs /\ ~bs[b].done
  BY DEF Checkpoint, Incomplete
<1>2. ASSUME NEW x, NEW new, new = [cp EXCEPT !.batches = [bs EXCEPT ![b] = x]]
      PROVE  Carries(cp, new)
  <2>1. new.print = cp.print /\ new.batches = [bs EXCEPT ![b] = x]
    BY <1>2 DEF Checkpoint
  <2>2. DOMAIN new.batches = DOMAIN bs /\ \A c \in DOMAIN bs : c # b => new.batches[c] = bs[c]
    BY <1>1, <2>1
  <2>. QED BY <1>1, <2>1, <2>2 DEF Carries
<1>3. /\ \E x : RecordAttempt(cp, b) = [cp EXCEPT !.batches = [bs EXCEPT ![b] = x]]
      /\ \E x : Partial(cp, b, questions) = [cp EXCEPT !.batches = [bs EXCEPT ![b] = x]]
      /\ \E x : Complete(cp, b, result) = [cp EXCEPT !.batches = [bs EXCEPT ![b] = x]]
  <2>1. /\ cp \in Checkpoint /\ bs = cp.batches /\ b \in DOMAIN bs
        /\ \A x, y : [[bs EXCEPT ![b] = x] EXCEPT ![b] = y] = [bs EXCEPT ![b] = y]
    BY <1>1
  <2>2. \E x : RecordAttempt(cp, b) = [cp EXCEPT !.batches = [bs EXCEPT ![b] = x]]
    BY <2>1 DEF RecordAttempt
  <2>3. \E x : Partial(cp, b, questions) = [cp EXCEPT !.batches = [bs EXCEPT ![b] = x]]
    BY <2>1 DEF Partial
  <2>4. \E x : Complete(cp, b, result) = [cp EXCEPT !.batches = [bs EXCEPT ![b] = x]]
    <3>. DEFINE x == [bs[b] EXCEPT !.done = TRUE, !.result = result, !.partial = <<>>]
    <3>1. Complete(cp, b, result) = [cp EXCEPT !.batches = [bs EXCEPT ![b] = x]]
      BY <1>1 DEF Complete, Checkpoint
    <3>. HIDE DEF x
    <3>. QED BY ONLY <3>1
  <2>. QED BY ONLY <2>2, <2>3, <2>4
<1>4. Carries(cp, cp)
  BY DEF Carries
<1>. QED BY <1>2, <1>3, <1>4

\* What a run that goes on has in hand is what it saved, and what it saves
\* carries what was done in what it had.
Saved(w) ==
  \E cp : /\ Save(w, cp)
          /\ run[w].cp.print = index => Carries(run[w].cp, cp)
          /\ run'[w].pc \in Working => run'[w].cp = cp

\* A saved checkpoint is in the row of its job, and in no other.
LEMMA SaveRow ==
  ASSUME RowsInv, NEW w \in Workers, run[w].pc # "idle", NEW cp, Save(w, cp)
  PROVE  /\ job'[run[w].job].cp = cp
         /\ \A j \in Jobs : j # run[w].job => job'[j] = job[j]
<1>. DEFINE j == run[w].job
            old == job[j]
<1>1. job \in [Jobs -> JobRow] /\ j \in Jobs /\ old \in JobRow
  BY RowFacts DEF RowsInv, RowTypes
<1>2. job' = [job EXCEPT ![j] = [old EXCEPT !.cp = cp]]
  BY <1>1 DEF Save
<1>3. [old EXCEPT !.cp = cp].cp = cp
  <2>. HIDE DEF old
  <2>. QED BY <1>1 DEF JobRow
<1>. HIDE DEF old
<1>. QED BY <1>1, <1>2, <1>3

\* Attempt: a checkpoint of the sources as they are is carried on.
LEMMA AttemptSaves ==
  ASSUME RowsInv, NEW w \in Workers, Attempt(w)
  PROVE  run[w].pc = "attempt" /\ run'[w].job = run[w].job /\ Saved(w)
<1>. DEFINE op == job[run[w].job].op
            existing == job[run[w].job].existing
            cp == OpenCheckpoint(w)
            b == NextIncomplete(cp)
            cur == run[w]
<1>1. cur.pc = "attempt" /\ cur.pc # "idle"
  BY DEF Attempt
<1>2. Fits(cp, op, existing) /\ op \in Ops /\ cur \in RunRow /\ run \in [Workers -> RunRow]
      /\ cp \in Checkpoint /\ Good(cur.cp, op, existing) /\ cur.cp \in Checkpoint
  BY <1>1, OpenedFits, RowFacts DEF RowsInv, RowTypes, Fits, RunFits
<1>3. cur.cp.print = index => Carries(cur.cp, cp)
  <2>1. CASE cur.cp.print = index /\ cur.cp # NoCheckpoint
    <3>1. cp = cur.cp \/ cp = ResetIncomplete(cur.cp)
      BY <2>1 DEF OpenCheckpoint, ReadCheckpoint
    <3>2. Fits(cur.cp, op, existing)
      BY <1>2, <2>1 DEF Good
    <3>. DEFINE old == cur.cp
    <3>. HIDE DEF cp, cur, op, existing
    <3>3. Carries(cur.cp, ResetIncomplete(cur.cp))
      <4>1. Fits(old, op, existing)
        BY <3>2
      <4>. HIDE DEF old
      <4>2. /\ ResetIncomplete(old).print = old.print
            /\ DOMAIN ResetIncomplete(old).batches = DOMAIN old.batches
            /\ \A c \in DOMAIN old.batches :
                 old.batches[c].done => ResetIncomplete(old).batches[c] = old.batches[c]
        BY <1>2, <4>1, ResetFits
      <4>3. Carries(old, ResetIncomplete(old))
        BY <4>2 DEF Carries
      <4>. QED BY <4>3 DEF old
    <3>4. Carries(cur.cp, cur.cp)
      BY DEF Carries
    <3>. QED BY <3>1, <3>3, <3>4
  <2>2. CASE cur.cp = NoCheckpoint
    <3>1. cur.cp.print = -1 /\ index \in Nat
      BY <2>2, RowFacts DEF NoCheckpoint
    <3>. QED BY <3>1
  <2>. QED BY <2>1, <2>2
<1>. HIDE DEF cp
<1>4. CASE b = 0
  <2>. DEFINE r == [cur EXCEPT !.pc = "commit", !.cp = cp, !.step = "later"]
  <2>1. Save(w, cp) /\ run' = [run EXCEPT ![w] = r]
    BY <1>2, <1>4 DEF Attempt, cp
  <2>2. r.job = cur.job /\ r.cp = cp
    <3>. HIDE DEF cur
    <3>. QED BY <1>2 DEF RunRow
  <2>. HIDE DEF r
  <2>3. run'[w] = r
    BY <1>2, <2>1
  <2>. QED BY <1>1, <1>3, <2>1, <2>2, <2>3 DEF Saved
<1>5. CASE b # 0
  <2>. DEFINE new == RecordAttempt(cp, b)
              r == [cur EXCEPT !.pc = "call", !.batch = b, !.step = "later", !.cp = new]
  <2>1. Save(w, new) /\ run' = [run EXCEPT ![w] = r]
    BY <1>2, <1>5 DEF Attempt, cp
  <2>2. b \in Incomplete(cp)
    BY <1>2, <1>5, NextIncompleteIn
  <2>3. Carries(cp, new)
    BY <1>2, <2>2, OthersKept
  <2>. HIDE DEF b, new
  <2>4. r.job = cur.job /\ r.cp = new
    <3>. HIDE DEF cur
    <3>. QED BY <1>2 DEF RunRow
  <2>. HIDE DEF r
  <2>5. run'[w] = r
    BY <1>2, <2>1
  <2>6. cur.cp.print = index => Carries(cur.cp, new)
    BY <1>3, <2>3 DEF Carries
  <2>. QED BY <1>1, <2>1, <2>4, <2>5, <2>6 DEF Saved
<1>. QED BY <1>4, <1>5

\* Reply saves a partial answer, or nothing.
LEMMA ReplySaves ==
  ASSUME RowsInv, NEW w \in Workers, Reply(w)
  PROVE  /\ run[w].pc = "call" /\ run'[w].job = run[w].job
         /\ \/ Saved(w)
            \/ job' = job /\ run'[w].cp = run[w].cp
<1>. DEFINE cur == run[w]
            accepted == cur.cp.batches[cur.batch].partial
            missing == MissingSlots(BatchPlan(w), accepted)
<1>1. PICK reply \in Replies(missing) :
        LET output == accepted \o reply
            cp == IF missing = {} THEN cur.cp ELSE Partial(cur.cp, cur.batch, output)
        IN  /\ run' = [run EXCEPT ![w].pc = "check", ![w].output = output, ![w].cp = cp]
            /\ IF missing = {} THEN UNCHANGED job ELSE Save(w, cp)
  BY DEF Reply
<1>. DEFINE output == accepted \o reply
            cp == IF missing = {} THEN cur.cp ELSE Partial(cur.cp, cur.batch, output)
            r == [cur EXCEPT !.pc = "check", !.output = output, !.cp = cp]
<1>2. cur.pc = "call"
  BY DEF Reply
<1>3. /\ cur.batch \in Incomplete(cur.cp) /\ cur.cp \in Checkpoint
      /\ cur \in RunRow /\ run \in [Workers -> RunRow]
  BY <1>2, AtModel, RowFacts DEF RowsInv, RowTypes
<1>4. run' = [run EXCEPT ![w] = r] /\ IF missing = {} THEN UNCHANGED job ELSE Save(w, cp)
  BY <1>1, <1>3
<1>. HIDE DEF missing, output
<1>5. Carries(cur.cp, cp) /\ (missing = {} => cp = cur.cp)
  BY <1>3, OthersKept
<1>. HIDE DEF cp
<1>6. r.job = cur.job /\ r.cp = cp
  <2>. HIDE DEF cur
  <2>. QED BY <1>3 DEF RunRow
<1>. HIDE DEF r
<1>7. run'[w] = r
  BY <1>3, <1>4
<1>. QED BY <1>2, <1>4, <1>5, <1>6, <1>7 DEF Saved

\* Accept saves the complete batch.
LEMMA AcceptSaves ==
  ASSUME RowsInv, NEW w \in Workers, Accept(w)
  PROVE  run[w].pc = "check" /\ run'[w].job = run[w].job /\ Saved(w)
<1>. DEFINE cur == run[w]
            cp == Complete(cur.cp, cur.batch, Result(cur.output, BatchPlan(w), Excluded(w)))
            r == [cur EXCEPT !.pc = "commit", !.cp = cp, !.output = <<>>, !.repaired = FALSE,
                             !.batch = 0]
<1>1. cur.pc = "check" /\ Save(w, cp)
  BY DEF Accept
<1>2. /\ cur.batch \in Incomplete(cur.cp) /\ cur.cp \in Checkpoint
      /\ cur \in RunRow /\ run \in [Workers -> RunRow]
  BY <1>1, AtModel, RowFacts DEF RowsInv, RowTypes
<1>3. Settling(w, "defer", "none") \/ run' = [run EXCEPT ![w] = r]
  BY <1>2 DEF Accept
<1>4. Carries(cur.cp, cp)
  BY <1>2, OthersKept
<1>. HIDE DEF cp
<1>5. r.job = cur.job /\ r.cp = cp
  <2>. HIDE DEF cur
  <2>. QED BY <1>2 DEF RunRow
<1>. HIDE DEF r
<1>6. CASE Settling(w, "defer", "none")
  BY <1>1, <1>2, <1>4, <1>6, SettlingRow DEF Saved, Working
<1>7. CASE run' = [run EXCEPT ![w] = r]
  <2>1. run'[w] = r
    BY <1>2, <1>7
  <2>. QED BY <1>1, <1>4, <1>5, <2>1 DEF Saved
<1>. QED BY <1>3, <1>6, <1>7

\* A failed batch is saved, too.
LEMMA FailBatchSaves ==
  ASSUME RowsInv, NEW w \in Workers, run[w].pc \in {"call", "check"},
         NEW cp, Carries(run[w].cp, cp), NEW retryable, FailBatch(w, cp, retryable)
  PROVE  run'[w].job = run[w].job /\ run'[w].pc = "failing" /\ Saved(w)
<1>1. run \in [Workers -> RunRow]
  BY DEF RowsInv, RowTypes
<1>2. Save(w, cp) /\ \E outcome : Settling(w, "failing", outcome)
  BY DEF FailBatch, Throw
<1>3. run'[w].pc = "failing" /\ run'[w].job = run[w].job
  BY <1>1, <1>2, SettlingRow
<1>. QED BY <1>2, <1>3 DEF Saved, Working

\* One step of a run, on its checkpoint and on that of its job.
StepSaves(w) ==
  /\ run[w].pc # "idle"
  /\ run'[w].pc # "idle" => run'[w].job = run[w].job
  /\ \/ run[w].pc \in Working /\ Saved(w)
     \/ /\ \A j \in Jobs : job'[j].cp = job[j].cp
        /\ run'[w].pc \in Working => run[w].pc \in Working /\ run'[w].cp = run[w].cp
     \/ /\ run'[w].pc = "idle" /\ job'[run[w].job].status = "SUCCEEDED"
        /\ \A j \in Jobs : j # run[w].job => job'[j] = job[j]

\* Every step of a run: it saves, or leaves all checkpoints alone, or ends
\* its job.
LEMMA StepSavesIt ==
  ASSUME RowsInv, NEW w \in Workers, Step(w)
  PROVE  StepSaves(w)
<1>. DEFINE cur == run[w]
            j == cur.job
            old == job[j]
<1>0. run \in [Workers -> RunRow] /\ cur \in RunRow /\ job \in [Jobs -> JobRow]
  BY RowFacts DEF RowsInv, RowTypes
<1>1. CASE Begin(w)
  <2>1. cur.pc = "begin" /\ j \in Jobs /\ old \in JobRow
    BY <1>1, RowFacts DEF Begin
  <2>2. CASE Throw(w, "retry") /\ UNCHANGED job
    BY <1>0, <2>1, <2>2, SettlingRow DEF Throw, StepSaves, Working
  <2>3. CASE job' = [job EXCEPT ![run[w].job].step = "later"] /\ GoTo(w, "attempt")
    <3>. DEFINE row == [old EXCEPT !.step = "later"]
                r == [cur EXCEPT !.pc = "attempt"]
    <3>1. job' = [job EXCEPT ![j] = row] /\ run' = [run EXCEPT ![w] = r]
      BY <1>0, <2>3 DEF GoTo
    <3>2. row.cp = old.cp /\ r.job = cur.job /\ r.cp = cur.cp
      <4>. HIDE DEF old, cur
      <4>. QED BY <1>0, <2>1 DEF JobRow, RunRow
    <3>. HIDE DEF row, r
    <3>3. job'[j] = row /\ (\A i \in Jobs : i # j => job'[i] = job[i]) /\ run'[w] = r
      BY <1>0, <2>1, <3>1
    <3>. QED BY <2>1, <3>2, <3>3 DEF StepSaves, Working
  <2>. QED BY <1>1, <2>2, <2>3 DEF Begin
<1>2. CASE Attempt(w)
  BY <1>2, AttemptSaves DEF StepSaves, Working
<1>3. CASE ContractFails(w)
  BY <1>0, <1>3, SettlingRow DEF ContractFails, Throw, StepSaves, Working
<1>4. CASE Reply(w)
  BY <1>4, ReplySaves DEF StepSaves, Working
<1>5. CASE (\E retryable \in BOOLEAN : CallFails(w, retryable)) \/ Reject(w) \/ GiveUpCitations(w)
  <2>1. /\ cur.pc \in {"call", "check"}
        /\ \E questions, retryable : \/ FailBatch(w, cur.cp, retryable)
                                     \/ FailBatch(w, Partial(cur.cp, cur.batch, questions), retryable)
    BY <1>5 DEF CallFails, Reject, GiveUpCitations
  <2>2. cur.batch \in Incomplete(cur.cp) /\ cur.cp \in Checkpoint
    BY <2>1, AtModel, RowFacts
  <2>3. \A questions : Carries(cur.cp, cur.cp) /\ Carries(cur.cp, Partial(cur.cp, cur.batch, questions))
    <3>. HIDE DEF cur
    <3>. QED BY <2>2, OthersKept
  <2>4. run'[w].job = cur.job /\ run'[w].pc = "failing" /\ Saved(w)
    BY <2>1, <2>3, FailBatchSaves
  <2>. QED BY <2>1, <2>4 DEF StepSaves, Working
<1>6. CASE Accept(w)
  BY <1>6, AcceptSaves DEF StepSaves, Working
<1>7. CASE Repair(w)
  <2>1. cur.pc = "check" /\ job' = job
        /\ \E output : run' = [run EXCEPT ![w].repaired = TRUE, ![w].output = output]
    BY <1>7 DEF Repair
  <2>2. run'[w].cp = cur.cp /\ run'[w].job = cur.job
    BY <1>0, <2>1 DEF RunRow
  <2>. QED BY <2>1, <2>2 DEF StepSaves, Working
<1>8. CASE CommitCreate(w) \/ CommitAppend(w)
  <2>1. cur.pc = "commit" /\ job' = job
        /\ \E pc \in {"failing", "succeed"} : \E outcome : Settling(w, pc, outcome)
    BY <1>8 DEF CommitCreate, CommitAppend, Throw
  <2>2. run'[w].pc \in {"failing", "succeed"} /\ run'[w].job = cur.job
    BY <1>0, <2>1, SettlingRow
  <2>. QED BY <2>1, <2>2 DEF StepSaves, Working
<1>9. CASE Succeed(w)
  <2>1. cur.pc = "succeed" /\ j \in Jobs /\ old \in JobRow /\ run'[w].pc = "idle"
    BY <1>0, <1>9, RowFacts, EndedRow DEF Succeed
  <2>. DEFINE row == [old EXCEPT !.status = "SUCCEEDED", !.step = "later", !.cp = NoCheckpoint]
  <2>2. job' = [job EXCEPT ![j] = row]
    BY <1>0, <1>9 DEF Succeed
  <2>3. row.status = "SUCCEEDED"
    <3>. HIDE DEF old
    <3>. QED BY <2>1 DEF JobRow
  <2>. HIDE DEF row
  <2>. QED BY <1>0, <2>1, <2>2, <2>3 DEF StepSaves
<1>10. CASE Defer(w) \/ Fail(w)
  <2>1. cur.pc \in {"defer", "fail"} /\ j \in Jobs /\ old \in JobRow /\ run'[w].pc = "idle"
    BY <1>0, <1>10, RowFacts, EndedRow DEF Defer, Fail
  <2>. DEFINE n == IF old.attempts = 0 THEN 0 ELSE old.attempts - 1
              final == run[w].outcome = "final" \/ job[j].attempts >= MaxJobAttempts(job[j].op)
              s == IF old.step = "queued" THEN "refused" ELSE old.step
              t == IF final THEN "FAILED" ELSE "RETRY"
              deferred == [old EXCEPT !.status = "RETRY", !.attempts = n]
              failed == [old EXCEPT !.status = t, !.step = s]
  <2>2. Defer(w) => job' = [job EXCEPT ![j] = deferred] \/ job' = job
    BY <1>0, <2>1 DEF Defer
  <2>3. Fail(w) => job' = [job EXCEPT ![j] = failed] \/ job' = job
    BY <1>0, <2>1 DEF Fail
  <2>. HIDE DEF n, s, t
  <2>4. deferred.cp = old.cp /\ failed.cp = old.cp
    <3>. HIDE DEF old
    <3>. QED BY <2>1 DEF JobRow
  <2>. HIDE DEF deferred, failed
  <2>5. \A i \in Jobs : job'[i].cp = job[i].cp
    BY <1>0, <1>10, <2>1, <2>2, <2>3, <2>4
  <2>. QED BY <2>1, <2>5 DEF StepSaves, Working
<1>11. CASE MarkFailed(w)
  <2>1. cur.pc = "failing" /\ job' = job /\ (EndRun(w) \/ GoTo(w, "fail"))
    BY <1>11 DEF MarkFailed
  <2>2. run'[w].pc = "idle" \/ (run'[w].pc = "fail" /\ run'[w].job = cur.job)
    BY <1>0, <2>1, EndedRow DEF GoTo, RunRow
  <2>. QED BY <2>1, <2>2 DEF StepSaves, Working
<1>. QED BY <1>1, <1>2, <1>3, <1>4, <1>5, <1>6, <1>7, <1>8, <1>9, <1>10, <1>11 DEF Step

\* Nobody but a run changes the checkpoint of a job.
LEMMA OutsideSaves ==
  ASSUME RowsInv,
         \/ \E w \in Workers : Crash(w) \/ \E j \in Jobs : Claim(w, j)
         \/ \E j \in Jobs : Reclaim(j)
         \/ Person
  PROVE  \A i \in Jobs : job[i].status # "ABSENT" => job'[i].cp = job[i].cp
<1>. DEFINE Kept == \A i \in Jobs : job[i].status # "ABSENT" => job'[i].cp = job[i].cp
<1>1. job \in [Jobs -> JobRow]
  BY DEF RowsInv, RowTypes
<1>2. ASSUME NEW j \in Jobs, NEW row, row.cp = job[j].cp, job' = [job EXCEPT ![j] = row]
      PROVE  Kept
  BY <1>1, <1>2
<1>3. ASSUME NEW w \in Workers, Crash(w)
      PROVE  Kept
  BY <1>3 DEF Crash
<1>4. ASSUME NEW w \in Workers, NEW j \in Jobs, Claim(w, j)
      PROVE  Kept
  <2>. DEFINE old == job[j]
              row == [old EXCEPT !.status = "RUNNING", !.attempts = old.attempts + 1]
  <2>1. old \in JobRow /\ job' = [job EXCEPT ![j] = row]
    BY <1>1, <1>4 DEF Claim
  <2>2. row.cp = old.cp
    <3>. HIDE DEF old
    <3>. QED BY <2>1 DEF JobRow
  <2>. HIDE DEF row, Kept
  <2>. QED BY <1>2, <2>1, <2>2
<1>5. ASSUME NEW j \in Jobs, Reclaim(j)
      PROVE  Kept
  <2>. DEFINE old == job[j]
              row == [old EXCEPT !.status = "RETRY"]
  <2>1. old \in JobRow /\ job' = [job EXCEPT ![j] = row]
    BY <1>1, <1>5 DEF Reclaim
  <2>2. row.cp = old.cp
    <3>. HIDE DEF old
    <3>. QED BY <2>1 DEF JobRow
  <2>. HIDE DEF row, Kept
  <2>. QED BY <1>2, <2>1, <2>2
<1>6. ASSUME Reindex \/ Publish \/ Edit \/ Delete
      PROVE  Kept
  BY <1>6 DEF Reindex, Publish, Edit, Delete
<1>7. ASSUME AppendGeneration \/ Retry
      PROVE  Kept
  <2>1. 2 \in Jobs /\ job[2].status = "ABSENT" /\ \E row : job' = [job EXCEPT ![2] = row]
    BY <1>7 DEF AppendGeneration, Retry, Jobs
  <2>. QED BY <1>1, <2>1
<1>8. ASSUME RetryLast
      PROVE  Kept
  <2>. DEFINE j == Latest
              old == job[j]
              row == [old EXCEPT !.status = "RETRY", !.attempts = 0, !.step = "queued",
                                 !.cancelled = FALSE]
  <2>0. j \in Jobs
    BY DEF Latest, Jobs
  <2>1. old \in JobRow /\ job' = [job EXCEPT ![j] = row]
    BY <1>1, <1>8, <2>0 DEF RetryLast
  <2>2. row.cp = old.cp
    <3>. HIDE DEF old
    <3>. QED BY <2>1 DEF JobRow
  <2>. HIDE DEF row, j, Kept
  <2>. QED BY <1>2, <2>0, <2>1, <2>2
<1>9. ASSUME NEW j \in Jobs, AdminRetry(j) \/ AdminCancel(j)
      PROVE  Kept
  <2>. DEFINE old == job[j]
              s == IF old.step = "refused" THEN "queued" ELSE old.step
              t == IF old.step = "queued" THEN "refused" ELSE old.step
              again == [old EXCEPT !.status = "RETRY", !.cancelled = FALSE, !.step = s]
              ended == [old EXCEPT !.status = "FAILED", !.cancelled = TRUE, !.step = t]
  <2>1. old \in JobRow /\ (job' = [job EXCEPT ![j] = again] \/ job' = [job EXCEPT ![j] = ended])
    BY <1>1, <1>9 DEF AdminRetry, AdminCancel
  <2>. HIDE DEF s, t
  <2>2. again.cp = old.cp /\ ended.cp = old.cp
    <3>. HIDE DEF old
    <3>. QED BY <2>1 DEF JobRow
  <2>. HIDE DEF again, ended, Kept
  <2>. QED BY <1>2, <2>1, <2>2
<1>. HIDE DEF Kept
<1>10. ASSUME Person
       PROVE  Kept
  BY <1>6, <1>7, <1>8, <1>9, <1>10 DEF Person
<1>11. Kept
  <2>1. CASE \E w \in Workers : Crash(w) \/ \E j \in Jobs : Claim(w, j)
    BY <1>3, <1>4, <2>1
  <2>2. CASE \E j \in Jobs : Reclaim(j)
    BY <1>5, <2>2
  <2>. QED BY <1>10, <2>1, <2>2
<1>. QED BY <1>11 DEF Kept

\* What happens to the status and to the questions of the quiz.
LEMMA StatusMoves ==
  ASSUME QuizInv, Next
  PROVE  \/ quiz'.status = quiz.status
         \/ quiz'.status \notin Settled /\ quiz.status \notin Settled
         \/ quiz'.status = "PUBLISHED" /\ quiz.status = "READY" /\ Publish
         \/ quiz'.status = "ARCHIVED" /\ Delete
         \/ \E w \in Workers : \/ CommitCreate(w) /\ run'[w].pc = "succeed"
                               \/ Begin(w) /\ Op(w) # "APPEND"
                               \/ MarkFailed(w) /\ Op(w) # "APPEND"
<1>1. quiz \in QuizRow /\ quiz.status \in Statuses /\ run \in [Workers -> RunRow]
  BY QuizFacts DEF QuizInv, RowsInv, RowTypes
<1>2. \A s \in Statuses : /\ Changed([quiz EXCEPT !.status = s]).status = s
                          /\ Changed(quiz).status = quiz.status
  BY <1>1, ChangedRow
<1>3. ASSUME NEW w \in Workers, CommitAppend(w)
      PROVE  quiz'.status = quiz.status
  <2>1. CASE quiz' = quiz
    BY <2>1
  <2>2. CASE quiz' # quiz
    <3>1. \E content, warned : quiz' = Changed([quiz EXCEPT !.content = content, !.warned = warned])
      BY <1>3, <2>2 DEF CommitAppend
    <3>. QED BY <1>1, <3>1 DEF Changed, QuizRow
  <2>. QED BY <2>1, <2>2
<1>4. ASSUME NEW w \in Workers, CommitCreate(w)
      PROVE  quiz' = quiz \/ run'[w].pc = "succeed"
  BY <1>1, <1>4, SettlingRow DEF CommitCreate
<1>5. ASSUME NEW w \in Workers, Begin(w)
      PROVE  quiz' = quiz \/ Op(w) # "APPEND"
  BY <1>5 DEF Begin
<1>6. ASSUME NEW w \in Workers, MarkFailed(w)
      PROVE  quiz' = quiz \/ Op(w) # "APPEND"
  BY <1>6 DEF MarkFailed, TellsQuiz
<1>7. ASSUME Publish
      PROVE  quiz'.status = "PUBLISHED" /\ quiz.status = "READY"
  <2>1. quiz' = Changed([quiz EXCEPT !.status = "PUBLISHED"]) /\ quiz.status \in {"DRAFT", "READY"}
    BY <1>7 DEF Publish, CanPublish
  <2>. QED BY <1>1, <1>2, <2>1 DEF Statuses
<1>8. ASSUME Delete
      PROVE  quiz'.status = "ARCHIVED"
  <2>1. quiz' = Changed([quiz EXCEPT !.status = "ARCHIVED"])
    BY <1>8 DEF Delete
  <2>. QED BY <1>2, <2>1 DEF Statuses
<1>9. ASSUME Retry \/ RetryLast
      PROVE  \/ quiz'.status = quiz.status
             \/ quiz'.status \notin Settled /\ quiz.status \notin Settled
  <2>1. \/ quiz' = quiz
        \/ quiz.status = "FAILED" /\ quiz' = Changed([quiz EXCEPT !.status = "QUEUED"])
    BY <1>9 DEF Retry, RetryLast
  <2>. QED BY <1>2, <2>1 DEF Statuses, Settled
<1>10. ASSUME AppendGeneration
       PROVE  quiz'.status = quiz.status
  BY <1>1, <1>10 DEF AppendGeneration, QuizRow
<1>11. ASSUME Reindex \/ Edit \/ (\E j \in Jobs : AdminRetry(j) \/ AdminCancel(j) \/ Reclaim(j))
       PROVE  quiz'.status = quiz.status
  BY <1>2, <1>11 DEF Reindex, Edit, AdminRetry, AdminCancel, Reclaim, Statuses
<1>12. ASSUME Person
       PROVE  \/ quiz'.status = quiz.status
              \/ quiz'.status \notin Settled /\ quiz.status \notin Settled
              \/ quiz'.status = "PUBLISHED" /\ quiz.status = "READY" /\ Publish
              \/ quiz'.status = "ARCHIVED" /\ Delete
  BY <1>7, <1>8, <1>9, <1>10, <1>11, <1>12 DEF Person
<1>13. ASSUME NEW w \in Workers, Step(w) \/ Crash(w) \/ \E j \in Jobs : Claim(w, j)
       PROVE  \/ quiz'.status = quiz.status
              \/ CommitCreate(w) /\ run'[w].pc = "succeed"
              \/ Begin(w) /\ Op(w) # "APPEND"
              \/ MarkFailed(w) /\ Op(w) # "APPEND"
  <2>1. CASE Begin(w) \/ MarkFailed(w) \/ CommitCreate(w) \/ CommitAppend(w)
    BY <1>3, <1>4, <1>5, <1>6, <2>1
  <2>2. CASE ~(Begin(w) \/ MarkFailed(w) \/ CommitCreate(w) \/ CommitAppend(w))
    <3>1. quiz' = quiz
      BY <1>13, <2>2, QuietSteps DEF Step
    <3>. QED BY <3>1
  <2>. QED BY <2>1, <2>2
<1>. QED BY <1>11, <1>12, <1>13 DEF Next

\* The questions of a quiz: kept, replaced by a creation, or with more behind them.
LEMMA ContentMoves ==
  ASSUME QuizInv, Next
  PROVE  \/ \E w \in Workers : CommitCreate(w) /\ run'[w].pc = "succeed"
         \/ \A i \in DOMAIN quiz.content :
              i \in DOMAIN quiz'.content /\ quiz'.content[i] = quiz.content[i]
<1>1. quiz \in QuizRow /\ quiz.content \in Seq(Entry) /\ run \in [Workers -> RunRow]
      /\ RowsInv /\ ContentInv
  BY QuizFacts DEF QuizInv, RowsInv, RowTypes
<1>2. ASSUME NEW s \in Statuses, \/ quiz' = quiz \/ quiz' = Changed(quiz)
                                 \/ quiz' = Changed([quiz EXCEPT !.status = s])
      PROVE  quiz'.content = quiz.content
  BY <1>1, <1>2, ChangedRow
<1>3. ASSUME NEW w \in Workers, CommitAppend(w)
      PROVE  \A i \in DOMAIN quiz.content :
               i \in DOMAIN quiz'.content /\ quiz'.content[i] = quiz.content[i]
  <2>1. CASE quiz' = quiz
    BY <2>1
  <2>2. CASE quiz' # quiz
    <3>. DEFINE A == Aggregate(w)
                aw == AggregateWarned(w)
                C == quiz.content
                D == C \o A
                old == quiz
                warned == old.warned \/ aw
    <3>1. run[w].pc = "commit" /\ quiz' = Changed([old EXCEPT !.content = D, !.warned = warned])
      BY <1>1, <1>3, <2>2 DEF CommitAppend, QuizRow
    <3>2. A \in Seq(Entry)
      BY <1>1, <3>1, Aggregated
    <3>. HIDE DEF A, D, warned
    <3>3. quiz'.content = D
      <4>1. old \in QuizRow
        BY <1>1
      <4>. HIDE DEF old
      <4>. QED BY <3>1, <4>1 DEF Changed, QuizRow
    <3>4. \A i \in DOMAIN C : i \in DOMAIN D /\ D[i] = C[i]
      BY <1>1, <3>2, ConcatFacts DEF D
    <3>. QED BY <3>3, <3>4
  <2>. QED BY <2>1, <2>2
<1>4. ASSUME NEW w \in Workers, CommitCreate(w)
      PROVE  quiz' = quiz \/ run'[w].pc = "succeed"
  BY <1>1, <1>4, SettlingRow DEF CommitCreate
<1>5. ASSUME NEW w \in Workers, Begin(w) \/ MarkFailed(w)
      PROVE  quiz'.content = quiz.content
  <2>1. \E s \in Statuses : quiz' = quiz \/ quiz' = Changed([quiz EXCEPT !.status = s])
    BY <1>5 DEF Begin, MarkFailed, Statuses
  <2>. QED BY <1>2, <2>1
<1>6. ASSUME Person \/ \E j \in Jobs : Reclaim(j)
      PROVE  quiz'.content = quiz.content
  <2>1. CASE AppendGeneration
    BY <1>1, <2>1 DEF AppendGeneration, QuizRow
  <2>2. CASE ~AppendGeneration
    <3>1. \E s \in Statuses : \/ quiz' = quiz \/ quiz' = Changed(quiz)
                              \/ quiz' = Changed([quiz EXCEPT !.status = s])
      BY <1>6, <2>2 DEF Person, Reclaim, Reindex, Publish, Edit, Delete, Retry, RetryLast,
                        AdminRetry, AdminCancel, Statuses
    <3>. QED BY <1>2, <3>1
  <2>. QED BY <2>1, <2>2
<1>7. ASSUME NEW w \in Workers, Step(w) \/ Crash(w) \/ \E j \in Jobs : Claim(w, j),
             ~(Begin(w) \/ MarkFailed(w) \/ CommitCreate(w) \/ CommitAppend(w))
      PROVE  quiz' = quiz
  BY <1>7, QuietSteps DEF Step
<1>8. CASE Person \/ \E j \in Jobs : Reclaim(j)
  BY <1>6, <1>8
<1>9. ASSUME NEW w \in Workers, Step(w) \/ Crash(w) \/ \E j \in Jobs : Claim(w, j)
      PROVE  \/ CommitCreate(w) /\ run'[w].pc = "succeed"
             \/ \A i \in DOMAIN quiz.content :
                  i \in DOMAIN quiz'.content /\ quiz'.content[i] = quiz.content[i]
  <2>1. CASE CommitAppend(w)
    BY <1>3, <2>1
  <2>2. CASE CommitCreate(w)
    BY <1>4, <2>2
  <2>3. CASE Begin(w) \/ MarkFailed(w)
    BY <1>5, <2>3
  <2>4. CASE ~(Begin(w) \/ MarkFailed(w) \/ CommitCreate(w) \/ CommitAppend(w))
    BY <1>7, <1>9, <2>4
  <2>. QED BY <2>1, <2>2, <2>3, <2>4
<1>. QED BY <1>8, <1>9 DEF Next

Lone == \A v, w \in Workers : run[v].pc # "idle" /\ run[w].pc # "idle" => v = w
\* Not crossed, so at most one run is live.
LEMMA OneIsLone == ~Crossed => Lone
  BY OneRun DEF Lone

\* Its run and its row have the same checkpoint.
Aligned == \A w \in Workers : run[w].pc \in Working => run[w].cp = job[run[w].job].cp
\* Nobody is about to write into a ready quiz.
Calm == quiz.status \in Settled =>
          \A w \in Workers : run[w].pc \in {"idle", "succeed"} \/ Op(w) = "APPEND"

\* A lone run and its row go on with one checkpoint.
LEMMA AlignedNext ==
  ASSUME QuizInv, QuizInv', JobKept, Next, Lone, Lone', Aligned
  PROVE  Aligned'
<1>1. RowsInv /\ run \in [Workers -> RunRow] /\ job \in [Jobs -> JobRow]
  BY DEF QuizInv, RowsInv, RowTypes
<1>2. ASSUME NEW w \in Workers, run'[w] = run[w], run[w].pc # "idle",
             job'[run[w].job].cp = job[run[w].job].cp
      PROVE  run'[w].pc \in Working => run'[w].cp = job'[run'[w].job].cp
  BY <1>2 DEF Aligned
<1>3. ASSUME NEW w \in Workers, run'[w].pc = "idle"
      PROVE  run'[w].pc \in Working => run'[w].cp = job'[run'[w].job].cp
  BY <1>3 DEF Working
<1>4. ASSUME NEW w \in Workers, Step(w), NEW v \in Workers
      PROVE  run'[v].pc \in Working => run'[v].cp = job'[run'[v].job].cp
  <2>1. StepSaves(w) /\ OthersStay(w)
    BY <1>1, <1>4, StepSavesIt, StepOthers
  <2>2. CASE v # w
    <3>1. run[v].pc = "idle" /\ run'[v] = run[v]
      BY <2>1, <2>2 DEF Lone, StepSaves, OthersStay
    <3>. QED BY <1>3, <3>1
  <2>3. CASE v = w /\ run'[w].pc \in Working
    <3>1. run'[w].pc # "idle" /\ run[w].pc # "idle" /\ run'[w].job = run[w].job /\ run[w].job \in Jobs
      BY <1>1, <2>1, <2>3, RowFacts DEF StepSaves, Working
    <3>2. CASE run[w].pc \in Working /\ Saved(w)
      <4>1. PICK cp : Save(w, cp) /\ run'[w].cp = cp
        BY <2>3, <3>2 DEF Saved
      <4>2. job'[run[w].job].cp = cp
        BY <1>1, <3>1, <4>1, SaveRow
      <4>. QED BY <2>3, <3>1, <4>1, <4>2
    <3>3. CASE /\ \A j \in Jobs : job'[j].cp = job[j].cp
               /\ run[w].pc \in Working /\ run'[w].cp = run[w].cp
      BY <2>3, <3>1, <3>3 DEF Aligned
    <3>. QED BY <2>1, <2>3, <3>1, <3>2, <3>3 DEF StepSaves
  <2>. QED BY <2>2, <2>3
<1>5. ASSUME NEW v \in Workers, run'[v] = run[v],
             \/ \E w \in Workers : Crash(w) \/ \E j \in Jobs : Claim(w, j)
             \/ \E j \in Jobs : Reclaim(j)
             \/ Person
      PROVE  run'[v].pc \in Working => run'[v].cp = job'[run'[v].job].cp
  <2>1. CASE run[v].pc = "idle"
    BY <1>3, <1>5, <2>1
  <2>2. CASE run[v].pc # "idle"
    <3>1. run[v].job \in Jobs /\ job[run[v].job].status # "ABSENT"
      BY <1>1, <2>2, RowFacts
    <3>2. job'[run[v].job].cp = job[run[v].job].cp
      BY <1>1, <1>5, <3>1, OutsideSaves
    <3>. QED BY <1>2, <1>5, <2>2, <3>2
  <2>. QED BY <2>1, <2>2
<1>6. ASSUME NEW w \in Workers, Crash(w), NEW v \in Workers
      PROVE  run'[v].pc \in Working => run'[v].cp = job'[run'[v].job].cp
  <2>1. v # w => run'[v] = run[v]
    BY <1>1, <1>6, StepOthers DEF OthersStay
  <2>2. run'[w].pc = "idle"
    BY <1>1, <1>6, EndedRow DEF Crash
  <2>. QED BY <1>3, <1>5, <1>6, <2>1, <2>2
<1>7. ASSUME NEW w \in Workers, NEW j \in Jobs, Claim(w, j), NEW v \in Workers
      PROVE  run'[v].pc \in Working => run'[v].cp = job'[run'[v].job].cp
  <2>1. v # w => run'[v] = run[v]
    BY <1>1, <1>7, StepOthers DEF OthersStay
  <2>2. run'[w].job = j /\ run'[w].cp = job[j].cp
    <3>1. run'[w] = [Idle EXCEPT !.pc = "begin", !.job = j, !.attempts = job'[j].attempts,
                                 !.step = job[j].step, !.cp = job[j].cp]
      BY <1>1, <1>7 DEF Claim
    <3>. QED BY <3>1 DEF Idle
  <2>3. job[j].status # "ABSENT"
    BY <1>7 DEF Claim, CanClaim
  <2>4. job'[j].cp = job[j].cp
    BY <1>1, <1>7, <2>3, OutsideSaves
  <2>. QED BY <1>5, <1>7, <2>1, <2>2, <2>4
<1>8. ASSUME NEW v \in Workers, Person \/ \E j \in Jobs : Reclaim(j)
      PROVE  run'[v].pc \in Working => run'[v].cp = job'[run'[v].job].cp
  <2>1. run' = run
    BY <1>8 DEF Person, Reindex, Publish, Edit, Delete, AppendGeneration, Retry, RetryLast,
                AdminRetry, AdminCancel, Reclaim
  <2>. QED BY <1>5, <1>8, <2>1
<1>. QED BY <1>4, <1>6, <1>7, <1>8 DEF Next, Aligned

\* A ready quiz stays out of the reach of creations.
LEMMA CalmNext ==
  ASSUME QuizInv, QuizInv', JobKept, Next, Lone, Lone', ~Crossed, Calm
  PROVE  Calm'
<1>1. RowsInv /\ run \in [Workers -> RunRow] /\ job \in [Jobs -> JobRow] /\ quiz.status \in Statuses
  BY QuizFacts DEF QuizInv, RowsInv, RowTypes
<1>. SUFFICES ASSUME quiz'.status \in Settled, NEW v \in Workers,
                     run'[v].pc \notin {"idle", "succeed"}
              PROVE  Op(v)' = "APPEND"
  BY DEF Calm
\* A run that was there: of the same job, and of a request for more.
<1>2. ASSUME run[v].pc # "idle", run'[v].job = run[v].job, quiz.status \in Settled,
             run[v].pc # "succeed"
      PROVE  Op(v)' = "APPEND"
  <2>1. Op(v) = "APPEND" /\ run[v].job \in Jobs /\ job[run[v].job].status # "ABSENT"
    BY <1>1, <1>2, RowFacts DEF Calm
  <2>. QED BY <1>2, <2>1 DEF Op, JobKept
<1>3. ASSUME NEW w \in Workers, Step(w)
      PROVE  Op(v)' = "APPEND"
  <2>1. StepSaves(w) /\ OthersStay(w)
    BY <1>1, <1>3, StepSavesIt, StepOthers
  <2>2. v = w
    <3>1. ASSUME v # w PROVE FALSE
      <4>1. run[v].pc = "idle" /\ run'[v] = run[v]
        BY <2>1, <3>1 DEF Lone, StepSaves, OthersStay
      <4>. QED BY <4>1
    <3>. QED BY <3>1
  <2>3. run[w].pc # "idle" /\ run'[w].job = run[w].job
    BY <2>1, <2>2 DEF StepSaves
  <2>4. run[w].pc # "succeed"
    <3>1. ASSUME run[w].pc = "succeed" PROVE Succeed(w)
      BY <1>3, <3>1 DEF Step, Begin, Attempt, ContractFails, Reply, CallFails, Accept, Reject, Repair,
                        GiveUpCitations, CommitCreate, CommitAppend, Defer, MarkFailed, Fail
    <3>2. ~Succeed(w)
      BY <1>1, <2>2, EndedRow DEF Succeed
    <3>. QED BY <3>1, <3>2
  <2>5. quiz.status \in Settled
    <3>1. ASSUME NEW u \in Workers, CommitCreate(u), run'[u].pc = "succeed"
          PROVE  FALSE
      <4>1. run[u].pc # "idle"
        BY <3>1 DEF CommitCreate
      <4>. QED BY <2>2, <2>3, <3>1, <4>1 DEF Lone
    <3>2. ASSUME NEW u \in Workers, Begin(u)
          PROVE  quiz.status \in Settled
      <4>1. \/ quiz' = quiz
            \/ quiz' = Changed([quiz EXCEPT !.status = "GENERATING"])
        BY <3>2 DEF Begin
      <4>2. "GENERATING" \in Statuses /\ quiz \in QuizRow
        BY QuizFacts DEF Statuses, QuizInv
      <4>. QED BY <4>1, <4>2, ChangedRow DEF Settled
    <3>3. ASSUME NEW u \in Workers, MarkFailed(u)
          PROVE  quiz.status \in Settled
      <4>1. \/ quiz' = quiz
            \/ quiz' = Changed([quiz EXCEPT !.status = "FAILED"])
        BY <3>3 DEF MarkFailed
      <4>2. "FAILED" \in Statuses /\ quiz \in QuizRow
        BY QuizFacts DEF Statuses, QuizInv
      <4>. QED BY <4>1, <4>2, ChangedRow DEF Settled
    <3>. QED BY <3>1, <3>2, <3>3, StatusMoves DEF Settled
  <2>. QED BY <1>2, <2>2, <2>3, <2>4, <2>5
<1>4. ASSUME NEW w \in Workers, Crash(w)
      PROVE  Op(v)' = "APPEND"
  <2>1. v # w
    BY <1>1, <1>4, EndedRow DEF Crash
  <2>2. run'[v] = run[v] /\ quiz' = quiz
    BY <1>1, <1>4, <2>1, StepOthers DEF OthersStay, Crash
  <2>. QED BY <1>2, <2>2
<1>5. ASSUME NEW w \in Workers, NEW j \in Jobs, Claim(w, j)
      PROVE  Op(v)' = "APPEND"
  <2>1. OthersStay(w) /\ quiz' = quiz /\ run[w].pc = "idle" /\ job[j].status \in {"QUEUED", "RETRY"}
    BY <1>1, <1>5, StepOthers DEF Claim, CanClaim
  <2>2. run'[w].job = j /\ run'[w].pc = "begin"
    <3>1. run'[w] = [Idle EXCEPT !.pc = "begin", !.job = j, !.attempts = job'[j].attempts,
                                 !.step = job[j].step, !.cp = job[j].cp]
      BY <1>1, <1>5 DEF Claim
    <3>. QED BY <3>1 DEF Idle
  <2>3. v = w
    BY <2>2 DEF Lone
  <2>4. \A u \in Workers : run[u].pc = "idle"
    BY <2>1, <2>2 DEF Lone, OthersStay
  <2>5. Running(j) = {}
    <3>1. \A u \in Workers : run[u].job = 0
      BY <1>1, <2>4 DEF RowsInv, JobsFit
    <3>. QED BY <3>1 DEF Running, Jobs
  <2>6. job[j].op = "APPEND"
    BY <2>1, <2>5 DEF Crossed, Active
  <2>. QED BY <2>1, <2>2, <2>3, <2>6 DEF Op, JobKept
<1>6. ASSUME Person \/ \E j \in Jobs : Reclaim(j)
      PROVE  Op(v)' = "APPEND"
  <2>1. run' = run
    BY <1>6 DEF Person, Reindex, Publish, Edit, Delete, AppendGeneration, Retry, RetryLast,
                AdminRetry, AdminCancel, Reclaim
  <2>2. quiz.status \in Settled
    <3>1. ASSUME NEW u \in Workers, CommitCreate(u) \/ Begin(u) \/ MarkFailed(u)
          PROVE  run' # run
      <4>1. \/ run'[u].pc = "idle" \/ run'[u].pc = "fail" \/ run'[u].pc = "attempt"
            \/ run'[u].pc = "failing" \/ run'[u].pc = "succeed"
        BY <1>1, <3>1, SettlingRow, EndedRow DEF CommitCreate, Begin, MarkFailed, Throw, GoTo, RunRow
      <4>. QED BY <3>1, <1>1, SettlingRow, EndedRow DEF CommitCreate, Begin, MarkFailed, Throw, GoTo, RunRow
    <3>. QED BY <2>1, <3>1, StatusMoves DEF Settled
  <2>. QED BY <1>2, <2>1, <2>2
<1>. QED BY <1>3, <1>4, <1>5, <1>6 DEF Next

\* While one generation at a time works, the three stay true.
LEMMA AloneNext ==
  ASSUME QuizInv, QuizInv', AloneFits, Next
  PROVE  AloneFits'
<1>1. JobKept
  BY NextKeepsJob DEF QuizInv
<1>2. \A j \in Jobs : job'[j].status = "ABSENT" => job'[j].cp = NoCheckpoint
  BY <1>1 DEF AloneFits, JobKept
<1>3. ASSUME ~spoiled'
      PROVE  ~Crossed' /\ Aligned' /\ Calm'
  <2>1. ~spoiled /\ ~Crossed'
    BY <1>3 DEF Next, Track
  <2>2. ~Crossed /\ Aligned /\ Calm
    BY <2>1 DEF AloneFits, Aligned, Calm
  <2>3. Lone
    BY <2>2, OneIsLone
  <2>4. Lone'
    <3>1. (~Crossed => Lone)'
      BY OneIsLone, PTL
    <3>. QED BY <2>1, <3>1
  <2>. QED BY <1>1, <2>1, <2>2, <2>3, <2>4, AlignedNext, CalmNext
<1>. QED BY <1>2, <1>3 DEF AloneFits, Aligned, Calm

\* A complete batch of the sources as they are, while its job goes on.
BatchStays(j, b) ==
  (/\ ~spoiled' /\ job[j].cp.print = index /\ job[j].cp.batches[b].done
   /\ job'[j].status # "SUCCEEDED")
  => /\ b \in DOMAIN job'[j].cp.batches
     /\ job'[j].cp.batches[b] = job[j].cp.batches[b]

\* A step does not undo a complete batch.
LEMMA BatchStep ==
  ASSUME QuizInv, AloneFits, Next, NEW j \in Jobs, NEW b \in DOMAIN job[j].cp.batches
  PROVE  BatchStays(j, b)
<1>1. RowsInv /\ run \in [Workers -> RunRow] /\ job \in [Jobs -> JobRow] /\ JobKept
  BY NextKeepsJob DEF QuizInv, RowsInv, RowTypes
<1>. SUFFICES ASSUME ~spoiled', job[j].cp.print = index, job[j].cp.batches[b].done,
                     job'[j].status # "SUCCEEDED"
              PROVE  /\ b \in DOMAIN job'[j].cp.batches
                     /\ job'[j].cp.batches[b] = job[j].cp.batches[b]
  BY DEF BatchStays
<1>2. Aligned /\ ~spoiled
  BY DEF Next, Track, AloneFits, Aligned
<1>3. job[j].status # "ABSENT"
  <2>1. ASSUME job[j].status = "ABSENT" PROVE FALSE
    <3>1. job[j].cp = NoCheckpoint
      BY <2>1 DEF AloneFits
    <3>2. DOMAIN job[j].cp.batches = {}
      BY <3>1 DEF NoCheckpoint
    <3>. QED BY <3>2
  <2>. QED BY <2>1
<1>4. CASE job'[j].cp = job[j].cp
  BY <1>4
<1>5. CASE \E w \in Workers : Step(w)
  <2>1. PICK w \in Workers : Step(w)
    BY <1>5
  <2>2. StepSaves(w)
    BY <1>1, <2>1, StepSavesIt
  <2>3. CASE run[w].pc \in Working /\ Saved(w)
    <3>1. PICK cp : Save(w, cp) /\ (run[w].cp.print = index => Carries(run[w].cp, cp))
      BY <2>3 DEF Saved
    <3>2. job'[run[w].job].cp = cp /\ \A i \in Jobs : i # run[w].job => job'[i] = job[i]
      BY <1>1, <2>2, <3>1, SaveRow DEF StepSaves
    <3>3. CASE j = run[w].job
      <4>1. run[w].cp = job[j].cp
        BY <1>2, <2>3, <3>3 DEF Aligned
      <4>2. Carries(job[j].cp, cp)
        BY <3>1, <4>1
      <4>. QED BY <3>2, <3>3, <4>2 DEF Carries
    <3>4. CASE j # run[w].job
      BY <3>2, <3>4, <1>4
    <3>. QED BY <3>3, <3>4
  <2>4. CASE \A i \in Jobs : job'[i].cp = job[i].cp
    BY <1>4, <2>4
  <2>5. CASE /\ job'[run[w].job].status = "SUCCEEDED"
             /\ \A i \in Jobs : i # run[w].job => job'[i] = job[i]
    BY <1>4, <2>5
  <2>. QED BY <2>2, <2>3, <2>4, <2>5 DEF StepSaves
<1>6. CASE \/ \E w \in Workers : Crash(w) \/ \E i \in Jobs : Claim(w, i)
           \/ \E i \in Jobs : Reclaim(i)
           \/ Person
  BY <1>1, <1>3, <1>4, <1>6, OutsideSaves
<1>. QED BY <1>5, <1>6 DEF Next

ReadyStays ==
  (~spoiled' /\ quiz.status \in Settled)
  => /\ quiz'.status \in {quiz.status, "PUBLISHED", "ARCHIVED"}
     /\ \A i \in DOMAIN quiz.content :
          i \in DOMAIN quiz'.content /\ quiz'.content[i] = quiz.content[i]

\* A step does not undo a ready quiz.
LEMMA ReadyStep ==
  ASSUME QuizInv, AloneFits, Next
  PROVE  ReadyStays
<1>. SUFFICES ASSUME ~spoiled', quiz.status \in Settled
              PROVE  /\ quiz'.status \in {quiz.status, "PUBLISHED", "ARCHIVED"}
                     /\ \A i \in DOMAIN quiz.content :
                          i \in DOMAIN quiz'.content /\ quiz'.content[i] = quiz.content[i]
  BY DEF ReadyStays
<1>1. \A w \in Workers : run[w].pc \in {"idle", "succeed"} \/ Op(w) = "APPEND"
  BY DEF Next, Track, AloneFits
<1>2. \A w \in Workers : /\ ~CommitCreate(w)
                         /\ ~(Begin(w) /\ Op(w) # "APPEND")
                         /\ ~(MarkFailed(w) /\ Op(w) # "APPEND")
  BY <1>1 DEF CommitCreate, Begin, MarkFailed
<1>3. quiz'.status \in {quiz.status, "PUBLISHED", "ARCHIVED"}
  BY <1>2, StatusMoves
<1>. QED BY <1>2, <1>3, ContentMoves

\* While one generation at a time works on the quiz, no step undoes a batch
\* that is complete or a quiz that is ready.
THEOREM WorkStaysKept == Spec => WorkIsKept
<1>1. Init => AloneFits
  <2>. SUFFICES ASSUME Init PROVE AloneFits
    OBVIOUS
  <2>1. \A w \in Workers : run[w].pc = "idle"
    BY IdleTyped DEF Init
  <2>2. quiz.status = "QUEUED"
    BY DEF Init
  <2>3. ~Crossed
    <3>1. {w \in Workers : run[w].pc # "idle"} = {}
      BY <2>1
    <3>2. Cardinality({w \in Workers : run[w].pc # "idle"}) = 0
      BY <3>1, FS_EmptySet
    <3>. QED BY <2>2, <3>2 DEF Crossed, Settled
  <2>4. \A j \in Jobs : job[j].cp = NoCheckpoint
    BY DEF Init, Absent, NewJob
  <2>. QED BY <2>1, <2>2, <2>3, <2>4 DEF AloneFits, Working, Settled
<1>2. QuizInv /\ QuizInv' /\ AloneFits /\ [Next]_vars => AloneFits'
  <2>1. ASSUME QuizInv, QuizInv', AloneFits, UNCHANGED vars PROVE AloneFits'
    <3>1. quiz' = quiz /\ job' = job /\ run' = run /\ spoiled' = spoiled
      BY <2>1 DEF vars
    <3>. QED BY <2>1, <3>1 DEF AloneFits, Crossed, Running, Op
  <2>. QED BY <2>1, AloneNext
<1>3. QuizInv /\ AloneFits /\ [Next]_vars
      => [\A j \in Jobs : \A b \in DOMAIN job[j].cp.batches :
            (/\ ~spoiled' /\ job[j].cp.print = index /\ job[j].cp.batches[b].done
             /\ job'[j].status # "SUCCEEDED")
            => /\ b \in DOMAIN job'[j].cp.batches
               /\ job'[j].cp.batches[b] = job[j].cp.batches[b]]_vars
  <2>1. ASSUME QuizInv, AloneFits, Next
        PROVE  \A j \in Jobs : \A b \in DOMAIN job[j].cp.batches : BatchStays(j, b)
    BY <2>1, BatchStep
  <2>. QED BY <2>1 DEF BatchStays
<1>4. QuizInv /\ AloneFits /\ [Next]_vars
      => [(~spoiled' /\ quiz.status \in Settled)
          => /\ quiz'.status \in {quiz.status, "PUBLISHED", "ARCHIVED"}
             /\ \A i \in DOMAIN quiz.content :
                  i \in DOMAIN quiz'.content /\ quiz'.content[i] = quiz.content[i]]_vars
  <2>1. ASSUME QuizInv, AloneFits, Next PROVE ReadyStays
    BY <2>1, ReadyStep
  <2>. QED BY <2>1 DEF ReadyStays
<1>5. Spec => []QuizInv
  BY QuizInvHolds
<1>6. Spec => CompleteBatchStays
  BY <1>1, <1>2, <1>3, <1>5, PTL DEF Spec, CompleteBatchStays
<1>7. Spec => ReadyQuizIsKept
  BY <1>1, <1>2, <1>4, <1>5, PTL DEF Spec, ReadyQuizIsKept
<1>. QED BY <1>6, <1>7, PTL DEF WorkIsKept
=============================================================================
