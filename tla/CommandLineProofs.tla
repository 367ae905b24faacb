-------------------------- MODULE CommandLineProofs --------------------------
(***************************************************************************)
(* FormatByChar and DivideByChar stay inside their memory and cut a line   *)
(* into its words, for every line, every separator and every size of the   *)
(* array; and Run executes the commands that are typed, whatever the lines *)
(* and the buffer.  First come lemmas about the words of a text, which     *)
(* Words defines by their places, and which both rest on; that its sets of *)
(* places are finite takes the place of induction over the text.           *)
(***************************************************************************)
EXTENDS Fields, Console, FiniteSetTheorems, SequenceTheorems, TLAPS
-----------------------------------------------------------------------------
(* Words of texts, whatever the text and the separator *)

Rank(S, p) == Cardinality({q \in S : q <= p})

(* The ranks of the elements of a finite set of numbers are 1, 2, ..., in their
   order. *)
LEMMA Ranks ==
    ASSUME NEW n \in Nat, NEW S \in SUBSET (1..n)
    PROVE  /\ IsFiniteSet(S) /\ Cardinality(S) \in Nat
           /\ \A p \in S : Rank(S, p) \in 1..Cardinality(S)
           /\ \A p, q \in S : p < q => Rank(S, p) < Rank(S, q)
           /\ \A k \in 1..Cardinality(S) : \E p \in S : Rank(S, p) = k
<1>1. IsFiniteSet(S) /\ Cardinality(S) \in Nat
  <2>1. IsFiniteSet(1..n)
    BY FS_Interval
  <2>2. QED
    BY <2>1, FS_Subset, FS_CardinalityType
<1>2. ASSUME NEW p \in S
      PROVE  /\ IsFiniteSet({q \in S : q <= p})
             /\ Rank(S, p) \in 1..Cardinality(S)
  <2>1. {q \in S : q <= p} \in SUBSET S /\ p \in {q \in S : q <= p}
    OBVIOUS
  <2>2. /\ IsFiniteSet({q \in S : q <= p})
        /\ Cardinality({q \in S : q <= p}) <= Cardinality(S)
    BY <1>1, <2>1, FS_Subset
  <2>3. /\ Cardinality({q \in S : q <= p}) \in Nat
        /\ Cardinality({q \in S : q <= p}) # 0
    BY <2>1, <2>2, FS_CardinalityType, FS_EmptySet
  <2>4. QED
    BY <1>1, <2>2, <2>3 DEF Rank
<1>3. \A p \in S : p \in Nat
  OBVIOUS
<1>4. \A p \in S : Rank(S, p) \in 1..Cardinality(S)
  BY <1>2
<1>5. \A p \in S : Rank(S, p) \in Nat
  BY <1>1, <1>4
<1>6. ASSUME NEW p \in S, NEW q \in S, p < q
      PROVE  Rank(S, p) < Rank(S, q)
  <2>1. ASSUME NEW r \in S, r <= p PROVE r <= q
    BY <1>3, <1>6, <2>1
  <2>2. {r \in S : r <= p} \in SUBSET {r \in S : r <= q}
    BY <2>1
  <2>3. q \in {r \in S : r <= q} /\ q \notin {r \in S : r <= p}
    BY <1>3, <1>6
  <2>4. /\ Rank(S, p) <= Rank(S, q)
        /\ Rank(S, p) # Rank(S, q)
    BY <1>2, <2>2, <2>3, FS_Subset DEF Rank
  <2>5. QED
    BY <1>5, <2>4
<1>7. DEFINE f == [p \in S |-> Rank(S, p)]
<1>8. f \in Injection(S, 1..Cardinality(S))
  <2>1. ASSUME NEW p \in S, NEW q \in S, Rank(S, p) = Rank(S, q) PROVE p = q
    <3>1. p < q \/ q < p \/ p = q
      BY <1>3
    <3>2. Rank(S, p) \in Nat
      BY <1>5
    <3>3. QED
      BY <1>6, <2>1, <3>1, <3>2
  <2>2. f \in [S -> 1..Cardinality(S)]
    BY <1>4
  <2>3. QED
    BY <2>1, <2>2 DEF Injection, IsInjective
<1>9. f \in Surjection(S, 1..Cardinality(S))
  <2>1. IsFiniteSet(1..Cardinality(S)) /\ Cardinality(1..Cardinality(S)) = Cardinality(S)
    BY <1>1, FS_Interval
  <2>2. QED
    BY <1>8, <2>1, FS_Injection
<1>10. \A k \in 1..Cardinality(S) : \E p \in S : Rank(S, p) = k
  BY <1>9 DEF Surjection
<1>11. QED
  BY <1>1, <1>4, <1>6, <1>10

LEMMA LeastAndGreatest ==
    ASSUME NEW n \in Nat, NEW S \in SUBSET (1..n), S # {}
    PROVE  /\ \E p \in S : \A q \in S : p <= q
           /\ \E p \in S : \A q \in S : q <= p
<1>1. IsFiniteSet(S) /\ Cardinality(S) \in Nat /\ Cardinality(S) # 0
  BY Ranks, FS_EmptySet
<1>2. ASSUME NEW k \in 1..Cardinality(S)
      PROVE  \E p \in S : /\ Rank(S, p) = k
                          /\ \A q \in S : p < q => k < Rank(S, q)
                          /\ \A q \in S : q < p => Rank(S, q) < k
  <2>1. PICK p \in S : Rank(S, p) = k
    BY Ranks
  <2>2. \A q \in S : (p < q => Rank(S, p) < Rank(S, q)) /\ (q < p => Rank(S, q) < Rank(S, p))
    BY Ranks
  <2>3. QED
    BY <2>1, <2>2
<1>3. \A q \in S : Rank(S, q) \in 1..Cardinality(S)
  BY Ranks
<1>4. PICK p \in S : \A q \in S : q < p => Rank(S, q) < 1
  BY <1>1, <1>2
<1>5. PICK r \in S : \A q \in S : r < q => Cardinality(S) < Rank(S, q)
  BY <1>1, <1>2
<1>6. \A q \in S : p <= q
  BY <1>3, <1>4
<1>7. \A q \in S : q <= r
  BY <1>1, <1>3, <1>5
<1>8. QED
  BY <1>6, <1>7

LEMMA StartsAre ==
    ASSUME NEW C, NEW s \in Seq(C), NEW sep
    PROVE  /\ Len(s) \in Nat /\ Starts(s, sep) \in SUBSET (1..Len(s))
           /\ \A p \in Starts(s, sep) : p \in 1..Len(s) /\ s[p] # sep
  BY DEF Starts

LEMMA WordEndIs ==
    ASSUME NEW C, NEW s \in Seq(C), NEW sep, NEW p \in 1..Len(s), NEW e \in p..Len(s),
           \A q \in p..e : s[q] # sep, e < Len(s) => s[e + 1] = sep
    PROVE  WordEnd(s, sep, p) = e
<1>1. ASSUME NEW d \in p..Len(s), \A q \in p..d : s[q] # sep, d < Len(s) => s[d + 1] = sep
      PROVE  d = e
  <2>1. CASE d < e
    <3>1. d + 1 \in p..e /\ d < Len(s)
      BY <2>1
    <3>2. QED
      BY <1>1, <3>1
  <2>2. CASE e < d
    <3>1. e + 1 \in p..d /\ e < Len(s)
      BY <2>2
    <3>2. QED
      BY <1>1, <3>1
  <2>3. QED
    BY <2>1, <2>2
<1>2. QED
  BY <1>1 DEF WordEnd

(* Every word has an end. *)
LEMMA WordEnds ==
    ASSUME NEW C, NEW s \in Seq(C), NEW sep, NEW p \in Starts(s, sep)
    PROVE  /\ WordEnd(s, sep, p) \in p..Len(s)
           /\ \A q \in p..WordEnd(s, sep, p) : s[q] # sep
           /\ WordEnd(s, sep, p) < Len(s) => s[WordEnd(s, sep, p) + 1] = sep
<1>1. Len(s) \in Nat /\ p \in 1..Len(s) /\ s[p] # sep
  BY StartsAre
<1>2. DEFINE S == {q \in p..Len(s) : s[q] = sep}
<1>3. S \in SUBSET (1..Len(s))
  BY <1>1
<1>4. PICK e \in p..Len(s) : (\A q \in p..e : s[q] # sep) /\ (e < Len(s) => s[e + 1] = sep)
  <2>1. CASE S = {}
    BY <1>1, <2>1
  <2>2. CASE S # {}
    <3>1. PICK r \in S : \A q \in S : r <= q
      BY <1>1, <1>3, <2>2, LeastAndGreatest
    <3>2. r # p /\ r \in p..Len(s) /\ s[r] = sep
      BY <1>1, <3>1
    <3>3. r - 1 \in p..Len(s) /\ (r - 1) + 1 = r
      BY <1>1, <3>2
    <3>4. \A q \in p..(r - 1) : q \in p..Len(s) /\ ~(r <= q)
      BY <1>1, <3>2
    <3>5. \A q \in p..(r - 1) : s[q] # sep
      BY <3>1, <3>4
    <3>6. QED
      BY <3>2, <3>3, <3>5
  <2>3. QED
    BY <2>1, <2>2
<1>5. WordEnd(s, sep, p) = e
  BY <1>1, <1>4, WordEndIs
<1>6. QED
  BY <1>4, <1>5

LEMMA WordsAre ==
    ASSUME NEW C, NEW s \in Seq(C), NEW sep
    PROVE  /\ WordsOf(s, sep) \in Seq(Seq(C))
           /\ Len(WordsOf(s, sep)) = Cardinality(Starts(s, sep))
           /\ \A p \in Starts(s, sep) :
                  /\ Rank(Starts(s, sep), p) \in 1..Len(WordsOf(s, sep))
                  /\ WordsOf(s, sep)[Rank(Starts(s, sep), p)]
                         = SubSeq(s, p, WordEnd(s, sep, p))
<1>1. Len(s) \in Nat /\ Starts(s, sep) \in SUBSET (1..Len(s))
  BY StartsAre
<1>2. /\ Cardinality(Starts(s, sep)) \in Nat
      /\ \A p \in Starts(s, sep) : Rank(Starts(s, sep), p) \in 1..Cardinality(Starts(s, sep))
      /\ \A p, q \in Starts(s, sep) : p < q => Rank(Starts(s, sep), p) < Rank(Starts(s, sep), q)
      /\ \A k \in 1..Cardinality(Starts(s, sep)) :
             \E p \in Starts(s, sep) : Rank(Starts(s, sep), p) = k
  BY <1>1, Ranks
<1>3. DEFINE n == Cardinality(Starts(s, sep))
             At0(k) == CHOOSE p \in Starts(s, sep) : Rank(Starts(s, sep), p) = k
<1>4. WordsOf(s, sep) = [k \in 1..n |-> SubSeq(s, At0(k), WordEnd(s, sep, At0(k)))]
  BY DEF WordsOf, Rank
<1>5. ASSUME NEW p \in Starts(s, sep)
      PROVE  At0(Rank(Starts(s, sep), p)) = p
  <2>1. ASSUME NEW q \in Starts(s, sep), Rank(Starts(s, sep), q) = Rank(Starts(s, sep), p)
        PROVE  q = p
    <3>1. p \in Nat /\ q \in Nat
      BY <1>1
    <3>2. p < q \/ q < p \/ p = q
      BY <3>1
    <3>3. ~(p < q) /\ ~(q < p)
      BY <1>2, <2>1
    <3>4. QED
      BY <3>2, <3>3
  <2>2. QED
    BY <2>1
<1>6. ASSUME NEW k \in 1..n
      PROVE  At0(k) \in Starts(s, sep) /\ SubSeq(s, At0(k), WordEnd(s, sep, At0(k))) \in Seq(C)
  <2>1. PICK p \in Starts(s, sep) : Rank(Starts(s, sep), p) = k
    BY <1>2
  <2>2. At0(k) = p
    BY <1>5, <2>1
  <2>3. WordEnd(s, sep, p) \in p..Len(s) /\ p \in 1..Len(s)
    BY <1>1, WordEnds
  <2>4. SubSeq(s, p, WordEnd(s, sep, p)) \in Seq(C)
    BY <1>1, <2>3
  <2>5. QED
    BY <2>2, <2>4
<1> HIDE DEF n, At0
<1>7. WordsOf(s, sep) \in Seq(Seq(C)) /\ Len(WordsOf(s, sep)) = n
  <2>1. n \in Nat
    BY <1>2 DEF n
  <2>2. QED
    BY <1>4, <1>6, <2>1
<1>8. ASSUME NEW p \in Starts(s, sep)
      PROVE  /\ Rank(Starts(s, sep), p) \in 1..n
             /\ WordsOf(s, sep)[Rank(Starts(s, sep), p)] = SubSeq(s, p, WordEnd(s, sep, p))
  <2>1. Rank(Starts(s, sep), p) \in 1..n
    BY <1>2 DEF n
  <2>2. QED
    BY <1>4, <1>5, <2>1
<1>9. QED
  BY <1>7, <1>8 DEF n

LEMMA Appended ==
    ASSUME NEW C, NEW s \in Seq(C), NEW c \in C
    PROVE  /\ Append(s, c) \in Seq(C) /\ Len(Append(s, c)) = Len(s) + 1 /\ Len(s) \in Nat
           /\ Append(s, c)[Len(s) + 1] = c
           /\ \A a \in 1..Len(s) : Append(s, c)[a] = s[a]
           /\ \A a \in 1..(Len(s) + 1) : a \in 1..Len(s) \/ a = Len(s) + 1
  OBVIOUS

(* Whether the next character of s begins a word. *)
AtStart(s, sep) == Len(s) > 0 => s[Len(s)] = sep

LEMMA StartsAppend ==
    ASSUME NEW C, NEW s \in Seq(C), NEW c \in C, NEW sep
    PROVE  Starts(Append(s, c), sep) =
               IF c # sep /\ AtStart(s, sep) THEN Starts(s, sep) \cup {Len(s) + 1}
               ELSE Starts(s, sep)
<1>1. PICK t : t = Append(s, c)
  OBVIOUS
<1>2. /\ Len(t) = Len(s) + 1 /\ Len(s) \in Nat /\ t[Len(s) + 1] = c
      /\ \A a \in 1..Len(s) : t[a] = s[a]
      /\ \A a \in 1..(Len(s) + 1) : a \in 1..Len(s) \/ a = Len(s) + 1
  BY <1>1, Appended
<1>3. ASSUME NEW p \in 1..Len(s) PROVE p \in Starts(t, sep) <=> p \in Starts(s, sep)
  <2>1. p > 1 => p - 1 \in 1..Len(s)
    BY <1>2
  <2>2. QED
    BY <1>2, <2>1 DEF Starts
<1>4. Len(s) + 1 \in Starts(t, sep) <=> c # sep /\ AtStart(s, sep)
  <2>1. Len(s) > 0 => (Len(s) + 1) - 1 \in 1..Len(s) /\ (Len(s) + 1) - 1 = Len(s)
    BY <1>2
  <2>2. QED
    BY <1>2, <2>1 DEF Starts, AtStart
<1>5. Starts(t, sep) \in SUBSET (1..(Len(s) + 1)) /\ Starts(s, sep) \in SUBSET (1..Len(s))
  BY <1>2 DEF Starts
<1>6. \A p : p \in Starts(t, sep) <=>
           p \in Starts(s, sep) \/ (p = Len(s) + 1 /\ c # sep /\ AtStart(s, sep))
  <2>1. Len(s) + 1 \notin 1..Len(s)
    BY <1>2
  <2>2. QED
    BY <1>2, <1>3, <1>4, <1>5, <2>1
<1>7. QED
  BY <1>1, <1>6

(* The words keep their ends when the text goes on, except the one that it ends
   with. *)
LEMMA WordEndAppend ==
    ASSUME NEW C, NEW s \in Seq(C), NEW c \in C, NEW sep, NEW p \in Starts(s, sep)
    PROVE  WordEnd(Append(s, c), sep, p) =
               IF WordEnd(s, sep, p) = Len(s) /\ c # sep THEN Len(s) + 1
               ELSE WordEnd(s, sep, p)
<1>1. PICK t : t = Append(s, c)
  OBVIOUS
<1>2. PICK e : e = WordEnd(s, sep, p)
  OBVIOUS
<1>3. /\ t \in Seq(C) /\ Len(t) = Len(s) + 1 /\ Len(s) \in Nat /\ t[Len(s) + 1] = c
      /\ \A a \in 1..Len(s) : t[a] = s[a]
  BY <1>1, Appended
<1>4. /\ p \in 1..Len(s) /\ e \in p..Len(s) /\ p \in 1..Len(t)
      /\ \A q \in p..e : s[q] # sep
      /\ e < Len(s) => s[e + 1] = sep
  BY <1>2, <1>3, WordEnds, StartsAre
<1>5. \A q \in p..e : t[q] # sep
  BY <1>3, <1>4
<1>6. CASE e < Len(s)
  <2>1. e \in p..Len(t) /\ t[e + 1] = sep
    BY <1>3, <1>4, <1>6
  <2>2. WordEnd(t, sep, p) = e
    BY <1>3, <1>4, <1>5, <2>1, WordEndIs
  <2>3. QED
    BY <1>1, <1>2, <1>3, <1>6, <2>2
<1>7. CASE e = Len(s) /\ c = sep
  <2>1. e \in p..Len(t) /\ t[e + 1] = sep
    BY <1>3, <1>4, <1>7
  <2>2. WordEnd(t, sep, p) = e
    BY <1>3, <1>4, <1>5, <2>1, WordEndIs
  <2>3. QED
    BY <1>1, <1>2, <1>7, <2>2
<1>8. CASE e = Len(s) /\ c # sep
  <2>1. Len(s) + 1 \in p..Len(t) /\ ~(Len(s) + 1 < Len(t))
    BY <1>3, <1>4
  <2>2. \A q \in p..(Len(s) + 1) : q \in p..e \/ q = Len(s) + 1
    BY <1>3, <1>4, <1>8
  <2>3. \A q \in p..(Len(s) + 1) : t[q] # sep
    BY <1>3, <1>5, <1>8, <2>2
  <2>4. WordEnd(t, sep, p) = Len(s) + 1
    BY <1>3, <1>4, <2>1, <2>3, WordEndIs
  <2>5. QED
    BY <1>1, <1>2, <1>8, <2>4
<1>9. QED
  BY <1>3, <1>4, <1>6, <1>7, <1>8

(* A word that reaches the end of the text is the last one. *)
LEMMA LastWord ==
    ASSUME NEW C, NEW s \in Seq(C), NEW sep, ~AtStart(s, sep)
    PROVE  /\ Len(WordsOf(s, sep)) > 0
           /\ \A p \in Starts(s, sep) :
                  WordEnd(s, sep, p) = Len(s)
                      <=> Rank(Starts(s, sep), p) = Len(WordsOf(s, sep))
<1>1. Len(s) \in Nat /\ Len(s) > 0 /\ s[Len(s)] # sep
  BY StartsAre DEF AtStart
<1>2. DEFINE S == {q \in 1..Len(s) : \A r \in q..Len(s) : s[r] # sep}
<1>3. S \in SUBSET (1..Len(s)) /\ Len(s) \in S
  BY <1>1
<1>4. PICK last \in S : \A q \in S : last <= q
  BY <1>1, <1>3, LeastAndGreatest
<1>5. last > 1 => s[last - 1] = sep
  <2>1. SUFFICES ASSUME last > 1, s[last - 1] # sep PROVE FALSE
    OBVIOUS
  <2>2. last \in 1..Len(s) /\ \A r \in last..Len(s) : s[r] # sep
    OBVIOUS
  <2>3. last - 1 \in 1..Len(s) /\ \A r \in (last - 1)..Len(s) : r = last - 1 \/ r \in last..Len(s)
    BY <1>1, <2>1, <2>2
  <2>4. last - 1 \in S
    BY <2>1, <2>2, <2>3
  <2>5. QED
    BY <1>4, <2>2, <2>4
<1>6. last \in Starts(s, sep) /\ WordEnd(s, sep, last) = Len(s)
  <2>1. last \in 1..Len(s) /\ \A r \in last..Len(s) : s[r] # sep
    OBVIOUS
  <2>2. Len(s) \in last..Len(s) /\ s[last] # sep
    BY <1>1, <2>1
  <2>3. WordEnd(s, sep, last) = Len(s)
    BY <2>1, <2>2, WordEndIs
  <2>4. QED
    BY <1>5, <2>1, <2>2, <2>3 DEF Starts
<1> HIDE DEF S
<1>7. ASSUME NEW q \in Starts(s, sep) PROVE q <= last
  <2>1. last \in 1..Len(s) /\ \A r \in last..Len(s) : s[r] # sep
    BY <1>4 DEF S
  <2>2. q \in 1..Len(s) /\ (q > 1 => s[q - 1] = sep)
    BY DEF Starts
  <2>3. q > last => q - 1 \in last..Len(s)
    BY <1>1, <2>1, <2>2
  <2>4. QED
    BY <2>1, <2>2, <2>3
<1>8. PICK n : n = Len(WordsOf(s, sep))
  OBVIOUS
<1>9. /\ Starts(s, sep) \in SUBSET (1..Len(s)) /\ n = Cardinality(Starts(s, sep)) /\ n \in Nat
      /\ \A p \in Starts(s, sep) : Rank(Starts(s, sep), p) \in 1..n
      /\ \A p, q \in Starts(s, sep) : p < q => Rank(Starts(s, sep), p) < Rank(Starts(s, sep), q)
  BY <1>8, WordsAre, StartsAre, Ranks
<1>10. Rank(Starts(s, sep), last) = n
  <2>1. {q \in Starts(s, sep) : q <= last} = Starts(s, sep)
    BY <1>7
  <2>2. QED
    BY <1>9, <2>1 DEF Rank
<1>11. ASSUME NEW p \in Starts(s, sep), p # last
       PROVE  WordEnd(s, sep, p) # Len(s) /\ Rank(Starts(s, sep), p) # n
  <2>1. p \in 1..Len(s) /\ last \in 1..Len(s)
    BY <1>6, <1>9
  <2>2. p < last
    BY <1>7, <1>11, <2>1
  <2>3. Rank(Starts(s, sep), p) # n
    BY <1>6, <1>9, <1>10, <2>2
  <2>4. last - 1 \in p..Len(s) /\ s[last - 1] = sep
    BY <1>1, <1>5, <2>1, <2>2
  <2>5. WordEnd(s, sep, p) # Len(s)
    BY <2>4, WordEnds
  <2>6. QED
    BY <2>3, <2>5
<1>12. QED
  BY <1>6, <1>8, <1>9, <1>10, <1>11

(* What a character more makes of the words: nothing, when it separates; a new
   word, when it follows a separator; else the last word has it at its end. *)
Grown(words, c) == [words EXCEPT ![Len(words)] = Append(@, c)]

LEMMA WordsAppend ==
    ASSUME NEW C, NEW s \in Seq(C), NEW c \in C, NEW sep
    PROVE  WordsOf(Append(s, c), sep) =
               IF c = sep THEN WordsOf(s, sep)
               ELSE IF AtStart(s, sep) THEN Append(WordsOf(s, sep), <<c>>)
               ELSE Grown(WordsOf(s, sep), c)
<1>1. PICK t : t = Append(s, c)
  OBVIOUS
<1>2. /\ t \in Seq(C) /\ Len(t) = Len(s) + 1 /\ Len(s) \in Nat /\ t[Len(s) + 1] = c
      /\ \A a \in 1..Len(s) : t[a] = s[a]
  BY <1>1, Appended
<1>3. PICK v, w : v = WordsOf(s, sep) /\ w = WordsOf(t, sep)
  OBVIOUS
<1>4. PICK S, T : S = Starts(s, sep) /\ T = Starts(t, sep)
  OBVIOUS
<1>5. /\ v \in Seq(Seq(C)) /\ Len(v) = Cardinality(S) /\ S \in SUBSET (1..Len(s))
      /\ w \in Seq(Seq(C)) /\ Len(w) = Cardinality(T)
      /\ IsFiniteSet(S) /\ Len(v) \in Nat
      /\ \A k \in 1..Len(v) : \E p \in S : Rank(S, p) = k
  <2>1. /\ v \in Seq(Seq(C)) /\ Len(v) = Cardinality(S) /\ S \in SUBSET (1..Len(s))
        /\ w \in Seq(Seq(C)) /\ Len(w) = Cardinality(T)
    BY <1>2, <1>3, <1>4, WordsAre, StartsAre
  <2>2. /\ IsFiniteSet(S) /\ Cardinality(S) \in Nat
        /\ \A k \in 1..Cardinality(S) : \E p \in S : Rank(S, p) = k
    BY <1>2, <2>1, Ranks
  <2>3. QED
    BY <2>1, <2>2
<1>6. \A p \in S : /\ Rank(S, p) \in 1..Len(v)
                   /\ v[Rank(S, p)] = SubSeq(s, p, WordEnd(s, sep, p))
  BY <1>3, <1>4, WordsAre
<1>7. \A p \in T : /\ Rank(T, p) \in 1..Len(w)
                   /\ w[Rank(T, p)] = SubSeq(t, p, WordEnd(t, sep, p))
  BY <1>2, <1>3, <1>4, WordsAre
<1>8. T = IF c # sep /\ AtStart(s, sep) THEN S \cup {Len(s) + 1} ELSE S
  BY <1>1, <1>4, StartsAppend
<1>9. ASSUME NEW p \in S PROVE Rank(T, p) = Rank(S, p)
  <2>1. p # Len(s) + 1 /\ ~(Len(s) + 1 <= p)
    BY <1>2, <1>5
  <2>2. {q \in T : q <= p} = {q \in S : q <= p}
    BY <1>8, <2>1
  <2>3. QED
    BY <2>2 DEF Rank
<1>10. ASSUME NEW k \in 1..Len(v)
       PROVE  /\ k \in 1..Len(w)
              /\ \/ w[k] = v[k] /\ (c = sep \/ AtStart(s, sep) \/ k # Len(v))
                 \/ w[k] = Append(v[k], c) /\ c # sep /\ ~AtStart(s, sep) /\ k = Len(v)
  <2>1. PICK p \in S : Rank(S, p) = k
    BY <1>5
  <2>2. PICK e : e = WordEnd(s, sep, p)
    OBVIOUS
  <2>3. p \in 1..Len(s) /\ e \in p..Len(s) /\ s[e] # sep /\ p \in T
    <3>1. p \in 1..Len(s) /\ p \in T
      BY <1>5, <1>8
    <3>2. e \in p..Len(s) /\ \A q \in p..e : s[q] # sep
      BY <1>4, <2>2, WordEnds
    <3>3. e \in p..e
      BY <3>1, <3>2
    <3>4. QED
      BY <3>1, <3>2, <3>3
  <2>4. k \in 1..Len(w) /\ w[k] = SubSeq(t, p, WordEnd(t, sep, p)) /\ v[k] = SubSeq(s, p, e)
    BY <1>6, <1>7, <1>9, <2>1, <2>2, <2>3
  <2>5. WordEnd(t, sep, p) = IF e = Len(s) /\ c # sep THEN Len(s) + 1 ELSE e
    BY <1>1, <1>4, <2>2, WordEndAppend
  <2>6. SubSeq(t, p, e) = SubSeq(s, p, e)
    BY <1>2, <2>3
  <2>7. e = Len(s) => SubSeq(t, p, Len(s) + 1) = Append(SubSeq(s, p, e), c)
    BY <1>2, <2>3
  <2>8. e = Len(s) => ~AtStart(s, sep)
    BY <1>2, <2>3 DEF AtStart
  <2>9. ~AtStart(s, sep) => (e = Len(s) <=> k = Len(v))
    BY <1>3, <1>4, <2>1, <2>2, LastWord
  <2>10. QED
    BY <2>4, <2>5, <2>6, <2>7, <2>8, <2>9
<1>11. CASE c = sep \/ ~AtStart(s, sep)
  <2>1. Len(w) = Len(v)
    BY <1>5, <1>8, <1>11
  <2>2. CASE c = sep
    <3>1. \A k \in 1..Len(v) : w[k] = v[k]
      BY <1>10, <2>2
    <3>2. w = v
      BY <1>5, <2>1, <3>1, SeqEqual
    <3>3. QED
      BY <1>1, <1>3, <2>2, <3>2
  <2>3. CASE c # sep /\ ~AtStart(s, sep)
    <3>1. PICK u : u = Grown(v, c)
      OBVIOUS
    <3>2. Len(v) \in 1..Len(v)
      BY <1>3, <1>5, <2>3, LastWord
    <3>3. v[Len(v)] \in Seq(C)
      BY <1>5, <3>2
    <3>4. Append(v[Len(v)], c) \in Seq(C)
      BY <3>3
    <3>5. /\ u \in Seq(Seq(C)) /\ Len(u) = Len(v) /\ u[Len(v)] = Append(v[Len(v)], c)
          /\ \A k \in 1..Len(v) : k # Len(v) => u[k] = v[k]
      BY <1>5, <3>1, <3>2, <3>4 DEF Grown
    <3>6. \A k \in 1..Len(v) : w[k] = u[k]
      BY <1>10, <2>3, <3>5
    <3>7. w = u
      BY <1>5, <2>1, <3>5, <3>6, SeqEqual
    <3>8. QED
      BY <1>1, <1>3, <2>3, <3>1, <3>7
  <2>4. QED
    BY <1>11, <2>2, <2>3
<1>12. CASE c # sep /\ AtStart(s, sep)
  <2>1. PICK p : p = Len(s) + 1
    OBVIOUS
  <2>2. T = S \cup {p} /\ p \notin S /\ p \in T
    BY <1>2, <1>5, <1>8, <1>12, <2>1
  <2>3. Len(w) = Len(v) + 1
    BY <1>5, <2>2, FS_AddElement
  <2>4. Rank(T, p) = Len(w)
    <3>1. \A q \in T : q <= p
      BY <1>2, <1>5, <2>1, <2>2
    <3>2. {q \in T : q <= p} = T
      BY <3>1
    <3>3. QED
      BY <1>5, <3>2 DEF Rank
  <2>5. WordEnd(t, sep, p) = p
    <3>1. p \in 1..Len(t) /\ p \in p..Len(t) /\ ~(p < Len(t))
      BY <1>2, <2>1
    <3>2. \A q \in p..p : t[q] # sep
      BY <1>2, <1>12, <2>1
    <3>3. QED
      BY <1>2, <3>1, <3>2, WordEndIs
  <2>6. SubSeq(t, p, p) = <<c>>
    <3>1. p \in 1..Len(t) /\ t[p] = c
      BY <1>2, <2>1
    <3>2. /\ SubSeq(t, p, p) \in Seq(C) /\ Len(SubSeq(t, p, p)) = 1
          /\ SubSeq(t, p, p)[1] = c
      BY <1>2, <3>1
    <3>3. <<c>> \in Seq(C) /\ Len(<<c>>) = 1 /\ <<c>>[1] = c
      OBVIOUS
    <3>4. \A k \in 1..Len(<<c>>) : SubSeq(t, p, p)[k] = <<c>>[k]
      BY <3>2, <3>3
    <3>5. QED
      BY <3>2, <3>3, <3>4, SeqEqual
  <2>7. w[Len(w)] = <<c>>
    BY <1>7, <2>2, <2>4, <2>5, <2>6
  <2>8. <<c>> \in Seq(C)
    OBVIOUS
  <2>9. PICK u : u = Append(v, <<c>>)
    OBVIOUS
  <2>10. /\ u \in Seq(Seq(C)) /\ Len(u) = Len(v) + 1 /\ u[Len(v) + 1] = <<c>>
         /\ \A k \in 1..Len(v) : u[k] = v[k]
         /\ \A k \in 1..(Len(v) + 1) : k \in 1..Len(v) \/ k = Len(v) + 1
    BY <1>5, <2>8, <2>9, Appended
  <2>11. \A k \in 1..Len(w) : w[k] = u[k]
    BY <1>10, <1>12, <2>3, <2>7, <2>10
  <2>12. w = u
    BY <1>5, <2>3, <2>10, <2>11, SeqEqual
  <2>13. QED
    BY <1>1, <1>3, <1>12, <2>9, <2>12
<1>13. QED
  BY <1>11, <1>12
-----------------------------------------------------------------------------

USE FieldsAssumption

(* What the loop of FormatByChar has made of the first i characters: j
   characters without a separator in front and without two in a row; flag says
   whether the last one is a separator. *)
CopiedSoFar ==
    /\ j \in 0..i /\ i \in 0..Len(src)
    /\ \A o \in 0..(j - 1) : buf[o] \in Chars
    /\ j > 0 => buf[0] # Sep
    /\ \A o \in 0..(j - 2) : buf[o] = Sep => buf[o + 1] # Sep
    /\ flag = 1 => j > 0 /\ buf[j - 1] = Sep
    /\ flag = 0 /\ j > 0 => buf[j - 1] # Sep
    /\ j = 0 /\ i < Len(src) => At(i) # Sep

(* The copy that FormatByChar returns: j characters and the terminator. *)
Copied ==
    /\ j \in 0..Len(src) /\ buf[j] = Nul
    /\ \A o \in 0..(j - 1) : buf[o] \in Chars
    /\ j > 0 => buf[0] # Sep /\ buf[j - 1] # Sep
    /\ \A o \in 0..(j - 2) : buf[o] = Sep => buf[o + 1] # Sep

(* DivideByChar: the string under construction begins at j. *)
Scanned == j \in 0..i /\ i \in 0..(len + 1)

Inv ==
    /\ TypeOK
    /\ pc = "call" => i = 0 /\ j = 0 /\ flag = 0 /\ ret = 0
    /\ pc = "skip" => j = 0 /\ flag = 0 /\ i \in 0..Len(src) /\ ret = 0
    /\ pc = "copy" => CopiedSoFar /\ ret = 0
    /\ pc = "divide" => Copied /\ ret = 0
    /\ pc = "scan" => Scanned

(* n characters other than Nul and then a Nul make a text of length n. *)
LEMMA StrlenAt ==
    ASSUME NEW b, NEW at \in Nat, NEW n \in Nat, DOMAIN b \subseteq Int,
           at + n \in DOMAIN b, b[at + n] = Nul,
           \A k \in 1..n : b[at + k - 1] # Nul
    PROVE  Strlen(b, at) = n
<1>1. \A m \in at..(at + n - 1) : b[m] # Nul
  <2>1. \A m \in at..(at + n - 1) : m - at + 1 \in 1..n /\ at + (m - at + 1) - 1 = m
    OBVIOUS
  <2>2. QED
    BY <2>1
<1>2. ASSUME NEW d \in DOMAIN b, d >= at, b[d] = Nul, \A m \in at..(d - 1) : b[m] # Nul
      PROVE  d = at + n
  <2>1. d \in Int
    OBVIOUS
  <2>2. d < at + n => d \in at..(at + n - 1)
    BY <1>2, <2>1
  <2>3. d > at + n => at + n \in at..(d - 1)
    BY <2>1
  <2>4. QED
    BY <1>1, <1>2, <2>1, <2>2, <2>3
<1>3. TextEnd(b, at) = at + n
  <2>1. at + n >= at /\ (at + n) - 1 = at + n - 1
    OBVIOUS
  <2>2. QED
    BY <1>1, <1>2, <2>1 DEF TextEnd
<1>4. QED
  BY <1>3 DEF Strlen

(* ... at the beginning of a buffer, too. *)
LEMMA StrlenIs ==
    ASSUME NEW N \in Nat, NEW C, Nul \notin C, NEW b \in [0..N -> C \cup {Nul}],
           NEW n \in 0..N, b[n] = Nul, \A o \in 0..(n - 1) : b[o] \in C
    PROVE  Strlen(b, 0) = n
<1>1. DOMAIN b \subseteq Int /\ 0 + n \in DOMAIN b /\ b[0 + n] = Nul /\ n \in Nat
  OBVIOUS
<1>2. ASSUME NEW k \in 1..n PROVE b[0 + k - 1] # Nul
  <2>1. k - 1 \in 0..(n - 1) /\ 0 + k - 1 = k - 1
    BY <1>1
  <2>2. QED
    BY <2>1
<1>3. QED
  BY <1>1, <1>2, StrlenAt

LEMMA InitInv == Init => Inv
  BY DEF Init, Inv, TypeOK, Block, RowStart, Junk

LEMMA NextInv == Inv /\ [Next]_vars => Inv'
<1> SUFFICES ASSUME Inv, [Next]_vars PROVE Inv'
  OBVIOUS
<1> USE DEF Inv, TypeOK
<1>0. Len(src) \in Nat
  OBVIOUS
<1>1. CASE FormatByChar
  BY <1>0, <1>1 DEF FormatByChar, Room, Junk
<1>2. CASE Format_Skip
  BY <1>0, <1>2 DEF Format_Skip, Leading, CopiedSoFar, At
<1>3. CASE Format_Copy
  <2>1. /\ pc = "copy" /\ i < Len(src) /\ i' = i + 1 /\ pc' = "copy" /\ ret' = 0
        /\ CopiedSoFar /\ UNCHANGED <<src, len, argv, ret>>
        /\ i \in 0..Len(src) /\ j \in 0..i /\ At(i) \in Chars
        /\ buf \in [0..Len(src) -> Chars \cup {Nul}]
    BY <1>0, <1>3 DEF Format_Copy, CopiedSoFar, At
  <2>2. CASE At(i) # Sep \/ flag = 0
    <3>1. /\ j' = j + 1 /\ buf' = [buf EXCEPT ![j] = At(i)]
          /\ flag' = IF At(i) = Sep THEN 1 ELSE 0
      BY <1>3, <2>2 DEF Format_Copy, FlagAfter
    <3>2. /\ buf' \in [0..Len(src) -> Chars \cup {Nul}] /\ buf'[j] = At(i)
          /\ \A o \in 0..(j - 1) : buf'[o] = buf[o]
      BY <1>0, <2>1, <3>1
    <3>3. j' \in 0..i' /\ i' \in 0..Len(src) /\ flag' \in {0, 1} /\ j' > 0
      BY <1>0, <2>1, <3>1
    <3>4. \A o \in 0..(j' - 1) : buf'[o] \in Chars
      BY <2>1, <3>1, <3>2 DEF CopiedSoFar
    <3>5. buf'[0] # Sep
      BY <2>1, <3>2 DEF CopiedSoFar
    <3>6. \A o \in 0..(j' - 2) : buf'[o] = Sep => buf'[o + 1] # Sep
      <4> SUFFICES ASSUME NEW o \in 0..(j - 1), buf'[o] = Sep PROVE buf'[o + 1] # Sep
        BY <2>1, <3>1
      <4>1. CASE o = j - 1
        BY <4>1, <2>1, <2>2, <3>2 DEF CopiedSoFar
      <4>2. CASE o # j - 1
        BY <4>2, <2>1, <3>2 DEF CopiedSoFar
      <4>3. QED
        BY <4>1, <4>2
    <3>7. /\ flag' = 1 => buf'[j' - 1] = Sep
          /\ flag' = 0 => buf'[j' - 1] # Sep
      BY <2>1, <3>1, <3>2
    <3>8. CopiedSoFar'
      BY <2>1, <3>3, <3>4, <3>5, <3>6, <3>7 DEF CopiedSoFar
    <3>9. QED
      BY <1>0, <2>1, <3>1, <3>2, <3>3, <3>8
  <2>3. CASE ~(At(i) # Sep \/ flag = 0)
    BY <1>0, <1>3, <2>1, <2>3 DEF Format_Copy, FlagAfter, CopiedSoFar, At
  <2>4. QED
    BY <2>2, <2>3
<1>4. CASE Format_Return
  <2>1. /\ pc = "copy" /\ i = Len(src) /\ CopiedSoFar /\ Trimmed \in 0..Len(src) /\ Trimmed <= j
        /\ buf' = [buf EXCEPT ![Trimmed] = Nul] /\ j' = Trimmed /\ pc' = "divide"
        /\ UNCHANGED <<src, i, flag, len, argv, ret>>
    BY <1>0, <1>4 DEF Format_Return, Trimmed, CopiedSoFar
  <2>2. /\ buf' \in [0..Len(src) -> Chars \cup {Nul}] /\ buf'[j'] = Nul
        /\ \A o \in 0..(j' - 1) : buf'[o] = buf[o]
    BY <1>0, <2>1
  <2>3. j' > 0 => buf'[0] # Sep /\ buf'[j' - 1] # Sep
    <3>1. j' > 0 => buf[0] # Sep
      BY <1>0, <2>1 DEF CopiedSoFar
    <3>2. j' > 0 => buf[j' - 1] # Sep
      <4>1. CASE flag = 1
        <5>1. j' = j - 1 /\ buf[j - 1] = Sep
          BY <2>1, <4>1 DEF Trimmed, CopiedSoFar
        <5>2. j' > 0 => j - 2 \in 0..(j - 2)
          BY <2>1, <5>1 DEF CopiedSoFar
        <5>3. j' > 0 => buf[j - 2] # Sep
          BY <2>1, <5>1, <5>2 DEF CopiedSoFar
        <5>4. QED
          BY <5>1, <5>3, <2>1 DEF CopiedSoFar
      <4>2. CASE flag = 0
        BY <2>1, <4>2 DEF Trimmed, CopiedSoFar
      <4>3. QED
        BY <4>1, <4>2
    <3>3. QED
      BY <2>1, <2>2, <3>1, <3>2
  <2>4. Copied'
    BY <1>0, <2>1, <2>2, <2>3 DEF Copied, CopiedSoFar
  <2>5. QED
    BY <1>0, <2>1, <2>2, <2>4
<1>5. CASE Divide_Begin
  <2>1. pc = "divide" /\ Copied /\ buf \in [0..Len(src) -> Chars \cup {Nul}]
    BY <1>5 DEF Divide_Begin
  <2>2. Strlen(buf, 0) = j /\ j \in 0..Len(src)
    BY <1>0, <2>1, StrlenIs DEF Copied
  <2>3. QED
    BY <1>0, <1>5, <2>1, <2>2 DEF Divide_Begin, Scanned
<1>6. CASE Divide_Scan
  <2>1. /\ pc = "scan" /\ i <= len /\ ret < Row /\ Scanned /\ i' = i + 1
        /\ buf \in [0..Len(src) -> Chars \cup {Nul}]
        /\ UNCHANGED <<src, pc, flag, buf, len>>
        /\ i \in 0..len /\ j \in 0..i /\ ret \in 0..(Row - 1)
    BY <1>0, <1>6 DEF Divide_Scan, InLine, Scanned
  <2>2. ASSUME StoreField PROVE argv' \in [Block -> Chars \cup {Nul}]
    <3>1. FieldLength \in 0..(i - j)
      BY <1>0, <2>1 DEF FieldLength
    <3>2. RowStart(ret) \in Int /\ Block \subseteq Int
      BY <2>1 DEF RowStart, Block
    <3>3. \A o \in Block : o \in RowStart(ret)..(RowStart(ret) + FieldLength - 1) =>
              buf[j + o - RowStart(ret)] \in Chars \cup {Nul}
      <4> SUFFICES ASSUME NEW o \in Int,
                          o \in RowStart(ret)..(RowStart(ret) + FieldLength - 1)
                   PROVE  j + o - RowStart(ret) \in 0..Len(src)
        BY <2>1, <3>2
      <4>1. QED
        BY <1>0, <2>1, <3>1, <3>2
    <3>4. QED
      BY <2>2, <3>3 DEF StoreField
  <2>3. QED
    BY <1>0, <1>6, <2>1, <2>2 DEF Divide_Scan, Scanned
<1>7. CASE Divide_Return
  BY <1>0, <1>7 DEF Divide_Return
<1>8. CASE UNCHANGED vars
  BY <1>8 DEF vars, CopiedSoFar, Copied, Scanned, At
<1>9. QED
  BY <1>1, <1>2, <1>3, <1>4, <1>5, <1>6, <1>7, <1>8 DEF Next

(* The invariant of the two functions' loops holds throughout
   (utility.c:18-93). *)
THEOREM Invariance == Spec => []Inv
  BY InitInv, NextInv, PTL DEF Spec

(* While nothing has been copied, nothing but separators has been read; and a
   function that is over has freed the copy unless it is empty. *)
BlankInv ==
    /\ pc = "call" => buf = NULL
    /\ pc = "skip" \/ (pc = "copy" /\ j = 0) => \A o \in 0..(i - 1) : At(o) = Sep
    /\ pc = "divide" /\ j = 0 => \A o \in 0..(Len(src) - 1) : At(o) = Sep
    /\ pc = "done" /\ buf # NULL => \A o \in 0..(Len(src) - 1) : At(o) = Sep

LEMMA NextBlank == Inv /\ BlankInv /\ [Next]_vars => BlankInv'
<1> SUFFICES ASSUME Inv, BlankInv, [Next]_vars PROVE BlankInv'
  OBVIOUS
<1>0. Len(src) \in Nat
  BY DEF Inv, TypeOK
<1>1. CASE FormatByChar
  BY <1>1 DEF FormatByChar, BlankInv, Inv
<1>2. CASE Format_Skip
  BY <1>0, <1>2 DEF Format_Skip, Leading, BlankInv, At, Inv, TypeOK
<1>3. CASE Format_Copy
  <2>1. /\ pc = "copy" /\ pc' = "copy" /\ i < Len(src) /\ i' = i + 1 /\ src' = src
        /\ j' \in {j, j + 1} /\ CopiedSoFar
    BY <1>3 DEF Format_Copy, Inv
  <2>2. j' = j => j # 0
    BY <1>0, <1>3, <2>1 DEF Format_Copy, CopiedSoFar
  <2>3. j' # 0
    BY <2>1, <2>2 DEF CopiedSoFar
  <2>4. QED
    BY <2>1, <2>3 DEF BlankInv
<1>4. CASE Format_Return
  <2>1. /\ pc = "copy" /\ pc' = "divide" /\ i = Len(src) /\ src' = src /\ j' = Trimmed
        /\ CopiedSoFar
    BY <1>4 DEF Format_Return, Inv
  <2>2. Trimmed = 0 => j = 0
    BY <2>1 DEF Trimmed, CopiedSoFar
  <2>3. QED
    BY <2>1, <2>2 DEF BlankInv, At
<1>5. CASE Divide_Begin
  <2>1. pc = "divide" /\ Copied /\ buf \in [0..Len(src) -> Chars \cup {Nul}]
    BY <1>5 DEF Divide_Begin, Inv, TypeOK
  <2>2. Strlen(buf, 0) = j
    BY <1>0, <2>1, StrlenIs DEF Copied
  <2>3. src' = src /\ pc' \in {"scan", "done"} /\ (pc' = "done" => j = 0)
    BY <1>0, <1>5, <2>1, <2>2 DEF Divide_Begin, Copied
  <2>4. QED
    BY <2>1, <2>3 DEF BlankInv, At
<1>6. CASE Divide_Scan
  BY <1>6 DEF Divide_Scan, BlankInv
<1>7. CASE Divide_Return
  BY <1>7 DEF Divide_Return, Freed, BlankInv
<1>8. CASE UNCHANGED vars
  BY <1>8 DEF vars, BlankInv, At
<1>9. QED
  BY <1>1, <1>2, <1>3, <1>4, <1>5, <1>6, <1>7, <1>8 DEF Next

(* DivideByChar forgets to free a copy only of a line with nothing but
   separators (utility.c:29-51, 70, 88). *)
THEOREM Leaks == Spec => []OnlyBlanksLeak
<1>1. Init => BlankInv
  BY DEF Init, BlankInv
<1>2. BlankInv => OnlyBlanksLeak
  <2> SUFFICES ASSUME BlankInv, pc = "done", buf # NULL, NEW p \in 1..Len(src),
                      src[p] # Sep
               PROVE  FALSE
    BY DEF OnlyBlanksLeak, Starts
  <2>1. p - 1 \in 0..(Len(src) - 1) /\ (p - 1) + 1 = p
    BY DEF Starts
  <2>2. QED
    BY <2>1 DEF BlankInv, At
<1>3. QED
  BY <1>1, <1>2, NextBlank, Invariance, PTL DEF Spec

(* The values of the locals stay what their declarations and the sizes of the
   memory allow (utility.c:18-93). *)
THEOREM TypeCorrect == Spec => []TypeOK
<1>1. Inv => TypeOK
  BY DEF Inv
<1>2. QED
  BY <1>1, Invariance, PTL

(* Neither function writes or reads outside the copy or outside the row at hand,
   whatever the line and the size of the array (utility.c:29-51, 74-86). *)
THEOREM Bounds == Spec => []WritesInBounds
<1>1. Inv => WritesInBounds
  BY DEF Inv, TypeOK, WritesInBounds, CopiedSoFar, Scanned, Trimmed, Room, InLine,
         FieldLength, ZeroAt
<1>2. QED
  BY <1>1, Invariance, PTL

(* The copy of any line begins and ends with something else than the separator
   and never has two separators in a row (utility.c:29-51). *)
THEOREM Clean == Spec => []CopyIsClean
<1>1. ASSUME Inv, pc = "divide" PROVE IsClean(Text(buf, 0), Sep)
  <2>1. Copied /\ buf \in [0..Len(src) -> Chars \cup {Nul}] /\ Len(src) \in Nat
    BY <1>1 DEF Inv, TypeOK
  <2>2. Strlen(buf, 0) = j /\ j \in 0..Len(src)
    BY <2>1, StrlenIs DEF Copied
  <2>3. Text(buf, 0) = [k \in 1..j |-> buf[k - 1]]
    BY <2>2 DEF Text
  <2>4. Len(Text(buf, 0)) = j
    BY <2>2, <2>3
  <2>5. ASSUME NEW p \in 1..j, buf[p - 1] = Sep
        PROVE  1 < p /\ p < j /\ buf[p] # Sep
    BY <2>1, <2>5 DEF Copied
  <2>6. \A p \in 1..j : Text(buf, 0)[p] = buf[p - 1]
    BY <2>2, <2>3
  <2>7. ASSUME NEW p \in 1..j, Text(buf, 0)[p] = Sep
        PROVE  1 < p /\ p < j /\ Text(buf, 0)[p + 1] # Sep
    <3>1. 1 < p /\ p < j /\ buf[p] # Sep
      BY <2>5, <2>6, <2>7
    <3>2. p + 1 \in 1..j /\ (p + 1) - 1 = p
      BY <2>2, <3>1
    <3>3. QED
      BY <2>6, <3>1, <3>2
  <2>8. QED
    BY <2>4, <2>7 DEF IsClean
<1>2. Inv => CopyIsClean
  BY <1>1 DEF CopyIsClean
<1>3. QED
  BY <1>2, Invariance, PTL
-----------------------------------------------------------------------------
(* The first n characters of a copy, and of the line. *)
FirstOf(b, n) == [k \in 1..n |-> b[k - 1]]
Prefix(n) == [k \in 1..n |-> src[k]]

(* Two texts with the same words that the next character finds alike. *)
Alike(s, t) ==
    WordsOf(s, Sep) = WordsOf(t, Sep) /\ (AtStart(s, Sep) <=> AtStart(t, Sep))

LEMMA AlikeAppend ==
    ASSUME NEW C, NEW s \in Seq(C), NEW t \in Seq(C), Alike(s, t), NEW c \in C
    PROVE  Alike(Append(s, c), Append(t, c))
<1>1. ASSUME NEW r \in Seq(C) PROVE AtStart(Append(r, c), Sep) <=> c = Sep
  <2>1. Len(Append(r, c)) > 0 /\ Append(r, c)[Len(Append(r, c))] = c
    BY Appended
  <2>2. QED
    BY <2>1 DEF AtStart
<1>2. WordsOf(Append(s, c), Sep) = WordsOf(Append(t, c), Sep)
  <2>1. /\ WordsOf(Append(s, c), Sep) =
               IF c = Sep THEN WordsOf(s, Sep)
               ELSE IF AtStart(s, Sep) THEN Append(WordsOf(s, Sep), <<c>>)
               ELSE Grown(WordsOf(s, Sep), c)
        /\ WordsOf(Append(t, c), Sep) =
               IF c = Sep THEN WordsOf(t, Sep)
               ELSE IF AtStart(t, Sep) THEN Append(WordsOf(t, Sep), <<c>>)
               ELSE Grown(WordsOf(t, Sep), c)
    BY WordsAppend
  <2>2. QED
    BY <2>1 DEF Alike
<1>3. QED
  BY <1>1, <1>2 DEF Alike

(* A separator that follows another, or begins the text, changes nothing. *)
LEMMA AlikeSeparator ==
    ASSUME NEW C, NEW s \in Seq(C), NEW t \in Seq(C), Alike(s, t), AtStart(s, Sep), Sep \in C
    PROVE  Alike(s, Append(t, Sep))
<1>1. WordsOf(Append(t, Sep), Sep) = WordsOf(t, Sep)
  BY WordsAppend
<1>2. Len(Append(t, Sep)) > 0 /\ Append(t, Sep)[Len(Append(t, Sep))] = Sep
  BY Appended
<1>3. QED
  BY <1>1, <1>2 DEF Alike, AtStart

LEMMA Extended ==
    ASSUME NEW C, NEW n \in Nat, NEW f, \A k \in 1..(n + 1) : f[k] \in C
    PROVE  /\ [k \in 1..n |-> f[k]] \in Seq(C) /\ [k \in 1..(n + 1) |-> f[k]] \in Seq(C)
           /\ Len([k \in 1..n |-> f[k]]) = n
           /\ [k \in 1..(n + 1) |-> f[k]] = Append([k \in 1..n |-> f[k]], f[n + 1])
<1>1. PICK s, t : s = [k \in 1..n |-> f[k]] /\ t = [k \in 1..(n + 1) |-> f[k]]
  OBVIOUS
<1>2. s \in Seq(C) /\ t \in Seq(C) /\ Len(s) = n /\ Len(t) = n + 1
  BY <1>1
<1>3. PICK u : u = Append(s, f[n + 1])
  OBVIOUS
<1>4. /\ u \in Seq(C) /\ Len(u) = n + 1 /\ u[n + 1] = f[n + 1]
      /\ \A a \in 1..n : u[a] = s[a]
      /\ \A a \in 1..(n + 1) : a \in 1..n \/ a = n + 1
  BY <1>2, <1>3, Appended
<1>5. \A a \in 1..(n + 1) : u[a] = t[a]
  BY <1>1, <1>4
<1>6. u = t
  BY <1>2, <1>4, <1>5, SeqEqual
<1>7. QED
  BY <1>1, <1>2, <1>3, <1>6

(* What has been copied has the words of what has been read. *)
KeepInv ==
    /\ pc = "skip" => Alike(<<>>, Prefix(i)) /\ AtStart(Prefix(i), Sep)
    /\ pc = "copy" => Alike(FirstOf(buf, j), Prefix(i))
    /\ pc = "divide" => WordsOf(FirstOf(buf, j), Sep) = WordsOf(src, Sep)

LEMMA PrefixIs ==
    ASSUME Inv
    PROVE  /\ Prefix(0) = <<>> /\ Prefix(Len(src)) = src
           /\ \A n \in 0..Len(src) : Prefix(n) \in Seq(Chars)
           /\ \A n \in 0..(Len(src) - 1) : Prefix(n + 1) = Append(Prefix(n), At(n))
<1>1. src \in Seq(Chars) /\ Len(src) \in Nat /\ \A k \in 1..Len(src) : src[k] \in Chars
  BY DEF Inv, TypeOK
<1>2. ASSUME NEW n \in 0..(Len(src) - 1)
      PROVE  Prefix(n + 1) = Append(Prefix(n), At(n)) /\ Prefix(n) \in Seq(Chars)
  BY <1>1, Extended DEF Prefix, At
<1>3. Prefix(Len(src)) = src
  <2>1. PICK t : t = Prefix(Len(src))
    OBVIOUS
  <2>2. t \in Seq(Chars) /\ Len(t) = Len(src) /\ \A k \in 1..Len(src) : t[k] = src[k]
    BY <1>1, <2>1 DEF Prefix
  <2>3. QED
    BY <1>1, <2>1, <2>2, SeqEqual
<1>4. Prefix(0) = <<>>
  BY DEF Prefix
<1>5. ASSUME NEW n \in 0..Len(src) PROVE Prefix(n) \in Seq(Chars)
  <2>1. n = Len(src) \/ n \in 0..(Len(src) - 1)
    BY <1>1
  <2>2. QED
    BY <1>1, <1>2, <1>3, <2>1
<1>6. QED
  BY <1>2, <1>3, <1>4, <1>5

LEMMA FirstIs ==
    ASSUME NEW b, NEW n \in Nat, \A o \in 0..(n - 1) : b[o] \in Chars
    PROVE  /\ FirstOf(b, n) \in Seq(Chars) /\ Len(FirstOf(b, n)) = n
           /\ \A k \in 1..n : FirstOf(b, n)[k] = b[k - 1]
           /\ AtStart(FirstOf(b, n), Sep) <=> (n > 0 => b[n - 1] = Sep)
           /\ b[n] \in Chars => FirstOf(b, n + 1) = Append(FirstOf(b, n), b[n])
           /\ \A c : (\A o \in 0..(n - 1) : c[o] = b[o]) => FirstOf(c, n) = FirstOf(b, n)
<1>1. PICK s : s = FirstOf(b, n)
  OBVIOUS
<1>2. s \in Seq(Chars) /\ Len(s) = n /\ \A k \in 1..n : s[k] = b[k - 1]
  BY <1>1 DEF FirstOf
<1>3. AtStart(s, Sep) <=> (n > 0 => b[n - 1] = Sep)
  BY <1>2 DEF AtStart
<1>4. ASSUME b[n] \in Chars PROVE FirstOf(b, n + 1) = Append(s, b[n])
  <2>1. PICK f : f = [k \in 1..(n + 1) |-> b[k - 1]]
    OBVIOUS
  <2>2. /\ \A k \in 1..(n + 1) : f[k] = b[k - 1] /\ k - 1 \in 0..n
        /\ f[n + 1] = b[n]
    BY <2>1
  <2>3. \A k \in 1..(n + 1) : f[k] \in Chars
    BY <1>4, <2>2
  <2>4. [k \in 1..(n + 1) |-> f[k]] = Append([k \in 1..n |-> f[k]], f[n + 1])
    BY <2>3, Extended
  <2>5. [k \in 1..(n + 1) |-> f[k]] = FirstOf(b, n + 1) /\ [k \in 1..n |-> f[k]] = s
    BY <1>1, <2>2 DEF FirstOf
  <2>6. QED
    BY <2>2, <2>4, <2>5
<1>5. ASSUME NEW c, \A o \in 0..(n - 1) : c[o] = b[o] PROVE FirstOf(c, n) = s
  BY <1>1, <1>5 DEF FirstOf
<1>6. QED
  BY <1>1, <1>2, <1>3, <1>4, <1>5

LEMMA NextKeep == Inv /\ KeepInv /\ [Next]_vars => KeepInv'
<1> SUFFICES ASSUME Inv, KeepInv, [Next]_vars PROVE KeepInv'
  OBVIOUS
<1>0. /\ Len(src) \in Nat /\ i \in Nat /\ Sep \in Chars /\ <<>> \in Seq(Chars)
      /\ \A o \in 0..(Len(src) - 1) : At(o) \in Chars
  <2>1. \A k \in 1..Len(src) : src[k] \in Chars
    BY DEF Inv, TypeOK
  <2>2. QED
    BY <2>1 DEF Inv, TypeOK, At
<1>1. src' = src /\ \A n : Prefix(n)' = Prefix(n)
  <2>1. src' = src
    BY DEF Next, FormatByChar, Format_Skip, Format_Copy, Format_Return, Divide_Begin,
           Divide_Scan, Divide_Return, vars
  <2>2. QED
    BY <2>1 DEF Prefix
<1>2. CASE FormatByChar
  <2>1. i' = 0 /\ pc' \in {"skip", "done"}
    BY <1>2 DEF FormatByChar, Inv
  <2>2. Prefix(0) = <<>> /\ AtStart(<<>>, Sep)
    BY PrefixIs DEF AtStart
  <2>3. QED
    BY <1>1, <2>1, <2>2 DEF KeepInv, Alike, Prefix
<1>3. CASE Format_Skip
  <2>1. pc = "skip" /\ i \in 0..Len(src) /\ j = 0 /\ Alike(<<>>, Prefix(i)) /\ AtStart(Prefix(i), Sep)
    BY <1>3 DEF Format_Skip, Inv, KeepInv
  <2>2. CASE i < Len(src) /\ Leading
    <3>1. i' = i + 1 /\ pc' = "skip" /\ At(i) = Sep /\ i \in 0..(Len(src) - 1)
      BY <1>0, <1>3, <2>1, <2>2 DEF Format_Skip, Leading
    <3>2. Prefix(i) \in Seq(Chars) /\ Prefix(i + 1) = Append(Prefix(i), Sep)
      BY <2>1, <3>1, PrefixIs
    <3>3. Alike(<<>>, Prefix(i + 1)) /\ AtStart(Prefix(i + 1), Sep)
      <4>1. AtStart(<<>>, Sep)
        BY DEF AtStart
      <4>2. Alike(<<>>, Prefix(i + 1))
        BY <1>0, <2>1, <3>2, <4>1, AlikeSeparator
      <4>3. QED
        BY <4>1, <4>2 DEF Alike
    <3>4. Prefix(i') = Prefix(i + 1)
      BY <3>1
    <3>5. QED
      BY <1>1, <3>1, <3>3, <3>4 DEF KeepInv, Alike, Prefix
  <2>3. CASE ~(i < Len(src) /\ Leading)
    <3>1. UNCHANGED <<i, j>> /\ pc' = "copy"
      BY <1>3, <2>3 DEF Format_Skip
    <3>2. FirstOf(buf', 0) = <<>>
      BY DEF FirstOf
    <3>3. QED
      BY <1>1, <2>1, <3>1, <3>2 DEF KeepInv, Prefix
  <2>4. QED
    BY <2>2, <2>3
<1>4. CASE Format_Copy
  <2>1. /\ pc = "copy" /\ pc' = "copy" /\ i < Len(src) /\ i' = i + 1 /\ CopiedSoFar
        /\ Alike(FirstOf(buf, j), Prefix(i)) /\ buf \in [0..Len(src) -> Chars \cup {Nul}]
    BY <1>4 DEF Format_Copy, Inv, TypeOK, KeepInv
  <2>2. /\ i \in 0..(Len(src) - 1) /\ j \in 0..i /\ j \in Nat /\ j \in 0..Len(src)
        /\ \A o \in 0..(j - 1) : buf[o] \in Chars
    BY <1>0, <2>1 DEF CopiedSoFar
  <2>3. /\ Prefix(i) \in Seq(Chars) /\ Prefix(i + 1) = Append(Prefix(i), At(i))
        /\ At(i) \in Chars
    BY <1>0, <2>2, PrefixIs
  <2>4. FirstOf(buf, j) \in Seq(Chars)
    BY <2>2, FirstIs
  <2>5. CASE At(i) # Sep \/ flag = 0
    <3>1. j' = j + 1 /\ buf' = [buf EXCEPT ![j] = At(i)]
      BY <1>4, <2>5 DEF Format_Copy
    <3>2. /\ buf'[j] = At(i) /\ \A o \in 0..(j - 1) : buf'[o] = buf[o]
      BY <2>1, <2>2, <3>1
    <3>3. FirstOf(buf', j) = FirstOf(buf, j)
      BY <2>2, <3>2, FirstIs
    <3>4. FirstOf(buf', j + 1) = Append(FirstOf(buf', j), At(i))
      <4>1. \A o \in 0..(j - 1) : buf'[o] \in Chars
        BY <2>2, <3>2
      <4>2. QED
        BY <2>2, <2>3, <3>2, <4>1, FirstIs
    <3>5. Alike(FirstOf(buf', j + 1), Prefix(i + 1))
      BY <2>1, <2>3, <2>4, <3>3, <3>4, AlikeAppend
    <3>6. QED
      BY <1>1, <2>1, <3>1, <3>5 DEF KeepInv, Prefix
  <2>6. CASE ~(At(i) # Sep \/ flag = 0)
    <3>1. /\ j' = j /\ buf' = buf /\ At(i) = Sep /\ flag = 1
      BY <1>4, <2>6 DEF Format_Copy, Inv, TypeOK
    <3>2. j > 0 /\ buf[j - 1] = Sep
      BY <2>1, <3>1 DEF CopiedSoFar
    <3>3. AtStart(FirstOf(buf, j), Sep)
      BY <2>2, <3>2, FirstIs
    <3>4. Alike(FirstOf(buf, j), Prefix(i + 1))
      BY <1>0, <2>1, <2>3, <2>4, <3>1, <3>3, AlikeSeparator
    <3>5. QED
      BY <1>1, <2>1, <3>1, <3>4 DEF KeepInv, Prefix
  <2>7. QED
    BY <2>5, <2>6
<1>5. CASE Format_Return
  <2>1. /\ pc = "copy" /\ i = Len(src) /\ CopiedSoFar /\ pc' = "divide" /\ j' = Trimmed
        /\ buf' = [buf EXCEPT ![Trimmed] = Nul] /\ Alike(FirstOf(buf, j), Prefix(i))
        /\ buf \in [0..Len(src) -> Chars \cup {Nul}]
    BY <1>5 DEF Format_Return, Inv, TypeOK, KeepInv
  <2>2. WordsOf(FirstOf(buf, j), Sep) = WordsOf(src, Sep)
    BY <2>1, PrefixIs DEF Alike
  <2>3. /\ j \in Nat /\ j \in 0..Len(src) /\ \A o \in 0..(j - 1) : buf[o] \in Chars
        /\ Trimmed \in 0..j /\ Trimmed \in Nat
    BY <1>0, <2>1 DEF CopiedSoFar, Trimmed
  <2>4. WordsOf(FirstOf(buf, Trimmed), Sep) = WordsOf(FirstOf(buf, j), Sep)
    <3>1. CASE flag = 1
      <4>1. PICK n \in Nat : n = j - 1 /\ n = Trimmed /\ j = n + 1 /\ buf[n] = Sep
        BY <2>1, <2>3, <3>1 DEF Trimmed, CopiedSoFar
      <4>2. FirstOf(buf, j) = Append(FirstOf(buf, n), Sep) /\ FirstOf(buf, n) \in Seq(Chars)
        BY <1>0, <2>3, <4>1, FirstIs
      <4>3. \A t \in Seq(Chars) : WordsOf(Append(t, Sep), Sep) = WordsOf(t, Sep)
        BY <1>0, WordsAppend
      <4>4. QED
        BY <4>1, <4>2, <4>3
    <3>2. CASE flag # 1
      BY <3>2 DEF Trimmed
    <3>3. QED
      BY <3>1, <3>2
  <2>5. \A o \in 0..(Trimmed - 1) : buf'[o] = buf[o]
    BY <2>1, <2>3
  <2>6. FirstOf(buf', Trimmed) = FirstOf(buf, Trimmed)
    BY <2>3, <2>5, FirstIs
  <2>7. QED
    BY <1>1, <2>1, <2>2, <2>4, <2>6 DEF KeepInv
<1>6. CASE Divide_Begin \/ Divide_Scan \/ Divide_Return
  BY <1>6 DEF Divide_Begin, Divide_Scan, Divide_Return, KeepInv
<1>7. CASE UNCHANGED vars
  BY <1>1, <1>7 DEF vars, KeepInv, Prefix
<1>8. QED
  BY <1>2, <1>3, <1>4, <1>5, <1>6, <1>7 DEF Next
-----------------------------------------------------------------------------
(* DivideByChar: the copy that is cut, its len characters followed by a
   separator, has the words of the line; the field at hand begins at j and has no
   separator up to i; and as many fields are stored as words begin before it. *)
Fielded == FirstOf(buf, len)
WordsOfLine == WordsOf(src, Sep)

CutLength(w) == IF Len(w) < Col THEN Len(w) ELSE Col - 1

(* The string of row r of the array is the word w, cut to what fits. *)
RowHolds(r, w) ==
    /\ \A k \in 1..CutLength(w) : argv[RowStart(r) + k - 1] = w[k]
    /\ argv[RowStart(r) + CutLength(w)] = Nul

Stored ==
    /\ ret <= Len(WordsOfLine)
    /\ \A r \in 0..(ret - 1) : RowHolds(r, WordsOfLine[r + 1])

StartsUpTo(n) == {p \in Starts(Fielded, Sep) : p <= n}

ScanInv ==
    /\ len > 0 /\ buf[len] = Sep /\ \A o \in 0..(len - 1) : buf[o] \in Chars
    /\ \A o \in 0..len : buf[o] = Sep => o > 0 /\ buf[o - 1] # Sep
    /\ WordsOf(Fielded, Sep) = WordsOfLine
    /\ j > 0 => buf[j - 1] = Sep
    /\ \A o \in j..(i - 1) : buf[o] # Sep
    /\ i = len + 1 => j = i
    /\ ret = Cardinality(StartsUpTo(j))
    /\ Stored

CutInv ==
    /\ pc = "scan" => ScanInv
    /\ pc = "done" /\ ret > 0 =>
           Stored /\ (ret < Row => ret = Len(WordsOfLine))

FullInv == KeepInv /\ CutInv

LEMMA RowsApart ==
    /\ \A r \in Nat : RowStart(r) \in Nat
    /\ \A r, q \in Nat : r < q => RowStart(r) + Col <= RowStart(q)
<1>1. Col \in Nat /\ Col > 0
  OBVIOUS
<1>2. ASSUME NEW r \in Nat, NEW q \in Nat, r < q PROVE r * Col + Col <= q * Col
  <2>1. PICK d \in Nat : q = r + 1 + d
    <3>1. q - r - 1 \in Nat /\ q = r + 1 + (q - r - 1)
      BY <1>2
    <3>2. QED
      BY <3>1
  <2>2. q * Col = r * Col + Col + d * Col /\ d * Col \in Nat /\ r * Col \in Nat
    BY <1>1, <2>1
  <2>3. QED
    BY <1>1, <2>2
<1>3. \A r \in Nat : r * Col \in Nat
  BY <1>1
<1>4. QED
  BY <1>2, <1>3 DEF RowStart

(* A field is stored in its row, cut to what fits, and the rows above stay. *)
LEMMA StoreEffect ==
    ASSUME Inv, pc = "scan", InLine, ret < Row, StoreField
    PROVE  /\ ZeroAt = (IF i - j < Col THEN i - j ELSE Col - 1) /\ ZeroAt \in 0..(Col - 1)
           /\ \A k \in 0..(ZeroAt - 1) : argv'[RowStart(ret) + k] = buf[j + k]
           /\ argv'[RowStart(ret) + ZeroAt] = Nul
           /\ \A o \in 0..(RowStart(ret) - 1) : argv'[o] = argv[o]
<1>1. /\ i \in Nat /\ j \in 0..i /\ ret \in Nat /\ Row \in Nat /\ Col \in Nat /\ Col > 0
  BY DEF Inv, Scanned, TypeOK
<1>2. /\ ZeroAt = (IF i - j < Col THEN i - j ELSE Col - 1)
      /\ FieldLength = (IF i - j < Col THEN i - j ELSE Col)
  BY <1>1 DEF ZeroAt, FieldLength
<1>3. ZeroAt \in 0..(Col - 1) /\ FieldLength \in 0..Col /\ ZeroAt <= FieldLength
  BY <1>1, <1>2
<1>4. PICK at \in Nat : at = RowStart(ret) /\ at + Col <= RowStart(Row)
  BY <1>1, RowsApart
<1>5. RowStart(Row) \in Nat
  BY <1>1, RowsApart
<1>6. \A o \in 0..(RowStart(Row) - 1) :
          argv'[o] = IF o = at + ZeroAt THEN Nul
                     ELSE IF o \in at..(at + FieldLength - 1) THEN buf[j + o - at] ELSE argv[o]
  BY <1>4 DEF StoreField, Block
<1>7. ASSUME NEW k \in 0..(ZeroAt - 1) PROVE argv'[at + k] = buf[j + k]
  <2>1. /\ at + k \in 0..(RowStart(Row) - 1) /\ at + k # at + ZeroAt
        /\ at + k \in at..(at + FieldLength - 1) /\ j + (at + k) - at = j + k
    BY <1>1, <1>3, <1>4, <1>5
  <2>2. QED
    BY <1>6, <2>1
<1>8. argv'[at + ZeroAt] = Nul
  <2>1. at + ZeroAt \in 0..(RowStart(Row) - 1)
    BY <1>1, <1>3, <1>4, <1>5
  <2>2. QED
    BY <1>6, <2>1
<1>9. ASSUME NEW o \in 0..(at - 1) PROVE argv'[o] = argv[o]
  <2>1. o \in 0..(RowStart(Row) - 1) /\ o # at + ZeroAt /\ o \notin at..(at + FieldLength - 1)
    BY <1>1, <1>3, <1>4, <1>5
  <2>2. QED
    BY <1>6, <2>1
<1>10. QED
  BY <1>2, <1>3, <1>4, <1>7, <1>8, <1>9

(* The field that ends at i, where a separator is, is the next word. *)
LEMMA FieldIsWord ==
    ASSUME Inv, pc = "scan", ScanInv, InLine, buf[i] = Sep
    PROVE  /\ j < i /\ i <= len
           /\ ret + 1 <= Len(WordsOfLine)
           /\ WordsOfLine[ret + 1] \in Seq(Chars)
           /\ Len(WordsOfLine[ret + 1]) = i - j
           /\ \A k \in 1..(i - j) : WordsOfLine[ret + 1][k] = buf[j + k - 1]
           /\ Cardinality(StartsUpTo(i + 1)) = ret + 1
<1>1. /\ len \in Nat /\ i \in 0..len /\ j \in 0..i /\ len > 0
  BY DEF Inv, TypeOK, Scanned, InLine, ScanInv
<1>2. j < i
  <2>1. i > 0 /\ buf[i - 1] # Sep
    BY <1>1 DEF ScanInv
  <2>2. QED
    BY <1>1, <2>1 DEF ScanInv
<1>3. PICK s : s = Fielded
  OBVIOUS
<1>4. s \in Seq(Chars) /\ Len(s) = len /\ \A k \in 1..len : s[k] = buf[k - 1]
  BY <1>1, <1>3, FirstIs DEF Fielded, ScanInv
<1>5. PICK p : p = j + 1
  OBVIOUS
<1>6. p \in 1..len /\ i \in p..len /\ p \in Nat
  BY <1>1, <1>2, <1>5
<1>7. \A q \in p..i : s[q] # Sep
  <2>1. \A q \in p..i : q \in 1..len /\ q - 1 \in j..(i - 1)
    BY <1>1, <1>5
  <2>2. QED
    BY <1>4, <2>1 DEF ScanInv
<1>8. i < len => s[i + 1] = Sep
  <2>1. i < len => i + 1 \in 1..len /\ (i + 1) - 1 = i
    BY <1>1
  <2>2. QED
    BY <1>4, <2>1
<1>9. WordEnd(s, Sep, p) = i
  BY <1>4, <1>6, <1>7, <1>8, WordEndIs
<1>10. p \in Starts(s, Sep)
  <2>1. s[p] # Sep
    BY <1>6, <1>7
  <2>2. p > 1 => s[p - 1] = Sep
    <3>1. p > 1 => j \in 1..len /\ j > 0 /\ p - 1 = j
      BY <1>1, <1>5
    <3>2. QED
      BY <1>4, <3>1 DEF ScanInv
  <2>3. QED
    BY <1>4, <1>6, <2>1, <2>2 DEF Starts
<1>11. \A q \in Starts(s, Sep) : q \in Nat /\ (q > p => q > i + 1)
  <2>1. SUFFICES ASSUME NEW q \in Starts(s, Sep), q > p, q <= i + 1 PROVE FALSE
    BY <1>1, <1>4, StartsAre
  <2>2. q \in 1..len /\ q > 1 /\ s[q - 1] = Sep
    BY <1>4, <1>6, <2>1 DEF Starts
  <2>3. q - 1 \in p..i
    BY <1>1, <1>6, <2>1, <2>2
  <2>4. QED
    BY <1>7, <2>2, <2>3
<1>12. /\ IsFiniteSet(StartsUpTo(j)) /\ p \notin StartsUpTo(j)
       /\ StartsUpTo(p) = StartsUpTo(j) \cup {p}
       /\ StartsUpTo(i + 1) = StartsUpTo(p)
  <2>1. StartsUpTo(j) \in SUBSET (1..len)
    BY <1>3, <1>4, StartsAre DEF StartsUpTo
  <2>2. IsFiniteSet(StartsUpTo(j))
    BY <1>1, <2>1, Ranks
  <2>3. \A q \in Starts(s, Sep) : (q <= p <=> q <= j \/ q = p) /\ (q <= i + 1 <=> q <= p)
    BY <1>1, <1>5, <1>6, <1>11
  <2>4. ~(p <= j)
    BY <1>1, <1>5
  <2>5. QED
    BY <1>3, <1>10, <2>2, <2>3, <2>4 DEF StartsUpTo
<1>13. Cardinality(StartsUpTo(p)) = ret + 1 /\ Rank(Starts(s, Sep), p) = ret + 1
  <2>1. Cardinality(StartsUpTo(p)) = ret + 1
    BY <1>12, FS_AddElement DEF ScanInv
  <2>2. QED
    BY <1>3, <2>1 DEF Rank, StartsUpTo
<1>14. /\ WordsOf(s, Sep) = WordsOfLine
       /\ ret + 1 \in 1..Len(WordsOfLine)
       /\ WordsOfLine[ret + 1] = SubSeq(s, p, i)
  <2>1. WordsOf(s, Sep) = WordsOfLine
    BY <1>3 DEF ScanInv
  <2>2. /\ Rank(Starts(s, Sep), p) \in 1..Len(WordsOf(s, Sep))
        /\ WordsOf(s, Sep)[Rank(Starts(s, Sep), p)] = SubSeq(s, p, WordEnd(s, Sep, p))
    BY <1>4, <1>10, WordsAre
  <2>3. QED
    BY <1>9, <1>13, <2>1, <2>2
<1>15. /\ SubSeq(s, p, i) \in Seq(Chars) /\ Len(SubSeq(s, p, i)) = i - j
       /\ \A k \in 1..(i - j) : SubSeq(s, p, i)[k] = buf[j + k - 1]
  <2>1. SubSeq(s, p, i) \in Seq(Chars) /\ Len(SubSeq(s, p, i)) = i - j
    BY <1>1, <1>4, <1>5, <1>6
  <2>2. ASSUME NEW k \in 1..(i - j) PROVE SubSeq(s, p, i)[k] = buf[j + k - 1]
    <3>1. j + k \in 1..len /\ (j + k) - 1 = j + k - 1
      BY <1>1
    <3>2. SubSeq(s, p, i)[k] = s[j + k]
      BY <1>1, <1>4, <1>5, <1>6
    <3>3. QED
      BY <1>4, <3>1, <3>2
  <2>3. QED
    BY <2>1, <2>2
<1>16. PICK w : w = SubSeq(s, p, i)
  OBVIOUS
<1>17. w \in Seq(Chars) /\ Len(w) = i - j /\ \A k \in 1..(i - j) : w[k] = buf[j + k - 1]
  BY <1>15, <1>16
<1>18. WordsOfLine[ret + 1] = w /\ ret + 1 <= Len(WordsOfLine)
  BY <1>14, <1>16
<1>19. Cardinality(StartsUpTo(i + 1)) = ret + 1
  BY <1>12, <1>13
<1>20. QED
  BY <1>1, <1>2, <1>17, <1>18, <1>19

LEMMA RowStays ==
    ASSUME NEW b, NEW q \in Nat, NEW r \in 0..(q - 1), NEW w, Len(w) \in Nat, RowHolds(r, w),
           argv' = b, \A o \in 0..(RowStart(q) - 1) : b[o] = argv[o]
    PROVE  RowHolds(r, w)'
<1>1. /\ RowStart(r) \in Nat /\ RowStart(q) \in Nat /\ RowStart(r) + Col <= RowStart(q)
      /\ Col \in Nat /\ Col > 0
  <2>1. r \in Nat /\ r < q
    OBVIOUS
  <2>2. RowStart(r) \in Nat /\ RowStart(q) \in Nat /\ RowStart(r) + Col <= RowStart(q)
    BY <2>1, RowsApart
  <2>3. Col \in Nat /\ Col > 0
    OBVIOUS
  <2>4. QED
    BY <2>2, <2>3
<1>2. PICK n \in 0..(Col - 1) : n = CutLength(w)
  BY <1>1 DEF CutLength
<1>3. \A k \in 1..n : RowStart(r) + k - 1 \in 0..(RowStart(q) - 1)
  BY <1>1
<1>4. RowStart(r) + n \in 0..(RowStart(q) - 1)
  BY <1>1
<1>5. (\A k \in 1..n : argv[RowStart(r) + k - 1] = w[k]) /\ argv[RowStart(r) + n] = Nul
  BY <1>2 DEF RowHolds
<1>6. (\A k \in 1..n : b[RowStart(r) + k - 1] = w[k]) /\ b[RowStart(r) + n] = Nul
  BY <1>3, <1>4, <1>5
<1>7. QED
  BY <1>2, <1>6 DEF RowHolds, CutLength, RowStart

LEMMA WordsOfLineAre ==
    ASSUME Inv
    PROVE  /\ WordsOfLine \in Seq(Seq(Chars)) /\ Len(WordsOfLine) \in Nat
           /\ \A k \in 1..Len(WordsOfLine) : Len(WordsOfLine[k]) \in Nat
<1>1. src \in Seq(Chars)
  BY DEF Inv, TypeOK
<1>2. WordsOfLine \in Seq(Seq(Chars))
  BY <1>1, WordsAre DEF WordsOfLine
<1>3. \A k \in 1..Len(WordsOfLine) : WordsOfLine[k] \in Seq(Chars)
  BY <1>2
<1>4. QED
  BY <1>2, <1>3

LEMMA BeginScan == Inv /\ KeepInv /\ CutInv /\ Divide_Begin => CutInv'
<1> SUFFICES ASSUME Inv, KeepInv, CutInv, Divide_Begin PROVE CutInv'
  OBVIOUS
<1>1. /\ pc = "divide" /\ Copied /\ ret = 0 /\ src' = src /\ ret' = ret /\ i' = 0 /\ j' = 0
      /\ len' = Strlen(buf, 0) /\ buf \in [0..Len(src) -> Chars \cup {Nul}] /\ Len(src) \in Nat
  BY DEF Divide_Begin, Inv, TypeOK
<1>2. len' = j /\ j \in 0..Len(src) /\ \A o \in 0..(j - 1) : buf[o] \in Chars
  BY <1>1, StrlenIs DEF Copied
<1>3. CASE ~(len' > 0)
  BY <1>1, <1>3 DEF Divide_Begin, CutInv
<1>4. CASE len' > 0
  <2>1. pc' = "scan" /\ buf' = [buf EXCEPT ![j] = Sep]
    BY <1>2, <1>4 DEF Divide_Begin
  <2>2. buf'[j] = Sep /\ \A o \in 0..(j - 1) : buf'[o] = buf[o]
    BY <1>1, <1>2, <2>1
  <2>3. FirstOf(buf', j) = FirstOf(buf, j)
    BY <1>2, <2>2, FirstIs
  <2>4. (WordsOf(Fielded, Sep) = WordsOfLine)'
    BY <1>1, <1>2, <2>3 DEF Fielded, WordsOfLine, KeepInv
  <2>5. \A o \in 0..j : buf'[o] = Sep => o > 0 /\ buf'[o - 1] # Sep
    <3>1. SUFFICES ASSUME NEW o \in 0..j, buf'[o] = Sep PROVE o > 0 /\ buf'[o - 1] # Sep
      OBVIOUS
    <3>2. CASE o = j
      <4>1. j > 0 /\ buf[j - 1] # Sep /\ j - 1 \in 0..(j - 1)
        BY <1>1, <1>2, <1>4 DEF Copied
      <4>2. QED
        BY <2>2, <3>2, <4>1
    <3>3. CASE o # j
      <4>1. o \in 0..(j - 1) /\ buf[o] = Sep
        BY <1>2, <2>2, <3>1, <3>3
      <4>2. o > 0
        BY <1>1, <1>2, <1>4, <4>1 DEF Copied
      <4>3. o - 1 \in 0..(j - 2) /\ (o - 1) + 1 = o /\ o - 1 \in 0..(j - 1)
        BY <1>2, <4>1, <4>2
      <4>4. buf[o - 1] # Sep
        BY <1>1, <4>1, <4>3 DEF Copied
      <4>5. QED
        BY <2>2, <4>2, <4>3, <4>4
    <3>4. QED
      BY <3>2, <3>3
  <2>6. ret' = Cardinality(StartsUpTo(j))'
    <3>1. Fielded' \in Seq(Chars)
      <4>1. \A o \in 0..(j - 1) : buf'[o] \in Chars
        BY <1>2, <2>2
      <4>2. Fielded' = FirstOf(buf', j)
        BY <1>2 DEF Fielded
      <4>3. QED
        BY <1>2, <4>1, <4>2, FirstIs
    <3>2. PICK s \in Seq(Chars) : s = Fielded'
      BY <3>1
    <3>3. \A p \in Starts(s, Sep) : ~(p <= 0)
      BY StartsAre
    <3>4. {p \in Starts(s, Sep) : p <= 0} = {}
      BY <3>3
    <3>5. StartsUpTo(j)' = {}
      BY <1>1, <3>2, <3>4 DEF StartsUpTo
    <3>6. QED
      BY <1>1, <3>5, FS_EmptySet
  <2>7. Stored'
    <3>1. WordsOfLine' = WordsOfLine /\ Len(WordsOfLine) \in Nat
      BY <1>1, WordsOfLineAre DEF WordsOfLine
    <3>2. QED
      BY <1>1, <3>1 DEF Stored
  <2>8. \A o \in 0..(j - 1) : buf'[o] \in Chars
    BY <1>2, <2>2
  <2>9. ScanInv'
    BY <1>1, <1>2, <1>4, <2>2, <2>4, <2>5, <2>6, <2>7, <2>8 DEF ScanInv
  <2>10. QED
    BY <2>1, <2>9 DEF CutInv
<1>5. QED
  BY <1>3, <1>4

LEMMA StoredNext ==
    ASSUME WordsOfLine' = WordsOfLine, ret' <= Len(WordsOfLine),
           \A r \in 0..(ret' - 1) : \A v : v = WordsOfLine[r + 1] => RowHolds(r, v)'
    PROVE  Stored'
<1>1. ASSUME NEW r \in 0..(ret' - 1) PROVE RowHolds(r, WordsOfLine[r + 1])'
  <2>1. PICK v : v = WordsOfLine[r + 1]
    OBVIOUS
  <2>2. RowHolds(r, v)'
    BY <2>1
  <2>3. QED
    BY <2>1, <2>2 DEF RowHolds, CutLength
<1>2. QED
  BY <1>1 DEF Stored

LEMMA ScanStep == Inv /\ CutInv /\ Divide_Scan => CutInv'
<1> SUFFICES ASSUME Inv, CutInv, Divide_Scan PROVE CutInv'
  OBVIOUS
<1>1. /\ pc = "scan" /\ pc' = "scan" /\ InLine /\ i <= len /\ ret < Row /\ ScanInv
      /\ i' = i + 1 /\ UNCHANGED <<src, buf, len>>
  BY DEF Divide_Scan, InLine, CutInv
<1>2. /\ len \in Nat /\ i \in 0..len /\ j \in 0..i /\ ret \in Nat
  BY <1>1 DEF Inv, TypeOK, Scanned
<1>3. WordsOfLine' = WordsOfLine /\ Fielded' = Fielded
  BY <1>1 DEF WordsOfLine, Fielded, FirstOf
<1>4. \A n : StartsUpTo(n)' = StartsUpTo(n)
  BY <1>3 DEF StartsUpTo
<1>5. CASE buf[i] # Sep
  <2>1. UNCHANGED <<argv, j, ret>> /\ i # len
    BY <1>1, <1>5 DEF Divide_Scan, ScanInv
  <2>2. Stored'
    <3>1. \A r, v : RowHolds(r, v) => RowHolds(r, v)'
      BY <2>1 DEF RowHolds, CutLength, RowStart
    <3>2. ret <= Len(WordsOfLine) /\ \A r \in 0..(ret - 1) : RowHolds(r, WordsOfLine[r + 1])
      BY <1>1 DEF ScanInv, Stored
    <3>3. QED
      BY <1>3, <2>1, <3>1, <3>2, StoredNext
  <2>3. \A o \in j..i : buf[o] # Sep
    <3>1. \A o \in j..i : o \in j..(i - 1) \/ o = i
      BY <1>2
    <3>2. QED
      BY <1>1, <1>5, <3>1 DEF ScanInv
  <2>4. \A o \in j'..(i' - 1) : buf'[o] # Sep
    BY <1>1, <1>2, <2>1, <2>3
  <2>5. i' = len' + 1 => j' = i'
    BY <1>1, <1>2, <2>1
  <2>6. (ret = Cardinality(StartsUpTo(j)))'
    BY <1>1, <1>4, <2>1 DEF ScanInv
  <2>7. (WordsOf(Fielded, Sep) = WordsOfLine)'
    BY <1>1, <1>3 DEF ScanInv
  <2>8. /\ len' > 0 /\ buf'[len'] = Sep /\ \A o \in 0..(len' - 1) : buf'[o] \in Chars
        /\ \A o \in 0..len' : buf'[o] = Sep => o > 0 /\ buf'[o - 1] # Sep
        /\ j' > 0 => buf'[j' - 1] = Sep
    BY <1>1, <2>1 DEF ScanInv
  <2>9. ScanInv'
    BY <2>2, <2>4, <2>5, <2>6, <2>7, <2>8 DEF ScanInv
  <2>10. QED
    BY <1>1, <2>9 DEF CutInv
<1>6. CASE buf[i] = Sep
  <2>1. StoreField /\ j' = i + 1 /\ ret' = ret + 1
    BY <1>6 DEF Divide_Scan
  <2>2. PICK w : w = WordsOfLine[ret + 1]
    OBVIOUS
  <2>3. /\ j < i /\ ret + 1 <= Len(WordsOfLine) /\ Len(w) = i - j
        /\ \A k \in 1..(i - j) : w[k] = buf[j + k - 1]
        /\ Cardinality(StartsUpTo(i + 1)) = ret + 1
    BY <1>1, <1>6, <2>2, FieldIsWord
  <2>4. /\ CutLength(w) = ZeroAt /\ ZeroAt \in 0..(Col - 1) /\ ZeroAt <= i - j
        /\ \A k \in 0..(ZeroAt - 1) : argv'[RowStart(ret) + k] = buf[j + k]
        /\ argv'[RowStart(ret) + ZeroAt] = Nul
        /\ \A o \in 0..(RowStart(ret) - 1) : argv'[o] = argv[o]
    <3>1. /\ ZeroAt = (IF i - j < Col THEN i - j ELSE Col - 1) /\ ZeroAt \in 0..(Col - 1)
          /\ \A k \in 0..(ZeroAt - 1) : argv'[RowStart(ret) + k] = buf[j + k]
          /\ argv'[RowStart(ret) + ZeroAt] = Nul
          /\ \A o \in 0..(RowStart(ret) - 1) : argv'[o] = argv[o]
      BY <1>1, <2>1, StoreEffect
    <3>2. i - j \in Nat /\ Col \in Nat
      BY <1>2
    <3>3. CutLength(w) = ZeroAt /\ ZeroAt <= i - j
      BY <2>3, <3>1, <3>2 DEF CutLength
    <3>4. QED
      BY <3>1, <3>3
  <2>5. PICK r \in Nat : r = ret
    BY <1>2
  <2>6. RowHolds(r, w)'
    <3>1. PICK b : b = argv'
      OBVIOUS
    <3>2. PICK at : at = RowStart(r) /\ at \in Nat
      BY <2>5, RowsApart
    <3>3. PICK n : n = ZeroAt
      OBVIOUS
    <3>4. ASSUME NEW k \in 1..n PROVE b[at + k - 1] = w[k]
      <4>1. /\ k - 1 \in 0..(n - 1) /\ at + (k - 1) = at + k - 1 /\ j + (k - 1) = j + k - 1
            /\ k \in 1..(i - j)
        BY <1>2, <2>4, <3>2, <3>3
      <4>2. b[at + (k - 1)] = buf[j + (k - 1)]
        BY <2>4, <2>5, <3>1, <3>2, <3>3, <4>1
      <4>3. QED
        BY <2>3, <4>1, <4>2
    <3>5. b[at + n] = Nul
      BY <2>4, <2>5, <3>1, <3>2, <3>3
    <3>6. QED
      BY <2>4, <3>1, <3>2, <3>3, <3>4, <3>5 DEF RowHolds, CutLength, RowStart
  <2>7. ASSUME NEW q \in 0..(r - 1), NEW v, v = WordsOfLine[q + 1] PROVE RowHolds(q, v)'
    <3>1. PICK b : b = argv'
      OBVIOUS
    <3>2. RowHolds(q, v)
      BY <1>1, <2>5, <2>7 DEF ScanInv, Stored
    <3>3. Len(v) \in Nat
      <4>1. q + 1 \in 1..Len(WordsOfLine)
        BY <2>3, <2>5, WordsOfLineAre
      <4>2. QED
        BY <2>7, <4>1, WordsOfLineAre
    <3>4. QED
      BY <2>4, <2>5, <3>1, <3>2, <3>3, RowStays
  <2>8. Stored'
    <3>1. ASSUME NEW q \in 0..(ret' - 1), NEW v, v = WordsOfLine[q + 1] PROVE RowHolds(q, v)'
      <4>1. q = r \/ q \in 0..(r - 1)
        BY <2>1, <2>5
      <4>2. QED
        BY <2>2, <2>5, <2>6, <2>7, <3>1, <4>1
    <3>2. QED
      BY <1>3, <2>1, <2>3, <3>1, StoredNext
  <2>9. (ret = Cardinality(StartsUpTo(j)))'
    <3>1. PICK n : n = i + 1
      OBVIOUS
    <3>2. StartsUpTo(n)' = StartsUpTo(n)
      BY <1>4
    <3>3. QED
      BY <2>1, <2>3, <3>1, <3>2 DEF StartsUpTo
  <2>10. /\ len' > 0 /\ buf'[len'] = Sep /\ \A o \in 0..(len' - 1) : buf'[o] \in Chars
         /\ \A o \in 0..len' : buf'[o] = Sep => o > 0 /\ buf'[o - 1] # Sep
         /\ (WordsOf(Fielded, Sep) = WordsOfLine)'
    BY <1>1, <1>3 DEF ScanInv
  <2>11. /\ j' > 0 => buf'[j' - 1] = Sep
         /\ \A o \in j'..(i' - 1) : buf'[o] # Sep
         /\ i' = len' + 1 => j' = i'
    BY <1>1, <1>2, <1>6, <2>1
  <2>12. ScanInv'
    BY <2>8, <2>9, <2>10, <2>11 DEF ScanInv
  <2>13. QED
    BY <1>1, <2>12 DEF CutInv
<1>7. QED
  BY <1>5, <1>6

LEMMA NextCut == Inv /\ FullInv /\ [Next]_vars => CutInv'
<1> SUFFICES ASSUME Inv, FullInv, [Next]_vars PROVE CutInv'
  OBVIOUS
<1>1. CASE FormatByChar
  <2>1. pc = "call" /\ ret = 0 /\ ret' = ret /\ pc' # "scan"
    BY <1>1 DEF FormatByChar, Inv
  <2>2. QED
    BY <2>1 DEF CutInv
<1>2. CASE Format_Skip \/ Format_Copy \/ Format_Return
  BY <1>2 DEF Format_Skip, Format_Copy, Format_Return, CutInv
<1>3. CASE Divide_Begin
  BY <1>3, BeginScan DEF FullInv
<1>4. CASE Divide_Scan
  BY <1>4, ScanStep DEF FullInv
<1>5. CASE Divide_Return
  <2>1. /\ pc = "scan" /\ ScanInv /\ ~(InLine /\ ret < Row) /\ pc' = "done"
        /\ UNCHANGED <<src, argv, ret>>
    BY <1>5 DEF Divide_Return, FullInv, CutInv
  <2>2. /\ len \in Nat /\ i \in 0..(len + 1) /\ ret \in Nat
    BY <2>1 DEF Inv, TypeOK, Scanned
  <2>3. Stored'
    <3>1. WordsOfLine' = WordsOfLine
      BY <2>1 DEF WordsOfLine
    <3>2. \A r, v : RowHolds(r, v) => RowHolds(r, v)'
      BY <2>1 DEF RowHolds, CutLength, RowStart
    <3>3. ret <= Len(WordsOfLine) /\ \A r \in 0..(ret - 1) : RowHolds(r, WordsOfLine[r + 1])
      BY <2>1 DEF ScanInv, Stored
    <3>4. QED
      BY <2>1, <3>1, <3>2, <3>3, StoredNext
  <2>4. ret < Row => ret = Len(WordsOfLine)
    <3>1. SUFFICES ASSUME ret < Row PROVE ret = Len(WordsOfLine)
      OBVIOUS
    <3>2. j = len + 1
      BY <2>1, <2>2, <3>1 DEF InLine, ScanInv
    <3>3. PICK s : s = Fielded
      OBVIOUS
    <3>4. s \in Seq(Chars) /\ Len(s) = len
      BY <2>1, <2>2, <3>3, FirstIs DEF Fielded, ScanInv
    <3>5. \A p \in Starts(s, Sep) : p <= len + 1
      BY <2>2, <3>4, StartsAre
    <3>6. {p \in Starts(s, Sep) : p <= len + 1} = Starts(s, Sep)
      BY <3>5
    <3>7. ret = Cardinality(Starts(s, Sep))
      BY <2>1, <3>2, <3>3, <3>6 DEF ScanInv, StartsUpTo
    <3>8. WordsOf(s, Sep) = WordsOfLine
      BY <2>1, <3>3 DEF ScanInv
    <3>9. QED
      BY <3>4, <3>7, <3>8, WordsAre
  <2>5. (ret < Row => ret = Len(WordsOfLine))'
    BY <2>1, <2>4 DEF WordsOfLine
  <2>6. QED
    BY <2>1, <2>3, <2>5 DEF CutInv
<1>6. CASE UNCHANGED vars
  <2>1. CutInv
    BY DEF FullInv
  <2>2. UNCHANGED <<src, pc, i, j, buf, len, argv, ret>>
    BY <1>6 DEF vars
  <2>3. Fielded' = Fielded /\ WordsOfLine' = WordsOfLine
    BY <2>2 DEF Fielded, FirstOf, WordsOfLine
  <2>4. Stored' <=> Stored
    BY <2>2, <2>3 DEF Stored, RowHolds, CutLength, RowStart
  <2>5. (ret = Cardinality(StartsUpTo(j)))' <=> ret = Cardinality(StartsUpTo(j))
    BY <2>2, <2>3 DEF StartsUpTo
  <2>6. ScanInv' <=> ScanInv
    BY <2>2, <2>3, <2>4, <2>5 DEF ScanInv
  <2>7. QED
    BY <2>1, <2>2, <2>3, <2>4, <2>6 DEF CutInv
<1>7. QED
  BY <1>1, <1>2, <1>3, <1>4, <1>5, <1>6 DEF Next

LEMMA FullInvariance == Spec => []FullInv
<1>1. Init => FullInv
  BY DEF Init, FullInv, KeepInv, CutInv
<1>2. Inv /\ FullInv /\ [Next]_vars => FullInv'
  BY NextKeep, NextCut DEF FullInv
<1>3. QED
  BY <1>1, <1>2, Invariance, PTL DEF Spec

(* CharCount counts. *)
LEMMA CharCountIs ==
    ASSUME NEW C, NEW s \in Seq(C), NEW c
    PROVE  CharCount(s, c) = Cardinality({k \in 1..Len(s) : s[k] = c})
<1>0. Len(s) \in Nat
  OBVIOUS
<1>1. DEFINE upTo(n) == {k \in 1..n : s[k] = c}
             g == [n \in 0..Len(s) |-> Cardinality(upTo(n))]
             f == CHOOSE h : h = [n \in 0..Len(s) |->
                      IF n = 0 THEN 0 ELSE h[n - 1] + (IF s[n] = c THEN 1 ELSE 0)]
<1>2. CharCount(s, c) = f[Len(s)]
  BY DEF CharCount
<1>3. upTo(0) = {} /\ Cardinality(upTo(0)) = 0
  <2>1. upTo(0) = {}
    OBVIOUS
  <2>2. QED
    BY <2>1, FS_EmptySet
<1>4. ASSUME NEW n \in 1..Len(s)
      PROVE  Cardinality(upTo(n)) = Cardinality(upTo(n - 1)) + (IF s[n] = c THEN 1 ELSE 0)
  <2>1. n - 1 \in Nat /\ upTo(n - 1) \in SUBSET (1..(n - 1)) /\ n \notin 1..(n - 1)
    BY <1>0
  <2>2. IsFiniteSet(upTo(n - 1)) /\ Cardinality(upTo(n - 1)) \in Nat
    BY <2>1, Ranks
  <2>3. \A k \in 1..n : k \in 1..(n - 1) \/ k = n
    BY <1>0
  <2>4. upTo(n) = IF s[n] = c THEN upTo(n - 1) \cup {n} ELSE upTo(n - 1)
    BY <1>0, <2>3
  <2>5. n \notin upTo(n - 1)
    BY <2>1
  <2>6. Cardinality(upTo(n - 1) \cup {n}) = Cardinality(upTo(n - 1)) + 1
    BY <2>2, <2>5, FS_AddElement
  <2>7. CASE s[n] = c
    BY <2>4, <2>6, <2>7
  <2>8. CASE s[n] # c
    <3>1. upTo(n) = upTo(n - 1)
      BY <2>4, <2>8
    <3>2. Cardinality(upTo(n)) = Cardinality(upTo(n - 1)) /\ Cardinality(upTo(n - 1)) \in Nat
      BY <2>2, <3>1
    <3>3. QED
      BY <2>8, <3>2
  <2>9. QED
    BY <2>7, <2>8
<1>5. g = [n \in 0..Len(s) |->
              IF n = 0 THEN 0 ELSE g[n - 1] + (IF s[n] = c THEN 1 ELSE 0)]
  <2>1. ASSUME NEW n \in 0..Len(s)
        PROVE  g[n] = IF n = 0 THEN 0 ELSE g[n - 1] + (IF s[n] = c THEN 1 ELSE 0)
    <3>1. n # 0 => n \in 1..Len(s) /\ n - 1 \in 0..Len(s)
      BY <1>0
    <3>2. QED
      BY <1>3, <1>4, <3>1
  <2>2. QED
    BY <2>1
<1>6. f = [n \in 0..Len(s) |->
              IF n = 0 THEN 0 ELSE f[n - 1] + (IF s[n] = c THEN 1 ELSE 0)]
  BY <1>5, Zenon
<1> HIDE DEF f, g, upTo
<1>7. {n \in 1..Len(s) : f[n] # g[n]} = {}
  <2>1. SUFFICES ASSUME {n \in 1..Len(s) : f[n] # g[n]} # {} PROVE FALSE
    OBVIOUS
  <2>2. PICK n \in 1..Len(s) :
            f[n] # g[n] /\ \A m \in 1..Len(s) : f[m] # g[m] => n <= m
    <3>1. {n \in 1..Len(s) : f[n] # g[n]} \in SUBSET (1..Len(s))
      OBVIOUS
    <3>2. PICK n \in {n \in 1..Len(s) : f[n] # g[n]} :
              \A m \in {m \in 1..Len(s) : f[m] # g[m]} : n <= m
      BY <1>0, <2>1, <3>1, LeastAndGreatest
    <3>3. QED
      BY <3>2
  <2>3. /\ n - 1 \in 0..Len(s) /\ n \in 0..Len(s) /\ n # 0 /\ 0 \in 0..Len(s)
        /\ n - 1 = 0 \/ (n - 1 \in 1..Len(s) /\ ~(n <= n - 1))
    BY <1>0
  <2>4. f[0] = 0 /\ g[0] = 0
    BY <1>5, <1>6, <2>3
  <2>5. f[n - 1] = g[n - 1]
    BY <2>2, <2>3, <2>4
  <2>6. /\ f[n] = f[n - 1] + (IF s[n] = c THEN 1 ELSE 0)
        /\ g[n] = g[n - 1] + (IF s[n] = c THEN 1 ELSE 0)
    BY <1>5, <1>6, <2>3
  <2>7. QED
    BY <2>2, <2>5, <2>6
<1>8. f[Len(s)] = g[Len(s)]
  <2>1. Len(s) = 0 \/ Len(s) \in 1..Len(s)
    BY <1>0
  <2>2. 0 \in 0..Len(s)
    BY <1>0
  <2>3. f[0] = 0 /\ g[0] = 0
    BY <1>5, <1>6, <2>2
  <2>4. QED
    BY <1>7, <2>1, <2>3
<1>9. g[Len(s)] = Cardinality({k \in 1..Len(s) : s[k] = c})
  BY <1>0 DEF g, upTo
<1>10. QED
  BY <1>2, <1>8, <1>9

(* A text that is clean and not empty has one word more than separators. *)
LEMMA WordsAndSeparators ==
    ASSUME NEW C, NEW s \in Seq(C), NEW sep, IsClean(s, sep), Len(s) > 0
    PROVE  CharCount(s, sep) + 1 = Len(WordsOf(s, sep))
<1>0. Len(s) \in Nat
  OBVIOUS
<1>1. PICK S, T : S = {p \in 1..Len(s) : s[p] = sep} /\ T = Starts(s, sep)
  OBVIOUS
<1>2. \A p \in S : p \in 1..Len(s) /\ s[p] = sep /\ p + 1 \in 1..Len(s) /\ s[p + 1] # sep
  BY <1>0, <1>1 DEF IsClean
<1>3. 1 \in T /\ 1 \in 1..Len(s)
  <2>1. 1 \in 1..Len(s) /\ s[1] # sep
    BY <1>0 DEF IsClean
  <2>2. QED
    BY <1>1, <2>1 DEF Starts
<1>4. T \in SUBSET (1..Len(s)) /\ S \in SUBSET (1..Len(s))
  BY <1>1, StartsAre
<1>5. PICK f : f = [p \in S |-> p + 1]
  OBVIOUS
<1>6. f \in Bijection(S, T \ {1})
  <2>1. ASSUME NEW p \in S PROVE f[p] \in T \ {1}
    <3>1. p + 1 \in T
      <4>1. (p + 1) - 1 = p
        BY <1>2
      <4>2. QED
        BY <1>1, <1>2, <4>1 DEF Starts
    <3>2. p + 1 # 1
      BY <1>2
    <3>3. QED
      BY <1>5, <3>1, <3>2
  <2>2. ASSUME NEW p \in S, NEW q \in S, f[p] = f[q] PROVE p = q
    BY <1>2, <1>5, <2>2
  <2>3. ASSUME NEW t \in T \ {1} PROVE \E p \in S : f[p] = t
    <3>1. t \in 1..Len(s) /\ t > 1 /\ s[t - 1] = sep
      BY <1>0, <1>1, <1>4 DEF Starts
    <3>2. t - 1 \in S /\ (t - 1) + 1 = t
      BY <1>0, <1>1, <3>1
    <3>3. QED
      BY <1>5, <3>2
  <2>4. f \in [S -> T \ {1}] /\ DOMAIN f = S
    BY <1>5, <2>1
  <2>5. f \in Injection(S, T \ {1})
    BY <2>2, <2>4 DEF Injection, IsInjective
  <2>6. f \in Surjection(S, T \ {1})
    BY <2>3, <2>4 DEF Surjection
  <2>7. QED
    BY <2>5, <2>6 DEF Bijection
<1>7. IsFiniteSet(S) /\ IsFiniteSet(T) /\ Cardinality(S) \in Nat /\ Cardinality(T) \in Nat
  BY <1>0, <1>4, Ranks
<1>8. Cardinality(T \ {1}) = Cardinality(S)
  BY <1>6, <1>7, FS_Bijection DEF ExistsBijection
<1>9. Cardinality(T \ {1}) = Cardinality(T) - 1
  BY <1>3, <1>7, FS_RemoveElement
<1>10. CharCount(s, sep) = Cardinality(S)
  BY <1>1, CharCountIs
<1>11. Len(WordsOf(s, sep)) = Cardinality(T)
  BY <1>1, WordsAre
<1>12. QED
  BY <1>7, <1>8, <1>9, <1>10, <1>11

LEMMA CopyText ==
    ASSUME Inv, pc = "divide"
    PROVE  /\ j \in Nat /\ Strlen(buf, 0) = j /\ Text(buf, 0) = FirstOf(buf, j)
           /\ FirstOf(buf, j) \in Seq(Chars) /\ Len(FirstOf(buf, j)) = j
<1>1. Copied /\ buf \in [0..Len(src) -> Chars \cup {Nul}] /\ Len(src) \in Nat
  BY DEF Inv, TypeOK
<1>2. Strlen(buf, 0) = j /\ j \in Nat /\ \A o \in 0..(j - 1) : buf[o] \in Chars
  BY <1>1, StrlenIs DEF Copied
<1>3. Text(buf, 0) = FirstOf(buf, j)
  BY <1>2 DEF Text, FirstOf
<1>4. QED
  BY <1>2, <1>3, FirstIs

(* The strings in the array are the words of the line, in order, each cut to
   what its row holds. *)
LEMMA StoredFields == Inv /\ FullInv => FieldsAreTheWords
<1> SUFFICES ASSUME Inv, FullInv, pc = "done", ret > 0 PROVE FieldsAreTheWords
  BY DEF FieldsAreTheWords
<1>1. /\ Stored /\ (ret < Row => ret = Len(WordsOfLine)) /\ ret \in 0..Row
      /\ argv \in [Block -> Chars \cup {Nul}] /\ Row \in Nat /\ Col \in Nat /\ Col > 0
      /\ Nul \notin Chars
  BY DEF FullInv, CutInv, Inv, TypeOK
<1>2. ret = IF Len(WordsOfLine) < Row THEN Len(WordsOfLine) ELSE Row
  BY <1>1, WordsOfLineAre DEF Stored
<1>3. DEFINE Short(w) == SubSeq(w, 1, IF Len(w) < Col THEN Len(w) ELSE Col - 1)
<1>4. ASSUME NEW r \in 0..(ret - 1)
      PROVE  Text(argv, RowStart(r)) = Short(WordsOfLine[r + 1])
  <2>1. PICK w : w = WordsOfLine[r + 1]
    OBVIOUS
  <2>2. w \in Seq(Chars) /\ Len(w) \in Nat
    <3>1. r + 1 \in 1..Len(WordsOfLine)
      BY <1>1, WordsOfLineAre DEF Stored
    <3>2. QED
      BY <2>1, <3>1, WordsOfLineAre
  <2>3. PICK n \in 0..(Col - 1) : n = CutLength(w) /\ n <= Len(w)
    BY <1>1, <2>2 DEF CutLength
  <2>4. PICK at \in Nat : at = RowStart(r) /\ at + Col <= RowStart(Row)
    <3>1. r \in Nat /\ r < Row
      BY <1>1
    <3>2. QED
      BY <1>1, <3>1, RowsApart
  <2>5. /\ \A k \in 1..n : argv[at + k - 1] = w[k]
        /\ argv[at + n] = Nul
    BY <1>1, <2>1, <2>3, <2>4 DEF Stored, RowHolds
  <2>6. \A k \in 1..n : argv[at + k - 1] # Nul
    <3>1. \A k \in 1..n : w[k] \in Chars
      BY <2>2, <2>3
    <3>2. QED
      BY <1>1, <2>5, <3>1
  <2>7. at + n \in DOMAIN argv /\ DOMAIN argv \subseteq Int
    <3>1. RowStart(Row) \in Nat
      BY <1>1, RowsApart
    <3>2. QED
      BY <1>1, <2>3, <2>4, <3>1 DEF Block
  <2>8. Text(argv, at) = [k \in 1..n |-> argv[at + k - 1]]
    <3>1. n \in Nat
      BY <1>1
    <3>2. PICK b : b = argv
      OBVIOUS
    <3>3. /\ at + n \in DOMAIN b /\ DOMAIN b \subseteq Int /\ b[at + n] = Nul
          /\ \A k \in 1..n : b[at + k - 1] # Nul
      BY <2>5, <2>6, <2>7, <3>2
    <3>4. Strlen(b, at) = n
      BY <3>1, <3>3, StrlenAt
    <3>5. QED
      BY <3>2, <3>4 DEF Text
  <2>9. SubSeq(w, 1, n) = [k \in 1..n |-> w[k]]
    BY <2>2, <2>3
  <2>10. Short(w) = SubSeq(w, 1, n)
    BY <2>3 DEF CutLength
  <2>11. QED
    BY <2>1, <2>4, <2>5, <2>8, <2>9, <2>10
<1>5. QED
  BY <1>2, <1>4 DEF FieldsAreTheWords, WordsOfLine

(* Whatever the line, the separator and the size of the array, the fields are
   the words of the line, by way of a copy that is clean and has the same words;
   and counting the separators of the copy gives the rows that it takes
   (utility.c:18-105). *)
THEOREM Fielding == Spec => []LinesBecomeWords
<1>1. ASSUME Inv, FullInv PROVE CopyKeepsWords
  <2>1. SUFFICES ASSUME pc = "divide" PROVE WordsOf(Text(buf, 0), Sep) = WordsOf(src, Sep)
    BY DEF CopyKeepsWords
  <2>2. Text(buf, 0) = FirstOf(buf, j)
    BY <1>1, <2>1, CopyText
  <2>3. QED
    BY <1>1, <2>1, <2>2 DEF FullInv, KeepInv
<1>2. ASSUME Inv, CopyIsClean, CopyKeepsWords PROVE CountGivesRows
  <2>1. SUFFICES ASSUME pc = "divide", Strlen(buf, 0) > 0
                 PROVE  CharCount(Text(buf, 0), Sep) + 1 = Len(WordsOf(Text(buf, 0), Sep))
    BY <1>2 DEF CountGivesRows, CopyKeepsWords
  <2>2. Text(buf, 0) \in Seq(Chars) /\ Len(Text(buf, 0)) > 0
    BY <1>2, <2>1, CopyText
  <2>3. IsClean(Text(buf, 0), Sep)
    BY <1>2, <2>1 DEF CopyIsClean
  <2>4. QED
    BY <2>2, <2>3, WordsAndSeparators
<1>3. Inv /\ FullInv /\ CopyIsClean => LinesBecomeWords
  BY <1>1, <1>2, StoredFields DEF LinesBecomeWords
<1>4. QED
  BY <1>3, Invariance, FullInvariance, Clean, PTL
-----------------------------------------------------------------------------
(* Console: the lines of the input, and what is read of them *)

HIDE FieldsAssumption

LEMMA LimitIs == Limit \in Nat /\ Limit > 1
BY ConsoleAssumption DEF Limit

(* What fgets() takes ends at the first newline, unless the text or the room
   ends before. *)
LEMMA CutIs ==
    ASSUME NEW s \in Seq(Characters), s # <<>>
    PROVE  \E k \in 1..Len(s) :
               /\ Cut(s) = SubSeq(s, 1, k) /\ k <= Limit
               /\ s[k] = Newline \/ k = Limit \/ k = Len(s)
               /\ \A q \in 1..(k - 1) : s[q] # Newline
<1>1. DEFINE ends == {k \in 1..Len(s) : s[k] = Newline \/ k = Limit \/ k = Len(s)}
<1>2. Len(s) \in Nat /\ Len(s) \in 1..Len(s)
  OBVIOUS
<1>3. ends \in SUBSET (1..Len(s)) /\ ends # {}
  BY <1>2
<1>4. \E p \in ends : \A q \in ends : p <= q
  BY <1>2, <1>3, LeastAndGreatest
<1>5. PICK k : k = CHOOSE p \in ends : \A q \in ends : p <= q
  OBVIOUS
<1>6. k \in ends /\ \A q \in ends : k <= q
  BY <1>4, <1>5
<1>7. Cut(s) = SubSeq(s, 1, k)
  BY <1>5 DEF Cut
<1>8. \A q \in 1..(k - 1) : q \in 1..Len(s) /\ ~(k <= q)
  BY <1>2, <1>6
<1>9. \A q \in 1..(k - 1) : s[q] # Newline
  BY <1>6, <1>8
<1>10. k <= Limit
  <2>1. Limit > Len(s) \/ Limit \in ends
    BY <1>2, LimitIs
  <2>2. QED
    BY <1>2, <1>6, <2>1, LimitIs
<1>11. QED
  BY <1>6, <1>7, <1>9, <1>10

LEMMA FrontIs ==
    ASSUME NEW C, NEW s \in Seq(C), NEW n \in 0..Len(s)
    PROVE  /\ SubSeq(s, 1, n) \in Seq(C) /\ Len(SubSeq(s, 1, n)) = n
           /\ \A q \in 1..n : SubSeq(s, 1, n)[q] = s[q]
  OBVIOUS

LEMMA PartIs ==
    ASSUME NEW C, NEW s \in Seq(C), NEW p \in 1..Len(s), NEW e \in p..Len(s)
    PROVE  /\ SubSeq(s, p, e) \in Seq(C) /\ Len(SubSeq(s, p, e)) = e - p + 1
           /\ \A q \in 1..(e - p + 1) : SubSeq(s, p, e)[q] = s[p + q - 1]
  OBVIOUS

(* What the string functions find of s is all of it up to the first NUL. *)
LEMMA TextIs ==
    ASSUME NEW s \in Seq(Characters)
    PROVE  \E e \in 0..Len(s) :
               /\ TextOf(s) = SubSeq(s, 1, e)
               /\ (\A q \in 1..Len(s) : s[q] # Nul) => e = Len(s)
               /\ e = 0 => Len(s) = 0 \/ s[1] = Nul
<1>1. DEFINE plain == {k \in 0..Len(s) : \A m \in 1..k : s[m] # Nul}
<1>2. Len(s) \in Nat /\ 0 \in plain
  OBVIOUS
<1>3. \E p \in plain : \A q \in plain : q <= p
  <2>1. PICK S : S = {k + 1 : k \in plain}
    OBVIOUS
  <2>2. S \in SUBSET (1..(Len(s) + 1)) /\ S # {} /\ Len(s) + 1 \in Nat
    BY <1>2, <2>1
  <2>3. PICK h \in S : \A q \in S : q <= h
    BY <2>2, LeastAndGreatest
  <2>4. PICK p \in plain : h = p + 1
    BY <2>1, <2>3
  <2>5. \A q \in plain : q + 1 <= h /\ q \in 0..Len(s)
    BY <2>1, <2>3
  <2>6. \A q \in plain : q <= p
    BY <1>2, <2>4, <2>5
  <2>7. QED
    BY <2>6
<1>4. PICK e : e = CHOOSE p \in plain : \A q \in plain : q <= p
  OBVIOUS
<1>5. e \in plain /\ \A q \in plain : q <= e
  BY <1>3, <1>4
<1>6. TextOf(s) = SubSeq(s, 1, e)
  BY <1>4 DEF TextOf
<1>7. ASSUME \A q \in 1..Len(s) : s[q] # Nul PROVE e = Len(s)
  <2>1. Len(s) \in plain
    BY <1>2, <1>7
  <2>2. QED
    BY <1>2, <1>5, <2>1
<1>8. ASSUME e = 0, Len(s) # 0 PROVE s[1] = Nul
  <2>1. 1 \notin plain
    BY <1>5, <1>8
  <2>2. 1 \in 0..Len(s) /\ \A m \in 1..1 : m = 1
    BY <1>2, <1>8
  <2>3. QED
    BY <2>1, <2>2
<1>9. QED
  BY <1>5, <1>6, <1>7, <1>8

(* The line that Run looks at, after k characters of s from a on: it stands
   there, and without a NUL it is all but the last of them. *)
TextRead(s, a, k, line) ==
    /\ line \in Seq(Characters) /\ Len(line) <= k - 1
    /\ \A q \in 1..Len(line) : line[q] = s[a + q]
    /\ (\A q \in (a + 1)..(a + k) : s[q] # Nul) => line = SubSeq(s, a + 1, a + k - 1)

(* What Run reads from a on, of a text s. *)
Takes(s, a, read, k) ==
    /\ read # <<>> /\ Len(read) = k /\ Last(read) = s[a + k]
    /\ TextRead(s, a, k, Chopped(read))
    /\ TextOf(read) = <<>> => s[a + 1] = Nul
    /\ k <= Limit
    /\ s[a + k] = Newline \/ k = Limit \/ a + k = Len(s)
    /\ \A q \in (a + 1)..(a + k - 1) : s[q] # Newline

LEMMA ReadIs ==
    ASSUME NEW s \in Seq(Characters), NEW a \in 0..Len(s),
           NEW read, read = Fgets(SubSeq(s, a + 1, Len(s)))
    PROVE  /\ a = Len(s) => read = <<>> /\ Len(read) = 0 /\ TextOf(read) = <<>>
                             /\ Chopped(read) = <<>>
           /\ a < Len(s) => \E k \in 1..(Len(s) - a) : Takes(s, a, read, k)
<1>1. PICK r : r = SubSeq(s, a + 1, Len(s))
  OBVIOUS
<1>2. /\ Len(s) \in Nat /\ r \in Seq(Characters) /\ Len(r) = Len(s) - a
      /\ \A q \in 1..(Len(s) - a) : r[q] = s[a + q]
  BY <1>1
<1>3. CASE a = Len(s)
  <2>1. r = <<>>
    BY <1>2, <1>3
  <2>2. read = <<>>
    BY <1>1, <1>3, <2>1 DEF Fgets, Cut
  <2>3. PICK e \in 0..Len(read) : TextOf(read) = SubSeq(read, 1, e)
    <3>1. <<>> \in Seq(Characters)
      OBVIOUS
    <3>2. read \in Seq(Characters)
      BY <2>2, <3>1, Zenon
    <3>3. QED
      BY <3>2, TextIs
  <2>4. TextOf(read) = <<>>
    BY <2>2, <2>3
  <2>5. Chopped(read) = <<>>
    BY <2>4 DEF Chopped, Front
  <2>6. QED
    BY <1>3, <2>2, <2>4, <2>5
<1>4. CASE a < Len(s)
  <2>1. r # <<>>
    BY <1>2, <1>4
  <2>2. PICK k \in 1..Len(r) :
            /\ Cut(r) = SubSeq(r, 1, k) /\ k <= Limit
            /\ r[k] = Newline \/ k = Limit \/ k = Len(r)
            /\ \A q \in 1..(k - 1) : r[q] # Newline
    BY <1>2, <2>1, CutIs
  <2>3. /\ k \in 1..(Len(s) - a)
        /\ read = SubSeq(r, 1, k)
    BY <1>1, <1>2, <2>2 DEF Fgets
  <2>4. /\ read \in Seq(Characters) /\ Len(read) = k
        /\ \A q \in 1..k : read[q] = s[a + q]
    <3>1. k \in 0..Len(r)
      BY <1>2, <2>3
    <3>2. /\ read \in Seq(Characters) /\ Len(read) = k
          /\ \A q \in 1..k : read[q] = r[q]
      BY <1>2, <2>3, <3>1, FrontIs
    <3>3. \A q \in 1..k : q \in 1..(Len(s) - a)
      BY <1>2, <2>3
    <3>4. QED
      BY <1>2, <3>2, <3>3
  <2>5. read # <<>> /\ Last(read) = s[a + k]
    BY <2>3, <2>4 DEF Last
  <2>6. PICK e \in 0..k :
             /\ TextOf(read) = SubSeq(read, 1, e)
             /\ (\A q \in 1..k : read[q] # Nul) => e = k
             /\ e = 0 => read[1] = Nul
    <3>1. PICK e \in 0..Len(read) :
               /\ TextOf(read) = SubSeq(read, 1, e)
               /\ (\A q \in 1..Len(read) : read[q] # Nul) => e = Len(read)
               /\ e = 0 => Len(read) = 0 \/ read[1] = Nul
      BY <2>4, TextIs
    <3>2. Len(read) = k /\ k # 0
      BY <2>3, <2>4
    <3>3. /\ e \in 0..k
          /\ (\A q \in 1..k : read[q] # Nul) => e = k
          /\ e = 0 => read[1] = Nul
      BY <3>1, <3>2
    <3>4. QED
      BY <3>1, <3>3, Zenon
  <2>7. PICK text : text = TextOf(read)
    OBVIOUS
  <2>8. /\ text \in Seq(Characters) /\ Len(text) = e
         /\ \A q \in 1..e : text[q] = s[a + q]
    <3>1. e \in 0..Len(read)
      BY <2>3, <2>4, <2>6
    <3>2. /\ text \in Seq(Characters) /\ Len(text) = e
          /\ \A q \in 1..e : text[q] = read[q]
      BY <2>4, <2>6, <2>7, <3>1, FrontIs
    <3>3. \A q \in 1..e : q \in 1..k
      BY <2>3, <2>6
    <3>4. QED
      BY <2>4, <3>2, <3>3
  <2>9. PICK u : u = Chopped(read)
    OBVIOUS
  <2>10. u = SubSeq(text, 1, e - 1)
    BY <2>7, <2>8, <2>9 DEF Chopped, Front
  <2>11. /\ u \in Seq(Characters) /\ Len(u) <= k - 1
         /\ e > 0 => Len(u) = e - 1
         /\ \A q \in 1..Len(u) : u[q] = s[a + q]
    <3>1. CASE e = 0
      <4>1. u \in Seq(Characters) /\ Len(u) = 0
        BY <2>8, <2>10, <3>1
      <4>2. QED
        BY <2>3, <3>1, <4>1
    <3>2. CASE e > 0
      <4>1. e - 1 \in 0..Len(text) /\ e \in Nat
        BY <2>3, <2>6, <2>8, <3>2
      <4>2. /\ u \in Seq(Characters) /\ Len(u) = e - 1
            /\ \A q \in 1..(e - 1) : u[q] = text[q]
        BY <2>8, <2>10, <4>1, FrontIs
      <4>3. \A q \in 1..(e - 1) : q \in 1..e
        BY <4>1
      <4>4. Len(u) = e - 1 /\ e - 1 <= k - 1
        BY <2>3, <2>6, <4>2
      <4>5. \A q \in 1..(e - 1) : u[q] = s[a + q]
        BY <2>8, <4>2, <4>3
      <4>6. QED
        BY <4>2, <4>4, <4>5, Zenon
    <3>3. QED
      BY <2>3, <2>6, <3>1, <3>2
  <2>12. ASSUME \A q \in (a + 1)..(a + k) : s[q] # Nul
         PROVE  u = SubSeq(s, a + 1, a + k - 1)
    <3>1. \A q \in 1..k : read[q] # Nul
      <4> SUFFICES ASSUME NEW q \in 1..k PROVE read[q] # Nul
        OBVIOUS
      <4>1. a + q \in (a + 1)..(a + k)
        BY <1>2, <2>3
      <4>2. QED
        BY <2>4, <2>12, <4>1
    <3>2. e = k
      BY <2>6, <3>1
    <3>3. PICK v : v = SubSeq(s, a + 1, a + k - 1)
      OBVIOUS
    <3>4. /\ v \in Seq(Characters) /\ Len(v) = k - 1
          /\ \A q \in 1..(k - 1) : v[q] = s[a + q]
      BY <1>2, <2>3, <3>3
    <3>5. Len(u) = k - 1 /\ \A q \in 1..(k - 1) : u[q] = s[a + q]
      BY <2>3, <2>11, <3>2
    <3>6. QED
      BY <2>11, <3>3, <3>4, <3>5, SeqEqual
  <2>13. TextRead(s, a, k, Chopped(read))
    BY <2>9, <2>11, <2>12 DEF TextRead
  <2>14. TextOf(read) = <<>> => s[a + 1] = Nul
    <3>1. TextOf(read) = <<>> => e = 0
      BY <2>7, <2>8
    <3>2. 1 \in 1..k /\ read[1] = s[a + 1]
      BY <2>3, <2>4
    <3>3. QED
      BY <2>6, <3>1, <3>2
  <2>15. \A q \in (a + 1)..(a + k - 1) : s[q] # Newline
    <3> SUFFICES ASSUME NEW q \in (a + 1)..(a + k - 1) PROVE s[q] # Newline
      OBVIOUS
    <3>1. q - a \in 1..(k - 1) /\ q - a \in 1..(Len(s) - a) /\ a + (q - a) = q
      BY <1>2, <2>3
    <3>2. PICK n : n = q - a
      OBVIOUS
    <3>3. r[n] # Newline
      BY <2>2, <3>1, <3>2
    <3>4. r[n] = s[a + n] /\ a + n = q
      BY <1>2, <3>1, <3>2
    <3>5. QED
      BY <3>3, <3>4
  <2>16. s[a + k] = Newline \/ k = Limit \/ a + k = Len(s)
    BY <1>2, <2>2, <2>3
  <2>17. Takes(s, a, read, k)
    BY <2>2, <2>4, <2>5, <2>15, <2>16, <2>13, <2>14 DEF Takes
  <2>18. a # Len(s) /\ k \in 1..(Len(s) - a)
    BY <1>2, <1>4, <2>3
  <2>19. QED
    BY <2>17, <2>18
<1>5. QED
  BY <1>2, <1>3, <1>4

(* The line before a newline begins after the newline before. *)
LEMMA LineIs ==
    ASSUME NEW s \in Seq(Characters), NEW a \in Newlines(s) \cup {0},
           NEW b \in Newlines(s), a < b, \A q \in (a + 1)..(b - 1) : q \notin Newlines(s)
    PROVE  LineBefore(s, b) = SubSeq(s, a + 1, b - 1)
<1>1. PICK earlier : earlier = {m \in Newlines(s) : m < b}
  OBVIOUS
<1>2. /\ Len(s) \in Nat /\ b \in 1..Len(s) /\ a \in 0..Len(s)
      /\ \A m \in Newlines(s) : m \in 1..Len(s)
  BY DEF Newlines
<1>3. \A m \in earlier : m \in 1..Len(s) /\ m <= a
  BY <1>1, <1>2
<1>4. CASE a = 0
  <2>1. earlier = {}
    BY <1>3, <1>4
  <2>2. LineBefore(s, b) = SubSeq(s, 1, b - 1)
    BY <1>1, <2>1 DEF LineBefore
  <2>3. a + 1 = 1
    BY <1>4
  <2>4. QED
    BY <2>2, <2>3
<1>5. CASE a # 0
  <2>1. a \in earlier
    BY <1>1, <1>5
  <2>2. \A m \in earlier : (\A n \in earlier : n <= m) => m = a
    BY <1>2, <1>3, <2>1
  <2>3. (CHOOSE m \in earlier : \A n \in earlier : n <= m) = a
    BY <1>3, <2>1, <2>2
  <2>4. QED
    BY <1>1, <2>1, <2>3 DEF LineBefore
<1>6. QED
  BY <1>4, <1>5

LEMMA LineHasStart ==
    ASSUME NEW s \in Seq(Characters), NEW b \in Newlines(s)
    PROVE  \E a \in Newlines(s) \cup {0} :
               a < b /\ \A q \in (a + 1)..(b - 1) : q \notin Newlines(s)
<1>1. /\ Len(s) \in Nat /\ b \in 1..Len(s)
      /\ \A m \in Newlines(s) : m \in 1..Len(s)
  BY DEF Newlines
<1>2. PICK earlier : earlier = {m \in Newlines(s) : m < b}
  OBVIOUS
<1>3. CASE earlier = {}
  <2>1. \A q \in 1..(b - 1) : q \notin Newlines(s)
    BY <1>1, <1>2, <1>3
  <2>2. QED
    BY <1>1, <2>1
<1>4. CASE earlier # {}
  <2>1. earlier \in SUBSET (1..Len(s))
    BY <1>1, <1>2
  <2>2. PICK a \in earlier : \A q \in earlier : q <= a
    BY <1>1, <1>4, <2>1, LeastAndGreatest
  <2>3. ASSUME NEW q \in (a + 1)..(b - 1) PROVE q \notin Newlines(s)
    BY <1>1, <1>2, <2>1, <2>2
  <2>4. QED
    BY <1>2, <2>2, <2>3
<1>5. QED
  BY <1>3, <1>4

(* A line depends only on what stands before its newline. *)
LEMMA LineStays ==
    ASSUME NEW s \in Seq(Characters), NEW t \in Seq(Characters),
           NEW n \in 0..Len(s), n <= Len(t), \A q \in 1..n : t[q] = s[q]
    PROVE  /\ \A q \in 1..n : q \in Newlines(s) <=> q \in Newlines(t)
           /\ \A b \in 1..n : b \in Newlines(s) => LineBefore(s, b) = LineBefore(t, b)
<1>1. Len(s) \in Nat /\ Len(t) \in Nat
  OBVIOUS
<1>2. \A q \in 1..n : q \in Newlines(s) <=> q \in Newlines(t)
  BY <1>1 DEF Newlines
<1>3. ASSUME NEW b \in 1..n, b \in Newlines(s) PROVE LineBefore(s, b) = LineBefore(t, b)
  <2>1. PICK a \in Newlines(s) \cup {0} :
            a < b /\ \A q \in (a + 1)..(b - 1) : q \notin Newlines(s)
    BY <1>3, LineHasStart
  <2>2. a \in 0..n /\ b <= Len(s) /\ b <= Len(t)
    BY <1>1, <2>1 DEF Newlines
  <2>3. a \in Newlines(t) \cup {0} /\ b \in Newlines(t)
    BY <1>2, <1>3, <2>1, <2>2
  <2>4. \A q \in (a + 1)..(b - 1) : q \in 1..n
    BY <2>2
  <2>5. \A q \in (a + 1)..(b - 1) : q \notin Newlines(t)
    BY <1>2, <2>1, <2>4
  <2>6. LineBefore(s, b) = SubSeq(s, a + 1, b - 1) /\ LineBefore(t, b) = SubSeq(t, a + 1, b - 1)
    BY <1>3, <2>1, <2>3, <2>5, LineIs
  <2>7. SubSeq(s, a + 1, b - 1) = SubSeq(t, a + 1, b - 1)
    <3>1. PICK u, v : u = SubSeq(s, a + 1, b - 1) /\ v = SubSeq(t, a + 1, b - 1)
      OBVIOUS
    <3>2. /\ u \in Seq(Characters) /\ Len(u) = b - 1 - a
          /\ v \in Seq(Characters) /\ Len(v) = b - 1 - a
      BY <1>1, <2>1, <2>2, <3>1
    <3>3. \A q \in 1..(b - 1 - a) : u[q] = s[a + q] /\ v[q] = t[a + q] /\ a + q \in 1..n
      BY <1>1, <2>1, <2>2, <3>1
    <3>4. \A q \in 1..(b - 1 - a) : u[q] = v[q]
      BY <3>3
    <3>5. QED
      BY <3>1, <3>2, <3>4, SeqEqual
  <2>8. QED
    BY <2>6, <2>7
<1>4. QED
  BY <1>2, <1>3
-----------------------------------------------------------------------------
(* Console: the commands in a text *)

CommandLines(s) ==
    {k \in Newlines(s) : \E c \in Commands : Matches(LineBefore(s, k), c)}

LEMMA CommandLinesAre ==
    ASSUME NEW s \in Seq(Characters)
    PROVE  /\ Len(s) \in Nat /\ CommandLines(s) \in SUBSET (1..Len(s))
           /\ IsFiniteSet(CommandLines(s)) /\ Cardinality(CommandLines(s)) \in Nat
<1>1. Len(s) \in Nat /\ CommandLines(s) \in SUBSET (1..Len(s))
  BY DEF CommandLines, Newlines
<1>2. QED
  BY <1>1, Ranks

LEMMA CommandsAre ==
    ASSUME NEW s \in Seq(Characters)
    PROVE  /\ CommandsIn(s) \in Seq(Commands)
           /\ Len(CommandsIn(s)) = Cardinality(CommandLines(s))
           /\ \A k \in CommandLines(s) :
                  /\ Rank(CommandLines(s), k) \in 1..Cardinality(CommandLines(s))
                  /\ \A c \in Commands : Matches(LineBefore(s, k), c) =>
                         CommandsIn(s)[Rank(CommandLines(s), k)] = c
<1>1. PICK K : K = CommandLines(s)
  OBVIOUS
<1>2. Len(s) \in Nat /\ K \in SUBSET (1..Len(s)) /\ Cardinality(K) \in Nat
  BY <1>1, CommandLinesAre
<1>3. /\ \A k \in K : Rank(K, k) \in 1..Cardinality(K)
      /\ \A k, m \in K : k < m => Rank(K, k) < Rank(K, m)
      /\ \A n \in 1..Cardinality(K) : \E k \in K : Rank(K, k) = n
  BY <1>2, Ranks
<1>4. DEFINE LineOf(n) == CHOOSE k \in K : Rank(K, k) = n
<1>5. CommandsIn(s) = [n \in 1..Cardinality(K) |->
                           WordsOf(LineBefore(s, LineOf(n)), Space)[1]]
  BY <1>1 DEF CommandsIn, CommandLines, Rank
<1>6. ASSUME NEW k \in K PROVE LineOf(Rank(K, k)) = k
  <2>1. ASSUME NEW m \in K, Rank(K, m) = Rank(K, k) PROVE m = k
    <3>1. k \in Nat /\ m \in Nat /\ Rank(K, k) \in Nat
      BY <1>2, <1>3
    <3>2. k < m \/ m < k \/ k = m
      BY <3>1
    <3>3. ~(k < m) /\ ~(m < k)
      BY <1>3, <2>1, <3>1
    <3>4. QED
      BY <3>2, <3>3
  <2>2. QED
    BY <2>1
<1> HIDE DEF LineOf
<1>7. ASSUME NEW k \in K, NEW c \in Commands, Matches(LineBefore(s, k), c)
      PROVE  CommandsIn(s)[Rank(K, k)] = c
  <2>1. WordsOf(LineBefore(s, k), Space) = <<c>>
    BY <1>7 DEF Matches
  <2>2. Rank(K, k) \in 1..Cardinality(K) /\ LineOf(Rank(K, k)) = k
    BY <1>3, <1>6
  <2>3. CommandsIn(s)[Rank(K, k)] = WordsOf(LineBefore(s, k), Space)[1]
    BY <1>5, <2>2
  <2>4. QED
    BY <2>1, <2>3
<1>8. ASSUME NEW n \in 1..Cardinality(K) PROVE CommandsIn(s)[n] \in Commands
  <2>1. PICK k \in K : Rank(K, k) = n
    BY <1>3
  <2>2. PICK c \in Commands : Matches(LineBefore(s, k), c)
    BY <1>1 DEF CommandLines
  <2>3. QED
    BY <1>7, <2>1, <2>2
<1>9. CommandsIn(s) \in Seq(Commands) /\ Len(CommandsIn(s)) = Cardinality(K)
  BY <1>2, <1>5, <1>8
<1>10. QED
  BY <1>1, <1>3, <1>7, <1>9

(* The commands up to a newline are those up to the newline before and the one
   of the line between, if it is one. *)
LEMMA NextLine ==
    ASSUME NEW s \in Seq(Characters), NEW a \in Newlines(s) \cup {0},
           NEW b \in Newlines(s), a < b, \A q \in (a + 1)..(b - 1) : q \notin Newlines(s),
           NEW line, line = SubSeq(s, a + 1, b - 1)
    PROVE  /\ \A c \in Commands : Matches(line, c) =>
                  CommandsIn(SubSeq(s, 1, b)) = Append(CommandsIn(SubSeq(s, 1, a)), c)
           /\ (~\E c \in Commands : Matches(line, c)) =>
                  CommandsIn(SubSeq(s, 1, b)) = CommandsIn(SubSeq(s, 1, a))
<1>1. PICK t, u : t = SubSeq(s, 1, a) /\ u = SubSeq(s, 1, b)
  OBVIOUS
<1>2. Len(s) \in Nat /\ a \in 0..Len(s) /\ b \in 0..Len(s) /\ b \in 1..Len(s)
  BY DEF Newlines
<1>3. /\ t \in Seq(Characters) /\ Len(t) = a /\ \A q \in 1..a : t[q] = s[q]
      /\ u \in Seq(Characters) /\ Len(u) = b /\ \A q \in 1..b : u[q] = s[q]
  BY <1>1, <1>2, FrontIs
<1>4. PICK K, M : K = CommandLines(t) /\ M = CommandLines(u)
  OBVIOUS
<1>5. K \in SUBSET (1..a) /\ IsFiniteSet(K) /\ Cardinality(K) \in Nat
  BY <1>3, <1>4, CommandLinesAre
<1>6. M \in SUBSET (1..b) /\ IsFiniteSet(M) /\ Cardinality(M) \in Nat
  BY <1>3, <1>4, CommandLinesAre
<1>7. \A q \in 1..a : /\ q \in Newlines(t) <=> q \in Newlines(u)
                      /\ q \in Newlines(t) => LineBefore(t, q) = LineBefore(u, q)
  <2>1. a \in 0..Len(t) /\ a <= Len(u)
    BY <1>2, <1>3
  <2>2. \A q \in 1..a : q \in 1..b
    BY <1>2
  <2>3. \A q \in 1..a : u[q] = t[q]
    BY <1>3, <2>2
  <2>4. t \in Seq(Characters) /\ u \in Seq(Characters)
    BY <1>3
  <2>5. /\ \A q \in 1..a : q \in Newlines(t) <=> q \in Newlines(u)
        /\ \A q \in 1..a : q \in Newlines(t) => LineBefore(t, q) = LineBefore(u, q)
    BY <2>1, <2>3, <2>4, LineStays
  <2>6. QED
    BY <2>5
<1>8. \A q \in 1..a : q \in K <=> q \in M
  BY <1>4, <1>7 DEF CommandLines
<1>9. LineBefore(u, b) = line /\ b \in Newlines(u)
  <2>1. b \in 0..Len(s) /\ b <= Len(u) /\ b \in 1..b
    BY <1>2, <1>3
  <2>2. u \in Seq(Characters) /\ \A q \in 1..b : u[q] = s[q]
    BY <1>3
  <2>3. /\ \A q \in 1..b : q \in Newlines(s) <=> q \in Newlines(u)
        /\ \A q \in 1..b : q \in Newlines(s) => LineBefore(s, q) = LineBefore(u, q)
    BY <2>1, <2>2, LineStays
  <2>4. LineBefore(s, b) = LineBefore(u, b) /\ b \in Newlines(u)
    BY <2>1, <2>3
  <2>5. LineBefore(s, b) = line
    BY LineIs
  <2>6. QED
    BY <2>4, <2>5
<1>10. \A q \in (a + 1)..(b - 1) : q \notin M
  <2>1. ASSUME NEW q \in (a + 1)..(b - 1) PROVE q \notin Newlines(u)
    <3>1. q \notin Newlines(s) /\ q \in 1..Len(s) /\ q \in 1..b
      BY <1>2
    <3>2. s[q] # Newline
      BY <3>1 DEF Newlines
    <3>3. QED
      BY <1>3, <3>1, <3>2 DEF Newlines
  <2>2. QED
    BY <1>4, <2>1 DEF CommandLines
<1>11. b \in M <=> \E c \in Commands : Matches(line, c)
  BY <1>4, <1>9 DEF CommandLines
<1>12. \A q \in 1..b : q \in 1..a \/ q \in (a + 1)..(b - 1) \/ q = b
  BY <1>2
<1>13. M = IF \E c \in Commands : Matches(line, c) THEN K \cup {b} ELSE K
  <2>1. \A q \in M : q \in K \/ (q = b /\ \E c \in Commands : Matches(line, c))
    BY <1>6, <1>8, <1>10, <1>11, <1>12
  <2>2. \A q \in K : q \in M
    BY <1>5, <1>8
  <2>3. QED
    BY <1>11, <2>1, <2>2
<1>14. b \notin K
  BY <1>2, <1>5
<1>15. PICK v, w : v = CommandsIn(t) /\ w = CommandsIn(u)
  OBVIOUS
<1>16. /\ v \in Seq(Commands) /\ Len(v) = Cardinality(K)
       /\ \A k \in K : /\ Rank(K, k) \in 1..Cardinality(K)
                       /\ \A c \in Commands : Matches(LineBefore(t, k), c) =>
                              v[Rank(K, k)] = c
  BY <1>3, <1>4, <1>15, CommandsAre
<1>17. /\ w \in Seq(Commands) /\ Len(w) = Cardinality(M)
       /\ \A k \in M : /\ Rank(M, k) \in 1..Cardinality(M)
                       /\ \A c \in Commands : Matches(LineBefore(u, k), c) =>
                              w[Rank(M, k)] = c
  BY <1>3, <1>4, <1>15, CommandsAre
<1>18. ASSUME NEW n \in 1..Cardinality(K) PROVE w[n] = v[n]
  <2>1. PICK k \in K : Rank(K, k) = n
    <3>1. a \in Nat /\ K \in SUBSET (1..a)
      BY <1>2, <1>5
    <3>2. \A m \in 1..Cardinality(K) : \E k \in K : Rank(K, k) = m
      BY <3>1, Ranks
    <3>3. QED
      BY <3>2
  <2>2. k \in 1..a /\ k \in M
    BY <1>5, <1>8
  <2>3. {m \in M : m <= k} = {m \in K : m <= k}
    <3>1. ~(b <= k)
      BY <1>2, <2>2
    <3>2. QED
      BY <1>13, <3>1
  <2>4. Rank(M, k) = n
    BY <2>1, <2>3 DEF Rank
  <2>5. PICK c \in Commands : Matches(LineBefore(t, k), c)
    BY <1>4 DEF CommandLines
  <2>6. k \in Newlines(t)
    BY <1>4 DEF CommandLines
  <2>7. Matches(LineBefore(u, k), c)
    BY <1>7, <2>2, <2>5, <2>6
  <2>8. QED
    BY <1>16, <1>17, <2>1, <2>2, <2>4, <2>5, <2>7
<1>19. ASSUME NEW c \in Commands, Matches(line, c) PROVE w = Append(v, c)
  <2>1. M = K \cup {b}
    BY <1>13, <1>19
  <2>2. Len(w) = Len(v) + 1
    BY <1>5, <1>14, <1>16, <1>17, <2>1, FS_AddElement
  <2>3. Rank(M, b) = Len(v) + 1
    <3>1. \A m \in M : m <= b
      BY <1>2, <1>6
    <3>2. {m \in M : m <= b} = M
      BY <3>1
    <3>3. QED
      BY <1>17, <2>2, <3>2 DEF Rank
  <2>4. w[Len(v) + 1] = c
    BY <1>9, <1>17, <1>19, <2>1, <2>3
  <2>5. PICK x : x = Append(v, c)
    OBVIOUS
  <2>6. /\ x \in Seq(Commands) /\ Len(x) = Len(v) + 1 /\ x[Len(v) + 1] = c
        /\ \A q \in 1..Len(v) : x[q] = v[q]
        /\ \A q \in 1..(Len(v) + 1) : q \in 1..Len(v) \/ q = Len(v) + 1
    BY <1>16, <2>5, Appended
  <2>7. \A q \in 1..Len(w) : w[q] = x[q]
    BY <1>16, <1>18, <2>2, <2>4, <2>6
  <2>8. QED
    BY <1>17, <2>2, <2>5, <2>6, <2>7, SeqEqual
<1>20. ASSUME ~\E c \in Commands : Matches(line, c) PROVE w = v
  <2>1. M = K
    BY <1>13, <1>20
  <2>2. QED
    BY <1>16, <1>17, <1>18, <2>1, SeqEqual
<1>21. QED
  BY <1>1, <1>15, <1>19, <1>20

(* A text of one word holds it. *)
LEMMA CommandStands ==
    ASSUME NEW C, NEW s \in Seq(C), NEW sep, NEW c, WordsOf(s, sep) = <<c>>
    PROVE  \E p \in 1..Len(s) : \E e \in p..Len(s) : c = SubSeq(s, p, e)
<1>1. PICK S : S = Starts(s, sep)
  OBVIOUS
<1>2. Len(s) \in Nat /\ S \in SUBSET (1..Len(s))
  BY <1>1, StartsAre
<1>3. /\ Cardinality(S) = Len(<<c>>)
      /\ \A p \in S : <<c>>[Rank(S, p)] = SubSeq(s, p, WordEnd(s, sep, p))
  BY <1>1, WordsAre
<1>4. Cardinality(S) = 1
  BY <1>3
<1>5. PICK p \in S : Rank(S, p) = 1
  <2>1. \A k \in 1..Cardinality(S) : \E p \in S : Rank(S, p) = k
    BY <1>2, Ranks
  <2>2. 1 \in 1..Cardinality(S)
    BY <1>4
  <2>3. QED
    BY <2>1, <2>2
<1>6. c = SubSeq(s, p, WordEnd(s, sep, p))
  BY <1>3, <1>5
<1>7. WordEnd(s, sep, p) \in p..Len(s) /\ p \in 1..Len(s)
  BY <1>1, <1>2, WordEnds
<1>8. QED
  BY <1>6, <1>7
-----------------------------------------------------------------------------
(* Console: the command line *)

(* While the lines fit, what has been read ends at a newline, or in a line whose
   newline has not come: the input is over or that line does not fit any more. *)
InLongLine ==
    /\ \A k \in Newlines(input) : k < next
    /\ closed \/ \A m \in Newlines(input) \cup {0} : next - m >= Limit

PlaceInv == Fits(input) => next \in Newlines(input) \cup {0} \/ InLongLine

(* What is read next begins a line, or goes on with one, or there is nothing. *)
PieceInv == BeginsPiece(next + 1) \/ (closed /\ next = Len(input))

LineInv ==
    /\ ConsoleTypeOK /\ PlaceInv /\ PieceInv
    /\ CommandsAsTyped /\ NothingInvented /\ OutsideOnlyAtNul

(* What is typed changes nothing of what stands there. *)
LEMMA Typed ==
    ASSUME NEW s \in Seq(Characters), NEW c \in Characters, NEW t, t = Append(s, c)
    PROVE  /\ t \in Seq(Characters) /\ Len(t) = Len(s) + 1 /\ Len(s) \in Nat
           /\ \A q \in 1..Len(s) : t[q] = s[q]
           /\ \A q \in 1..Len(s) : q \in Newlines(s) <=> q \in Newlines(t)
           /\ Newlines(s) \in SUBSET (1..Len(s))
           /\ Newlines(t) \in SUBSET (1..(Len(s) + 1))
           /\ \A p \in 1..Len(s), q \in 0..Len(s) : SubSeq(t, p, q) = SubSeq(s, p, q)
           /\ Fits(t) => Fits(s)
<1>1. /\ t \in Seq(Characters) /\ Len(t) = Len(s) + 1 /\ Len(s) \in Nat
      /\ \A q \in 1..Len(s) : t[q] = s[q]
  BY Appended
<1>2. Len(s) \in 0..Len(s) /\ Len(s) <= Len(t)
  BY <1>1
<1>3. /\ \A q \in 1..Len(s) : q \in Newlines(s) <=> q \in Newlines(t)
      /\ \A q \in 1..Len(s) : q \in Newlines(s) => LineBefore(s, q) = LineBefore(t, q)
  BY <1>1, <1>2, LineStays
<1>4. Newlines(s) \in SUBSET (1..Len(s)) /\ Newlines(t) \in SUBSET (1..(Len(s) + 1))
  BY <1>1 DEF Newlines
<1>5. Fits(t) => Fits(s)
  BY <1>3, <1>4 DEF Fits
<1>6. ASSUME NEW p \in 1..Len(s), NEW q \in 0..Len(s)
      PROVE  SubSeq(t, p, q) = SubSeq(s, p, q)
  <2>1. PICK u, v : u = SubSeq(t, p, q) /\ v = SubSeq(s, p, q)
    OBVIOUS
  <2>2. /\ u \in Seq(Characters) /\ v \in Seq(Characters) /\ Len(u) = Len(v)
        /\ \A k \in 1..Len(v) : u[k] = t[p + k - 1] /\ v[k] = s[p + k - 1]
                                /\ p + k - 1 \in 1..Len(s)
    BY <1>1, <2>1
  <2>3. \A k \in 1..Len(v) : u[k] = v[k]
    BY <1>1, <2>2
  <2>4. QED
    BY <2>1, <2>2, <2>3, SeqEqual
<1>7. QED
  BY <1>1, <1>3, <1>4, <1>5, <1>6

LEMMA DoneAre ==
    ASSUME ConsoleTypeOK
    PROVE  /\ Len(done) \in Nat /\ \A n \in 1..Len(done) : done[n] \in Seq(Characters)
           /\ \A n \in 1..Len(done) : Len(done[n]) \in Nat
<1>1. /\ Len(done) \in Nat
      /\ \A n \in 1..Len(done) : done[n] \in Commands
  BY DEF ConsoleTypeOK
<1>2. Commands \subseteq Seq(Characters)
  BY ConsoleAssumption
<1>3. \A n \in 1..Len(done) : done[n] \in Seq(Characters)
  BY <1>1, <1>2
<1>4. QED
  BY <1>1, <1>3

LEMMA InitLine == ConsoleInit => LineInv
<1> SUFFICES ASSUME ConsoleInit PROVE LineInv
  OBVIOUS
<1>1. /\ input = <<>> /\ closed = FALSE /\ next = 0 /\ state = "runs"
      /\ outside = FALSE /\ done = <<>> /\ Len(input) = 0
  BY DEF ConsoleInit
<1>2. ConsoleTypeOK /\ OutsideOnlyAtNul
  <2>1. input \in Seq(Characters) /\ done \in Seq(Commands)
    BY <1>1
  <2>2. next \in 0..Len(input)
    <3>1. next = 0 /\ Len(input) = 0
      BY <1>1
    <3>2. QED
      BY <3>1
  <2>3. closed \in BOOLEAN /\ outside \in BOOLEAN /\ ~outside
    BY <1>1
  <2>4. state \in {"runs", "exited", "crashed"}
    BY <1>1
  <2>5. QED
    BY <2>1, <2>2, <2>3, <2>4 DEF ConsoleTypeOK, OutsideOnlyAtNul
<1>3. PlaceInv /\ PieceInv
  BY <1>1 DEF PlaceInv, PieceInv, BeginsPiece
<1>4. CommandsAsTyped
  <2>1. PICK s : s = SubSeq(input, 1, next)
    OBVIOUS
  <2>2. s \in Seq(Characters) /\ Len(s) = 0
    BY <1>1, <2>1
  <2>3. CommandLines(s) = {}
    <3>1. CommandLines(s) \in SUBSET (1..0)
      BY <2>2, CommandLinesAre
    <3>2. QED
      BY <3>1
  <2>4. CommandsIn(s) \in Seq(Commands) /\ Len(CommandsIn(s)) = 0
    BY <2>2, <2>3, CommandsAre, FS_EmptySet
  <2>5. CommandsIn(s) = <<>>
    BY <2>4
  <2>6. QED
    BY <1>1, <2>1, <2>5 DEF CommandsAsTyped
<1>5. NothingInvented
  <2>1. PICK f : f = [n \in 1..0 |-> 0]
    OBVIOUS
  <2>2. f \in [1..Len(done) -> 1..next] /\ Len(done) = 0
    BY <1>1, <2>1
  <2>3. \A n \in 1..Len(done) : FALSE
    BY <2>2
  <2>4. /\ \A n \in 1..Len(done) :
              /\ f[n] + Len(done[n]) <= next
              /\ SubSeq(input, f[n], f[n] + Len(done[n]) - 1) = done[n]
        /\ \A m, n \in 1..Len(done) : m < n => f[m] < f[n]
    BY <2>3
  <2>5. QED
    BY <2>2, <2>4 DEF NothingInvented
<1>6. QED
  BY <1>2, <1>3, <1>4, <1>5 DEF LineInv

LEMMA TypeLine == LineInv /\ Type => LineInv'
<1> SUFFICES ASSUME LineInv, Type PROVE LineInv'
  OBVIOUS
<1>1. /\ ConsoleTypeOK /\ PlaceInv /\ PieceInv /\ CommandsAsTyped /\ NothingInvented
      /\ OutsideOnlyAtNul
  BY DEF LineInv
<1>2. PICK c \in Characters : input' = Append(input, c)
  BY DEF Type
<1>3. /\ ~closed /\ closed' = closed /\ next' = next /\ state' = state
      /\ outside' = outside /\ done' = done
  BY DEF Type
<1>4. PICK t : t = Append(input, c)
  OBVIOUS
<1>5. input' = t
  BY <1>2, <1>4
<1>6. input \in Seq(Characters) /\ next \in 0..Len(input)
  BY <1>1 DEF ConsoleTypeOK
<1>7. /\ t \in Seq(Characters) /\ Len(t) = Len(input) + 1 /\ Len(input) \in Nat
      /\ \A q \in 1..Len(input) : q \in Newlines(input) <=> q \in Newlines(t)
      /\ Newlines(input) \in SUBSET (1..Len(input))
      /\ Newlines(t) \in SUBSET (1..(Len(input) + 1))
      /\ \A p \in 1..Len(input), q \in 0..Len(input) : SubSeq(t, p, q) = SubSeq(input, p, q)
      /\ Fits(t) => Fits(input)
  BY <1>4, <1>6, Typed
<1>8. ConsoleTypeOK'
  BY <1>1, <1>3, <1>5, <1>7 DEF ConsoleTypeOK
<1>9. OutsideOnlyAtNul' /\ PieceInv'
  <2>1. \A q \in 1..Len(input) : t[q] = input[q]
    BY <1>4, <1>6, Typed
  <2>2. ASSUME NEW k \in 1..(next + 1), BeginsPiece(k) PROVE BeginsPiece(k)'
    <3>1. k = 1 \/ k - 1 \in 1..Len(input)
      BY <1>6, <1>7
    <3>2. k > Limit => \A m \in (k - Limit)..(k - 1) : m \in 1..Len(input)
      BY <1>6, <1>7, LimitIs
    <3>3. k' = k /\ input' = t
      BY <1>5
    <3>4. QED
      BY <2>1, <2>2, <3>1, <3>2, <3>3 DEF BeginsPiece, Limit
  <2>3. ASSUME outside PROVE OutsideOnlyAtNul'
    <3>1. PICK k \in 1..next : input[k] = Nul /\ BeginsPiece(k)
      BY <1>1, <1>3, <2>3 DEF OutsideOnlyAtNul
    <3>2. k \in 1..(next + 1) /\ k \in 1..Len(input)
      BY <1>6, <1>7
    <3>3. t[k] = Nul /\ BeginsPiece(k)'
      BY <2>1, <2>2, <3>1, <3>2
    <3>4. QED
      BY <1>3, <1>5, <3>1, <3>3 DEF OutsideOnlyAtNul
  <2>4. ~outside => OutsideOnlyAtNul'
    BY <1>3 DEF OutsideOnlyAtNul
  <2>5. BeginsPiece(next + 1)'
    <3>1. next + 1 \in 1..(next + 1) /\ BeginsPiece(next + 1)
      BY <1>1, <1>3, <1>6 DEF PieceInv
    <3>2. PICK k \in 1..(next + 1) : k = next + 1
      BY <3>1
    <3>3. BeginsPiece(k)'
      BY <2>2, <3>1, <3>2
    <3>4. QED
      BY <1>3, <3>2, <3>3
  <2>6. QED
    BY <2>3, <2>4, <2>5 DEF PieceInv
<1>10. next \in Newlines(t) \cup {0} <=> next \in Newlines(input) \cup {0}
  BY <1>6, <1>7
<1>11. PlaceInv'
  <2> SUFFICES ASSUME Fits(t), next \notin Newlines(input) \cup {0}
               PROVE  /\ \A k \in Newlines(t) : k < next
                      /\ \A m \in Newlines(t) \cup {0} : next - m >= Limit
    BY <1>3, <1>5, <1>10 DEF PlaceInv, InLongLine
  <2>1. /\ \A k \in Newlines(input) : k < next
        /\ \A m \in Newlines(input) \cup {0} : next - m >= Limit
    BY <1>1, <1>3, <1>7 DEF PlaceInv, InLongLine
  <2>2. PICK b : b = Len(input) + 1
    OBVIOUS
  <2>3. b \notin Newlines(t)
    <3> SUFFICES ASSUME b \in Newlines(t) PROVE FALSE
      OBVIOUS
    <3>1. PICK a \in Newlines(t) \cup {0} :
              a < b /\ \A q \in (a + 1)..(b - 1) : q \notin Newlines(t)
      BY <1>7, LineHasStart
    <3>2. LineBefore(t, b) = SubSeq(t, a + 1, b - 1)
      BY <1>7, <3>1, LineIs
    <3>3. a \in Newlines(input) \cup {0} /\ a \in 0..Len(input)
      BY <1>7, <2>2, <3>1
    <3>4. Len(SubSeq(t, a + 1, b - 1)) = Len(input) - a
      BY <1>7, <2>2, <3>3
    <3>5. Len(input) - a >= Limit
      BY <1>6, <1>7, <2>1, <3>3, LimitIs
    <3>6. Len(LineBefore(t, b)) < Limit
      BY DEF Fits
    <3>7. QED
      BY <1>7, <3>2, <3>3, <3>4, <3>5, <3>6, LimitIs
  <2>4. Newlines(t) \cup {0} = Newlines(input) \cup {0}
    BY <1>7, <2>2, <2>3
  <2>5. \A k \in Newlines(t) : k \in Newlines(input)
    BY <1>7, <2>2, <2>3
  <2>6. QED
    BY <2>1, <2>4, <2>5
<1>12. CommandsAsTyped'
  <2>1. SubSeq(t, 1, next) = SubSeq(input, 1, next)
    <3>1. CASE Len(input) = 0
      <4>1. SubSeq(t, 1, 0) = <<>> /\ SubSeq(input, 1, 0) = <<>>
        BY <1>6, <1>7
      <4>2. QED
        BY <1>6, <3>1, <4>1
    <3>2. CASE Len(input) # 0
      BY <1>6, <1>7, <3>2
    <3>3. QED
      BY <3>1, <3>2
  <2>2. \A q \in 1..next : t[q] = input[q]
    <3>1. \A q \in 1..Len(input) : t[q] = input[q]
      BY <1>4, <1>6, Typed
    <3>2. \A q \in 1..next : q \in 1..Len(input)
      BY <1>6, <1>7
    <3>3. QED
      BY <3>1, <3>2
  <2>3. QED
    BY <1>1, <1>3, <1>5, <1>7, <1>10, <2>1, <2>2 DEF CommandsAsTyped
<1>13. NothingInvented'
  <2>1. PICK f \in [1..Len(done) -> 1..next] :
            /\ \A n \in 1..Len(done) :
                   /\ f[n] + Len(done[n]) <= next
                   /\ SubSeq(input, f[n], f[n] + Len(done[n]) - 1) = done[n]
            /\ \A m, n \in 1..Len(done) : m < n => f[m] < f[n]
    BY <1>1 DEF NothingInvented
  <2>2. ASSUME NEW n \in 1..Len(done)
        PROVE  SubSeq(t, f[n], f[n] + Len(done[n]) - 1) = done[n]
    <3>1. f[n] \in 1..next /\ f[n] + Len(done[n]) <= next
      BY <2>1
    <3>2. PICK q : q = f[n] + Len(done[n]) - 1
      OBVIOUS
    <3>3. SubSeq(input, f[n], q) = done[n]
      BY <2>1, <3>2
    <3>4. Len(done[n]) \in Nat
      BY <1>1, DoneAre
    <3>5. f[n] \in 1..Len(input) /\ q \in 0..Len(input)
      BY <1>6, <1>7, <3>1, <3>2, <3>4
    <3>6. QED
      BY <1>7, <3>2, <3>3, <3>5
  <2>3. QED
    BY <1>3, <1>5, <2>1, <2>2 DEF NothingInvented
<1>14. QED
  BY <1>8, <1>9, <1>11, <1>12, <1>13 DEF LineInv
LEMMA CloseLine == LineInv /\ (Close \/ UNCHANGED consoleVars) => LineInv'
<1> SUFFICES ASSUME LineInv, Close \/ UNCHANGED consoleVars PROVE LineInv'
  OBVIOUS
<1>1. /\ ConsoleTypeOK /\ PlaceInv /\ PieceInv /\ CommandsAsTyped /\ NothingInvented
      /\ OutsideOnlyAtNul
  BY DEF LineInv
<1>2. /\ input' = input /\ next' = next /\ state' = state
      /\ outside' = outside /\ done' = done
  BY DEF Close, consoleVars
<1>3. closed' = TRUE \/ closed' = closed
  BY DEF Close, consoleVars
<1>4. ConsoleTypeOK' /\ OutsideOnlyAtNul' /\ PieceInv'
  BY <1>1, <1>2, <1>3 DEF ConsoleTypeOK, OutsideOnlyAtNul, PieceInv, BeginsPiece
<1>5. PlaceInv'
  BY <1>1, <1>2, <1>3 DEF PlaceInv, InLongLine
<1>6. CommandsAsTyped' /\ NothingInvented'
  BY <1>1, <1>2 DEF CommandsAsTyped, NothingInvented
<1>7. QED
  BY <1>4, <1>5, <1>6 DEF LineInv

(* A round of the loop reads a line, a piece of one, or nothing at the end, and
   executes the one word that it holds, if that is a command. *)
LEMMA RunEffect ==
    ASSUME LineInv, Run
    PROVE  /\ input' = input /\ closed' = closed /\ state = "runs"
           /\ \/ /\ closed /\ next = Len(input) /\ next' = next /\ outside' = TRUE
                 /\ done' = done /\ state' = state
              \/ \E k \in 1..(Len(input) - next), line \in Seq(Characters) :
                    /\ next' = next + k /\ TextRead(input, next, k, line)
                    /\ outside' \in BOOLEAN
                    /\ outside' => outside \/ input[next + 1] = Nul
                    /\ k <= Limit
                    /\ input[next + k] = Newline \/ k = Limit
                           \/ (next + k = Len(input) /\ closed)
                    /\ \A q \in (next + 1)..(next + k - 1) : input[q] # Newline
                    /\ \/ \E c \in Commands :
                             /\ Matches(line, c) /\ done' = Append(done, c)
                             /\ state' \in {"runs", "exited"}
                       \/ /\ ~\E c \in Commands : Matches(line, c)
                          /\ done' = done /\ state' = state
                       \/ done' = done /\ state' = "crashed"
<1>1. PICK read : read = Fgets(SubSeq(input, next + 1, Len(input)))
  OBVIOUS
<1>2. /\ state = "runs" /\ Complete(read)
      /\ next' = next + Len(read)
      /\ outside' = (outside \/ TextOf(read) = <<>>)
      /\ \/ \E c \in Commands :
               /\ Matches(Chopped(read), c)
               /\ done' = Append(done, c)
               /\ state' = IF c = Exit THEN "exited" ELSE state
         \/ /\ ~\E c \in Commands : Matches(Chopped(read), c)
            /\ done' = done /\ state' = state
         \/ /\ Chopped(read) # <<>>
            /\ state' = "crashed" /\ done' = done
      /\ input' = input /\ closed' = closed
  BY <1>1 DEF Run
<1>3. /\ input \in Seq(Characters) /\ next \in 0..Len(input) /\ Len(input) \in Nat
      /\ outside \in BOOLEAN
  BY DEF LineInv, ConsoleTypeOK
<1>4. /\ next = Len(input) => read = <<>> /\ Len(read) = 0 /\ TextOf(read) = <<>>
                                /\ Chopped(read) = <<>>
      /\ next < Len(input) =>
             \E k \in 1..(Len(input) - next) : Takes(input, next, read, k)
  <2>1. input \in Seq(Characters) /\ next \in 0..Len(input)
    BY <1>3
  <2>2. QED
    BY <1>1, <2>1, ReadIs
<1>5. CASE next = Len(input)
  <2>1. read = <<>> /\ Len(read) = 0 /\ TextOf(read) = <<>> /\ Chopped(read) = <<>>
    BY <1>4, <1>5
  <2>2. closed
    BY <1>2, <2>1, LimitIs DEF Complete
  <2>3. next' = next
    BY <1>2, <1>3, <2>1
  <2>4. outside' = TRUE
    BY <1>2, <2>1
  <2>5. done' = done /\ state' = state
    <3>1. ASSUME NEW c \in Commands PROVE ~Matches(<<>>, c)
      <4>1. <<>> \in Seq(Characters) /\ Len(<<>>) = 0
        OBVIOUS
      <4>2. PICK empty : empty = <<>>
        OBVIOUS
      <4>3. empty \in Seq(Characters) /\ 1..Len(empty) = {}
        BY <4>1, <4>2
      <4>4. WordsOf(empty, Space) # <<c>>
        BY <4>3, CommandStands
      <4>5. QED
        BY <4>2, <4>4 DEF Matches
    <3>2. QED
      BY <1>2, <2>1, <3>1
  <2>6. QED
    BY <1>2, <1>5, <2>2, <2>3, <2>4, <2>5
<1>6. CASE next < Len(input)
  <2>1. PICK k \in 1..(Len(input) - next) :
             /\ read # <<>> /\ Len(read) = k /\ Last(read) = input[next + k]
             /\ TextRead(input, next, k, Chopped(read))
             /\ TextOf(read) = <<>> => input[next + 1] = Nul
             /\ k <= Limit
             /\ input[next + k] = Newline \/ k = Limit \/ next + k = Len(input)
             /\ \A q \in (next + 1)..(next + k - 1) : input[q] # Newline
    BY <1>4, <1>6 DEF Takes
  <2>2. PICK line : line = Chopped(read)
    OBVIOUS
  <2>3. line \in Seq(Characters) /\ TextRead(input, next, k, line)
    BY <2>1, <2>2 DEF TextRead
  <2>4. k = Limit \/ input[next + k] = Newline \/ closed
    BY <1>2, <2>1 DEF Complete
  <2>5. input[next + k] = Newline \/ k = Limit \/ (next + k = Len(input) /\ closed)
    BY <2>1, <2>4
  <2>6. outside' \in BOOLEAN /\ (outside' => outside \/ input[next + 1] = Nul)
    BY <1>2, <1>3, <2>1, Zenon
  <2>7. \/ \E c \in Commands : /\ Matches(line, c) /\ done' = Append(done, c)
                               /\ state' \in {"runs", "exited"}
        \/ /\ ~\E c \in Commands : Matches(line, c)
           /\ done' = done /\ state' = state
        \/ done' = done /\ state' = "crashed"
    <3>1. Chopped(read) = line /\ read # <<>> /\ state = "runs"
      BY <1>2, <2>1, <2>2
    <3>2. QED
      BY <1>2, <3>1
  <2>8. next' = next + k
    BY <1>2, <2>1
  <2>9. QED
    BY <1>2, <2>1, <2>2, <2>3, <2>5, <2>6, <2>7, <2>8
<1>7. next = Len(input) \/ next < Len(input)
  BY <1>3
<1>8. QED
  BY <1>5, <1>6, <1>7, Zenon

(* Of a line whose end was not read the rest does not fit. *)
LEMMA RunPlace ==
    ASSUME LineInv, Fits(input), NEW k \in 1..(Len(input) - next), NEW b, b = next + k,
           k = Limit \/ (next + k = Len(input) /\ closed), input[next + k] # Newline,
           \A q \in (next + 1)..(next + k - 1) : input[q] # Newline
    PROVE  /\ \A m \in Newlines(input) : m < b
           /\ closed \/ \A m \in Newlines(input) \cup {0} : b - m >= Limit
<1>1. /\ input \in Seq(Characters) /\ next \in 0..Len(input) /\ Len(input) \in Nat
      /\ k \in Nat /\ k > 0
  BY DEF LineInv, ConsoleTypeOK
<1>2. \A m \in Newlines(input) : m \in 1..Len(input) /\ input[m] = Newline
  BY DEF Newlines
<1>3. \A m \in (next + 1)..(next + k) : m \notin Newlines(input)
  <2>1. \A m \in (next + 1)..(next + k) : m \in (next + 1)..(next + k - 1) \/ m = next + k
    BY <1>1
  <2>2. QED
    BY <1>2, <2>1
<1>4. next \in Newlines(input) \cup {0} \/ InLongLine
  BY DEF LineInv, PlaceInv
<1>5. CASE InLongLine
  <2>1. \A m \in Newlines(input) : m < b
    BY <1>1, <1>2, <1>5 DEF InLongLine
  <2>2. closed \/ \A m \in Newlines(input) \cup {0} : b - m >= Limit
    <3>1. \A m \in Newlines(input) \cup {0} : m \in Nat
      BY <1>2
    <3>2. \A m \in Newlines(input) \cup {0} :
              next - m >= Limit => b - m >= Limit
      BY <1>1, <3>1, LimitIs
    <3>3. QED
      BY <1>5, <3>2 DEF InLongLine
  <2>3. QED
    BY <2>1, <2>2
<1>6. CASE next \in Newlines(input) \cup {0}
  <2>1. PICK later : later = {m \in Newlines(input) : m > next}
    OBVIOUS
  <2>2. later = {}
    <3> SUFFICES ASSUME later # {} PROVE FALSE
      OBVIOUS
    <3>1. later \in SUBSET (1..Len(input))
      BY <1>2, <2>1
    <3>2. \E p \in later : \A q \in later : p <= q
      BY <1>1, <3>1, LeastAndGreatest
    <3>3. PICK d \in later : \A q \in later : d <= q
      BY <3>2
    <3>4. d \in Newlines(input) /\ next < d /\ d \in 1..Len(input)
      BY <1>2, <2>1, <3>3
    <3>5. d > next + k
      BY <1>1, <1>3, <3>4
    <3>6. \A q \in (next + 1)..(d - 1) : q \notin Newlines(input)
      BY <1>1, <2>1, <3>3, <3>4
    <3>7. LineBefore(input, d) = SubSeq(input, next + 1, d - 1)
      BY <1>1, <1>6, <3>4, <3>6, LineIs
    <3>8. Len(SubSeq(input, next + 1, d - 1)) = d - 1 - next
      BY <1>1, <3>4
    <3>9. Len(LineBefore(input, d)) < Limit
      BY <3>4 DEF Fits
    <3>10. k = Limit
      BY <1>1, <3>4, <3>5
    <3>11. QED
      BY <1>1, <3>4, <3>5, <3>7, <3>8, <3>9, <3>10, LimitIs
  <2>3. \A m \in Newlines(input) : m <= next
    BY <1>1, <1>2, <2>1, <2>2
  <2>4. \A m \in Newlines(input) \cup {0} : m \in Nat /\ m <= next
    BY <1>1, <1>2, <2>3
  <2>5. k = Limit => \A m \in Newlines(input) \cup {0} : b - m >= Limit
    BY <1>1, <2>4, LimitIs
  <2>6. \A m \in Newlines(input) : m < b
    BY <1>1, <1>2, <2>3
  <2>7. QED
    BY <2>5, <2>6
<1>7. QED
  BY <1>4, <1>5, <1>6

LEMMA RunLine == LineInv /\ Run => LineInv'
<1> SUFFICES ASSUME LineInv, Run PROVE LineInv'
  OBVIOUS
<1>1. /\ ConsoleTypeOK /\ PlaceInv /\ PieceInv /\ CommandsAsTyped /\ NothingInvented
      /\ OutsideOnlyAtNul
  BY DEF LineInv
<1>2. /\ input \in Seq(Characters) /\ next \in 0..Len(input) /\ Len(input) \in Nat
      /\ done \in Seq(Commands) /\ closed \in BOOLEAN /\ outside \in BOOLEAN
      /\ state \in {"runs", "exited", "crashed"}
  BY <1>1 DEF ConsoleTypeOK
<1>3. input' = input /\ closed' = closed /\ state = "runs"
  BY RunEffect
<1>4. CASE /\ closed /\ next = Len(input) /\ next' = next /\ outside' = TRUE
           /\ done' = done /\ state' = state
  <2>1. ConsoleTypeOK'
    BY <1>2, <1>3, <1>4 DEF ConsoleTypeOK
  <2>2. OutsideOnlyAtNul' /\ PieceInv'
    BY <1>3, <1>4 DEF OutsideOnlyAtNul, PieceInv
  <2>3. PlaceInv'
    BY <1>1, <1>3, <1>4 DEF PlaceInv, InLongLine
  <2>4. CommandsAsTyped' /\ NothingInvented'
    BY <1>1, <1>3, <1>4 DEF CommandsAsTyped, NothingInvented
  <2>5. QED
    BY <2>1, <2>2, <2>3, <2>4 DEF LineInv
<1>5. ASSUME NEW k \in 1..(Len(input) - next), NEW line \in Seq(Characters),
             next' = next + k, TextRead(input, next, k, line), k <= Limit,
             outside' \in BOOLEAN, outside' => outside \/ input[next + 1] = Nul,
             input[next + k] = Newline \/ k = Limit \/ (next + k = Len(input) /\ closed),
             \A q \in (next + 1)..(next + k - 1) : input[q] # Newline,
             \/ \E c \in Commands : /\ Matches(line, c) /\ done' = Append(done, c)
                                    /\ state' \in {"runs", "exited"}
             \/ /\ ~\E c \in Commands : Matches(line, c)
                /\ done' = done /\ state' = state
             \/ done' = done /\ state' = "crashed"
      PROVE  LineInv'
  <2>1. ConsoleTypeOK'
    <3>1. done' \in Seq(Commands) /\ state' \in {"runs", "exited", "crashed"}
      <4>1. CASE \E c \in Commands : /\ done' = Append(done, c)
                                     /\ state' \in {"runs", "exited"}
        BY <1>2, <4>1
      <4>2. CASE done' = done /\ state' \in {state, "crashed"}
        BY <1>2, <4>2
      <4>3. QED
        BY <1>5, <4>1, <4>2
    <3>2. next' \in 0..Len(input)
      BY <1>2, <1>5
    <3>3. QED
      BY <1>2, <1>3, <1>5, <3>1, <3>2 DEF ConsoleTypeOK
  <2>2. OutsideOnlyAtNul' /\ PieceInv'
    <3>1. BeginsPiece(next + 1) /\ next # Len(input)
      BY <1>1, <1>2, <1>5 DEF PieceInv
    <3>2. \A q \in 1..next : q \in 1..(next + k)
      BY <1>2, <1>5
    <3>3. next + 1 \in 1..(next + k)
      BY <1>2, <1>5
    <3>4. outside => \E q \in 1..next : input[q] = Nul /\ BeginsPiece(q)
      BY <1>1, <3>1 DEF OutsideOnlyAtNul
    <3>5. outside' => \E q \in 1..(next + k) : input[q] = Nul /\ BeginsPiece(q)
      BY <1>5, <3>1, <3>2, <3>3, <3>4
    <3>6. \A q : BeginsPiece(q)' <=> BeginsPiece(q)
      BY <1>3 DEF BeginsPiece, Limit
    <3>7. OutsideOnlyAtNul'
      BY <1>3, <1>5, <3>5, <3>6 DEF OutsideOnlyAtNul
    <3>8. PICK b : b = next + k + 1
      OBVIOUS
    <3>9. b \in Nat /\ b - 1 = next + k
      BY <1>2, <1>5, <3>8
    <3>10. ASSUME input[next + k] = Newline PROVE BeginsPiece(b)
      BY <3>9, <3>10 DEF BeginsPiece
    <3>11. ASSUME k = Limit, input[next + k] # Newline PROVE BeginsPiece(b)
      <4>1. b > Limit /\ b - Limit = next + 1
        BY <1>2, <3>8, <3>11, LimitIs
      <4>2. \A m \in (b - Limit)..(b - 1) : m \in (next + 1)..(next + k - 1) \/ m = next + k
        BY <1>2, <1>5, <3>9, <4>1
      <4>3. \A m \in (b - Limit)..(b - 1) : input[m] # Newline
        BY <1>5, <3>11, <4>2
      <4>4. QED
        BY <4>1, <4>3 DEF BeginsPiece
    <3>12. BeginsPiece(b) \/ (next + k = Len(input) /\ closed)
      BY <1>5, <3>9, <3>10, <3>11 DEF BeginsPiece
    <3>13. QED
      BY <1>3, <1>5, <3>6, <3>7, <3>8, <3>12 DEF PieceInv
  <2>3. \A m \in Newlines(input) : m \in 1..Len(input)
    BY DEF Newlines
  <2>4. next + k \in Newlines(input) <=> input[next + k] = Newline
    BY <1>2, <1>5 DEF Newlines
  <2>5. PlaceInv'
    <3>1. PICK b : b = next + k
      OBVIOUS
    <3>2. ASSUME Fits(input), b \notin Newlines(input)
          PROVE  /\ \A m \in Newlines(input) : m < b
                 /\ closed \/ \A m \in Newlines(input) \cup {0} : b - m >= Limit
      <4>1. /\ input[next + k] # Newline
            /\ k = Limit \/ (next + k = Len(input) /\ closed)
        BY <1>5, <2>4, <3>1, <3>2
      <4>2. \A q \in (next + 1)..(next + k - 1) : input[q] # Newline
        BY <1>5
      <4>3. QED
        BY <3>1, <3>2, <4>1, <4>2, RunPlace
    <3>3. input' = input /\ closed' = closed /\ next' = b
      BY <1>3, <1>5, <3>1
    <3>4. QED
      BY <3>2, <3>3 DEF PlaceInv, InLongLine
  <2>6. CommandsAsTyped'
    <3> SUFFICES ASSUME Fits(input), \A q \in 1..(next + k) : input[q] # Nul,
                        state' = "runs", next + k \in Newlines(input) \cup {0}
                 PROVE  done' = CommandsIn(SubSeq(input, 1, next + k))
      BY <1>3, <1>5 DEF CommandsAsTyped
    <3>1. /\ \A q \in 1..next : input[q] # Nul
          /\ line = SubSeq(input, next + 1, next + k - 1)
      <4>1. \A q \in 1..next : q \in 1..(next + k)
        BY <1>2, <1>5
      <4>2. \A q \in (next + 1)..(next + k) : q \in 1..(next + k)
        BY <1>2, <1>5
      <4>3. QED
        BY <1>5, <4>1, <4>2 DEF TextRead
    <3>2. next + k \in Newlines(input)
      BY <1>2, <1>5
    <3>3. next \in Newlines(input) \cup {0}
      <4>1. ~(next + k < next)
        BY <1>2, <1>5
      <4>2. ~InLongLine
        BY <3>2, <4>1 DEF InLongLine
      <4>3. QED
        BY <1>1, <4>2 DEF PlaceInv
    <3>4. done = CommandsIn(SubSeq(input, 1, next))
      BY <1>1, <1>3, <3>3, <3>1 DEF CommandsAsTyped
    <3>5. \A q \in (next + 1)..(next + k - 1) : q \notin Newlines(input)
      BY <1>5 DEF Newlines
    <3>6. next < next + k
      BY <1>2, <1>5
    <3>7. PICK a, b : a = next /\ b = next + k
      OBVIOUS
    <3>8. /\ \A c \in Commands : Matches(line, c) =>
                 CommandsIn(SubSeq(input, 1, b)) = Append(CommandsIn(SubSeq(input, 1, a)), c)
          /\ (~\E c \in Commands : Matches(line, c)) =>
                 CommandsIn(SubSeq(input, 1, b)) = CommandsIn(SubSeq(input, 1, a))
      <4>1. /\ a \in Newlines(input) \cup {0} /\ b \in Newlines(input) /\ a < b
            /\ \A q \in (a + 1)..(b - 1) : q \notin Newlines(input)
            /\ line = SubSeq(input, a + 1, b - 1) /\ input \in Seq(Characters)
        BY <1>2, <3>2, <3>3, <3>5, <3>6, <3>7, <3>1
      <4>2. PICK s : s = input
        OBVIOUS
      <4>3. /\ \A c \in Commands : Matches(line, c) =>
                   CommandsIn(SubSeq(s, 1, b)) = Append(CommandsIn(SubSeq(s, 1, a)), c)
            /\ (~\E c \in Commands : Matches(line, c)) =>
                   CommandsIn(SubSeq(s, 1, b)) = CommandsIn(SubSeq(s, 1, a))
        BY <4>1, <4>2, NextLine, Zenon
      <4>4. QED
        BY <4>2, <4>3, Zenon
    <3>9. QED
      BY <1>5, <3>4, <3>7, <3>8
  <2>7. NothingInvented'
    <3>1. PICK f \in [1..Len(done) -> 1..next] :
              /\ \A n \in 1..Len(done) :
                     /\ f[n] + Len(done[n]) <= next
                     /\ SubSeq(input, f[n], f[n] + Len(done[n]) - 1) = done[n]
              /\ \A m, n \in 1..Len(done) : m < n => f[m] < f[n]
      BY <1>1 DEF NothingInvented
    <3>2. Len(done) \in Nat /\ \A n \in 1..Len(done) : Len(done[n]) \in Nat
      BY <1>1, DoneAre
    <3>3. \A n \in 1..Len(done) : f[n] \in 1..next /\ f[n] \in 1..(next + k)
                                  /\ f[n] + Len(done[n]) <= next + k
      <4> SUFFICES ASSUME NEW n \in 1..Len(done)
                   PROVE  f[n] \in 1..next /\ f[n] \in 1..(next + k)
                          /\ f[n] + Len(done[n]) <= next + k
        OBVIOUS
      <4>1. f[n] \in 1..next /\ f[n] + Len(done[n]) <= next /\ Len(done[n]) \in Nat
        BY <3>1, <3>2
      <4>2. next \in Nat /\ k \in Nat
        BY <1>2
      <4>3. QED
        BY <4>1, <4>2
    <3>4. CASE done' = done
      <4>1. f \in [1..Len(done) -> 1..(next + k)]
        BY <3>1, <3>3
      <4>2. QED
        BY <1>3, <1>5, <3>1, <3>3, <3>4, <4>1 DEF NothingInvented
    <3>5. ASSUME NEW c \in Commands, Matches(line, c), done' = Append(done, c)
          PROVE  NothingInvented'
      <4>1. PICK p \in 1..Len(line) : \E e \in p..Len(line) : c = SubSeq(line, p, e)
        <5>1. WordsOf(line, Space) = <<c>>
          BY <3>5 DEF Matches
        <5>2. QED
          BY <5>1, CommandStands
      <4>2. PICK e \in p..Len(line) : c = SubSeq(line, p, e)
        BY <4>1
      <4>3. /\ Len(line) <= k - 1 /\ Len(line) \in Nat
            /\ \A q \in 1..Len(line) : line[q] = input[next + q]
        BY <1>5 DEF TextRead
      <4>4. /\ p \in 1..(k - 1) /\ e \in p..(k - 1) /\ e <= Len(line)
            /\ c \in Seq(Characters) /\ Len(c) = e - p + 1
            /\ \A q \in 1..(e - p + 1) : c[q] = line[p + q - 1]
        <5>1. p \in 1..(k - 1) /\ e \in p..(k - 1) /\ e <= Len(line)
          BY <1>5, <4>1, <4>2, <4>3
        <5>2. /\ c \in Seq(Characters) /\ Len(c) = e - p + 1
              /\ \A q \in 1..(e - p + 1) : c[q] = line[p + q - 1]
          BY <4>2, PartIs
        <5>3. QED
          BY <5>1, <5>2
      <4>5. SubSeq(input, next + p, next + p + Len(c) - 1) = c
        <5>1. PICK v : v = SubSeq(input, next + p, next + e)
          OBVIOUS
        <5>2. /\ v \in Seq(Characters) /\ Len(v) = e - p + 1
              /\ \A q \in 1..(e - p + 1) : v[q] = input[next + p + q - 1]
          <6>1. PICK a, b : a = next + p /\ b = next + e
            OBVIOUS
          <6>2. next \in Nat /\ p \in Nat /\ e \in Nat /\ p >= 1 /\ p <= e
                /\ next + e <= Len(input)
            BY <1>2, <1>5, <4>4
          <6>3. /\ a \in 1..Len(input) /\ b \in a..Len(input)
                /\ b - a + 1 = e - p + 1 /\ \A q \in 1..(e - p + 1) : a + q - 1 = next + p + q - 1
            BY <1>2, <6>1, <6>2
          <6>4. v = SubSeq(input, a, b)
            BY <5>1, <6>1
          <6>5. /\ v \in Seq(Characters) /\ Len(v) = b - a + 1
                /\ \A q \in 1..(b - a + 1) : v[q] = input[a + q - 1]
            BY <1>2, <6>3, <6>4, PartIs
          <6>6. QED
            BY <6>3, <6>5
        <5>3. \A q \in 1..(e - p + 1) : p + q - 1 \in 1..Len(line)
                                        /\ next + (p + q - 1) = next + p + q - 1
          BY <1>2, <1>5, <4>3, <4>4
        <5>4. ASSUME NEW q \in 1..(e - p + 1) PROVE v[q] = c[q]
          <6>1. v[q] = input[next + p + q - 1] /\ c[q] = line[p + q - 1]
            BY <4>4, <5>2
          <6>2. line[p + q - 1] = input[next + (p + q - 1)]
            BY <4>3, <5>3
          <6>3. QED
            BY <5>3, <6>1, <6>2
        <5>5. v = c
          BY <4>4, <5>2, <5>4, SeqEqual
        <5>6. next + p + Len(c) - 1 = next + e
          BY <1>2, <1>5, <4>4
        <5>7. QED
          BY <5>1, <5>5, <5>6
      <4>6. PICK d : d = Append(done, c)
        OBVIOUS
      <4>7. /\ d \in Seq(Commands) /\ Len(d) = Len(done) + 1 /\ d[Len(done) + 1] = c
            /\ \A n \in 1..Len(done) : d[n] = done[n]
            /\ \A n \in 1..(Len(done) + 1) : n \in 1..Len(done) \/ n = Len(done) + 1
        BY <1>2, <4>6, Appended
      <4>8. PICK g : g = [n \in 1..Len(d) |-> IF n <= Len(done) THEN f[n] ELSE next + p]
        OBVIOUS
      <4>9. /\ \A n \in 1..Len(done) : g[n] = f[n]
            /\ g[Len(done) + 1] = next + p /\ next + p \in 1..(next + k)
            /\ next + p + Len(c) <= next + k
        BY <1>2, <1>5, <3>2, <4>4, <4>7, <4>8
      <4>10. g \in [1..Len(d) -> 1..(next + k)]
        <5>1. \A n \in 1..Len(d) : g[n] \in 1..(next + k)
          BY <3>3, <4>7, <4>9
        <5>2. QED
          BY <4>8, <5>1
      <4>11. ASSUME NEW n \in 1..Len(d)
             PROVE  /\ g[n] + Len(d[n]) <= next + k
                    /\ SubSeq(input, g[n], g[n] + Len(d[n]) - 1) = d[n]
        <5>1. CASE n \in 1..Len(done)
          BY <3>1, <3>3, <4>7, <4>9, <5>1
        <5>2. CASE n = Len(done) + 1
          BY <4>5, <4>7, <4>9, <5>2
        <5>3. QED
          BY <4>7, <5>1, <5>2
      <4>12. ASSUME NEW m \in 1..Len(d), NEW n \in 1..Len(d), m < n PROVE g[m] < g[n]
        <5>1. m \in 1..Len(done)
          BY <3>2, <4>7, <4>12
        <5>2. CASE n \in 1..Len(done)
          BY <3>1, <4>9, <4>12, <5>1, <5>2
        <5>3. CASE n = Len(done) + 1
          <6>1. f[m] \in 1..next /\ g[m] = f[m] /\ g[n] = next + p
            BY <3>3, <4>9, <5>1, <5>3
          <6>2. QED
            BY <1>2, <4>4, <6>1
        <5>4. QED
          BY <4>7, <5>2, <5>3
      <4>13. done' = d
        BY <3>5, <4>6
      <4>14. QED
        BY <1>3, <1>5, <4>10, <4>11, <4>12, <4>13 DEF NothingInvented
    <3>6. QED
      BY <1>5, <3>4, <3>5
  <2>8. QED
    BY <2>1, <2>2, <2>5, <2>6, <2>7 DEF LineInv
<1>6. QED
  BY <1>4, <1>5, RunEffect

LEMMA LineInvariance == ConsoleSpec => []LineInv
<1>1. LineInv /\ [ConsoleNext]_consoleVars => LineInv'
  BY TypeLine, CloseLine, RunLine DEF ConsoleNext
<1>2. QED
  BY <1>1, InitLine, PTL DEF ConsoleSpec

(* Whatever is typed, in lines of any length and with any buffer, exactly the
   commands are executed that stand alone in their lines, in their order; and
   from lines that are too long nothing that does not stand there
   (main.c:154-181). *)
THEOREM Typing == ConsoleSpec => []TypedCommandsRun
<1>1. LineInv => TypedCommandsRun
  BY DEF LineInv, TypedCommandsRun
<1>2. QED
  BY <1>1, LineInvariance, PTL

(* Run writes in front of its line only when the input is over, or when what it
   read begins with a NUL (main.c:160-162). *)
THEOREM Inside == ConsoleSpec => []OutsideOnlyAtNul
<1>1. LineInv => OutsideOnlyAtNul
  BY DEF LineInv
<1>2. QED
  BY <1>1, LineInvariance, PTL
=============================================================================
