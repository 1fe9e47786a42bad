----------------------------- MODULE MjpegProofs -----------------------------
(***************************************************************************)
(* Theorems about MjpegParser, for streams, chunks and limits of any size: *)
(* what Append delivers is what the automaton finds in the stream.         *)
(*                                                                         *)
(* Two recursive functions are compared, the rounds of Append over its     *)
(* buffer and the automaton over the stream.  Induction is the least       *)
(* counterexample: a set of natural numbers that is not empty has a least  *)
(* element (LeastNat), and the one before it is no counterexample.         *)
(***************************************************************************)
EXTENDS MjpegParser, Integers, NaturalsInduction, SequenceTheorems, WellFoundedInduction, TLAPS

-------------------------------------------------------------------------------
(* Induction, slices of sequences *)

(* The order of the natural numbers is well-founded.                       *)
LEMMA NatWF == IsWellFoundedOn({p \in Nat \X Nat : p[1] < p[2]}, Nat)
BY NatLessThanWellFounded DEF OpToRel

(* A set of natural numbers that is not empty has a least element.         *)
LEMMA LeastNat ==
  ASSUME NEW T, T \subseteq Nat, T # {}
  PROVE  \E m \in T : \A k \in T : m <= k
<1> DEFINE R == {p \in Nat \X Nat : p[1] < p[2]}
<1>1. IsWellFoundedOn(R, Nat)
  BY NatWF
<1>2. \A x, y \in Nat : <<y, x>> \in R <=> y < x
  OBVIOUS
<1> HIDE DEF R
<1>3. PICK m \in T : \A y \in T : ~ (<<y, m>> \in R)
  BY <1>1, WFMin
<1>4. m \in Nat /\ \A k \in T : k \in Nat /\ ~ (k < m)
  BY <1>2, <1>3
<1> QED
  BY <1>4

(* What is cut out of a sequence, its length and its last element.         *)
LEMMA SliceType ==
  ASSUME NEW S, NEW b \in Seq(S), NEW s \in 1..Len(b), NEW e \in s..Len(b)
  PROVE  /\ SubSeq(b, s, e) \in Seq(S) /\ SubSeq(b, s, e) # <<>>
         /\ Len(SubSeq(b, s, e)) = e - s + 1 /\ Last(SubSeq(b, s, e)) = b[e]
<1> DEFINE l == SubSeq(b, s, e)
<1>1. l \in Seq(S) /\ Len(l) = e - s + 1 /\ \A k \in 1..(e - s + 1) : l[k] = b[s + k - 1]
  BY SubSeqProperties
<1> HIDE DEF l
<1>2. Len(l) \in 1..(e - s + 1) /\ s + Len(l) - 1 = e
  BY <1>1
<1>3. l[Len(l)] = b[e]
  BY <1>1, <1>2
<1>4. l # <<>>
  BY <1>2
<1> QED BY <1>1, <1>3, <1>4 DEF l, Last

(* A slice of one element.                                                 *)
LEMMA SliceOfOne ==
  ASSUME NEW S, NEW b \in Seq(S), NEW s \in 1..Len(b)
  PROVE  SubSeq(b, s, s) = <<b[s]>>
<1> DEFINE l == SubSeq(b, s, s)
<1>1. l \in Seq(S) /\ Len(l) = 1 /\ \A k \in 1..1 : l[k] = b[s + k - 1]
  BY SubSeqProperties
<1>2. l[1] = b[s]
  BY <1>1
<1>3. b[s] \in S
  OBVIOUS
<1> HIDE DEF l
<1>4. l = <<b[s]>>
  BY <1>1, <1>2, <1>3
<1> QED BY <1>4 DEF l

(* A slice of two elements.                                                *)
LEMMA SliceOfTwo ==
  ASSUME NEW S, NEW b \in Seq(S), NEW s \in 1..(Len(b) - 1)
  PROVE  SubSeq(b, s, s + 1) = <<b[s], b[s + 1]>>
<1> DEFINE l == SubSeq(b, s, s + 1)
<1>1. l \in Seq(S) /\ Len(l) = 2 /\ \A k \in 1..2 : l[k] = b[s + k - 1]
  <2>1. s \in Int /\ s + 1 \in Int /\ s <= s + 1 /\ (s + 1) - s + 1 = 2
    OBVIOUS
  <2>2. \A i \in s..(s + 1) : b[i] \in S
    OBVIOUS
  <2>3. /\ l \in Seq(S) /\ Len(l) = IF s <= s + 1 THEN (s + 1) - s + 1 ELSE 0
        /\ \A k \in 1..((s + 1) - s + 1) : l[k] = b[s + k - 1]
    BY <2>1, <2>2, SubSeqProperties
  <2> HIDE DEF l
  <2> QED BY <2>1, <2>3
<1>2. l[1] = b[s] /\ l[2] = b[s + 1]
  BY <1>1
<1>3. b[s] \in S /\ b[s + 1] \in S
  OBVIOUS
<1> HIDE DEF l
<1>4. l = <<b[s], b[s + 1]>>
  BY <1>1, <1>2, <1>3
<1> QED BY <1>4 DEF l

(* A slice grows by the element after it.                                  *)
LEMMA SliceGrows ==
  ASSUME NEW S, NEW b \in Seq(S), NEW s \in 1..Len(b), NEW i \in (s + 1)..Len(b)
  PROVE  Append(SubSeq(b, s, i - 1), b[i]) = SubSeq(b, s, i)
<1> DEFINE l == SubSeq(b, s, i - 1)
           r == SubSeq(b, s, i)
<1>1. l \in Seq(S) /\ Len(l) = i - s /\ \A k \in 1..(i - s) : l[k] = b[s + k - 1]
  BY SubSeqProperties
<1>2. r \in Seq(S) /\ Len(r) = i - s + 1 /\ \A k \in 1..(i - s + 1) : r[k] = b[s + k - 1]
  BY SubSeqProperties
<1>3. b[i] \in S
  OBVIOUS
<1> HIDE DEF l, r
<1>4. Append(l, b[i]) = r
  BY <1>1, <1>2, <1>3
<1> QED BY <1>4 DEF l, r

-------------------------------------------------------------------------------
(* The automaton *)

(* The states of the automaton.                                            *)
States == [mode : {"junk", "junkFF", "frame", "frameFF"}, open : Seq(Bytes), done : Seq(Seq(Bytes))]

(* A byte outside of a frame that does not start one.                      *)
LEMMA ReadJunk ==
  ASSUME NEW a \in States, NEW byte \in Bytes,
         a.mode \in {"junk", "junkFF"}, ~ (a.mode = "junkFF" /\ byte = "D8")
  PROVE  Read(a, byte) = [mode |-> IF byte = "FF" THEN "junkFF" ELSE "junk",
                          open |-> a.open, done |-> a.done]
BY DEF Read, States

(* The byte that starts a frame.                                           *)
LEMMA ReadStart ==
  ASSUME NEW a \in States, a.mode = "junkFF"
  PROVE  Read(a, "D8") = [mode |-> "frame", open |-> <<"FF", "D8">>, done |-> a.done]
BY DEF Read, States

(* The byte that ends a frame.                                             *)
LEMMA ReadEnd ==
  ASSUME NEW a \in States, a.mode = "frameFF"
  PROVE  Read(a, "D9") = [mode |-> "junk", open |-> <<>>,
                          done |-> Append(a.done, Append(a.open, "D9"))]
BY DEF Read, States

(* A byte inside of a frame that does not end it.                          *)
LEMMA ReadFrame ==
  ASSUME NEW a \in States, NEW byte \in Bytes,
         a.mode \in {"frame", "frameFF"}, ~ (a.mode = "frameFF" /\ byte = "D9")
  PROVE  Read(a, byte) = [mode |-> IF byte = "FF" THEN "frameFF" ELSE "frame",
                          open |-> Append(a.open, byte), done |-> a.done]
BY DEF Read, States

(* Every byte leads to a state.                                            *)
LEMMA ReadType ==
  ASSUME NEW a \in States, NEW byte \in Bytes
  PROVE  Read(a, byte) \in States
<1> DEFINE b == Read(a, byte)
<1> SUFFICES \E m \in {"junk", "junkFF", "frame", "frameFF"},
                o \in Seq(Bytes), d \in Seq(Seq(Bytes)) :
               b = [mode |-> m, open |-> o, done |-> d]
  BY DEF States
<1>1. a.open \in Seq(Bytes) /\ a.done \in Seq(Seq(Bytes))
      /\ a.mode \in {"junk", "junkFF", "frame", "frameFF"}
  BY DEF States
<1>2. Append(a.open, byte) \in Seq(Bytes)
  BY <1>1
<1>3. CASE a.mode \in {"junk", "junkFF"} /\ ~ (a.mode = "junkFF" /\ byte = "D8")
  BY <1>1, <1>3, ReadJunk
<1>4. CASE a.mode = "junkFF" /\ byte = "D8"
  <2>1. <<"FF", "D8">> \in Seq(Bytes) BY DEF Bytes
  <2> QED BY <1>1, <1>4, <2>1, ReadStart
<1>5. CASE a.mode = "frameFF" /\ byte = "D9"
  <2>1. <<>> \in Seq(Bytes) OBVIOUS
  <2>2. Append(a.done, Append(a.open, "D9")) \in Seq(Seq(Bytes)) BY <1>1, <1>2, <1>5
  <2> QED BY <1>5, <2>1, <2>2, ReadEnd
<1>6. CASE a.mode \in {"frame", "frameFF"} /\ ~ (a.mode = "frameFF" /\ byte = "D9")
  BY <1>1, <1>2, <1>6, ReadFrame
<1> QED BY <1>1, <1>3, <1>4, <1>5, <1>6

(* One value of the recursive function of ReadUpTo.                        *)
ReadStep(read, stream, n) == IF n = 0 THEN Automaton ELSE Read(read[n - 1], stream[n])

(* There is such a function, for it can be continued by one more value.    *)
LEMMA ReadExists ==
  ASSUME NEW stream \in Seq(Bytes), NEW n \in Nat
  PROVE  \E f : f = [k \in 0..n |-> ReadStep(f, stream, k)]
<1> DEFINE Has(k) == \E f : f = [i \in 0..k |-> ReadStep(f, stream, i)]
           T == {k \in Nat : ~ Has(k)}
<1>1. Has(0)
  <2> DEFINE f == [i \in 0..0 |-> Automaton]
  <2>1. f = [i \in 0..0 |-> ReadStep(f, stream, i)]
    BY DEF ReadStep
  <2> QED BY <2>1
<1>2. ASSUME NEW k \in Nat, Has(k) PROVE Has(k + 1)
  <2>1. PICK f : f = [i \in 0..k |-> ReadStep(f, stream, i)]
    BY <1>2
  <2> DEFINE g == [i \in 0..(k + 1) |-> IF i = k + 1 THEN ReadStep(f, stream, k + 1) ELSE f[i]]
  <2>2. \A i \in 0..(k + 1) : g[i] = ReadStep(g, stream, i)
    <3> TAKE i \in 0..(k + 1)
    <3>1. i # 0 => i - 1 \in 0..k /\ g[i - 1] = f[i - 1]
      OBVIOUS
    <3>2. ReadStep(g, stream, i) = ReadStep(f, stream, i)
      BY <3>1 DEF ReadStep
    <3>3. CASE i = k + 1
      BY <3>2, <3>3
    <3>4. CASE i # k + 1
      <4>1. i \in 0..k
        BY <3>4
      <4>2. f[i] = ReadStep(f, stream, i)
        BY <2>1, <4>1
      <4> QED BY <3>2, <3>4, <4>2
    <3> QED BY <3>3, <3>4
  <2>3. g = [i \in 0..(k + 1) |-> ReadStep(g, stream, i)]
    BY <2>2
  <2> QED BY <2>3
<1> HIDE DEF Has
<1>3. T = {}
  <2> SUFFICES ASSUME T # {} PROVE FALSE OBVIOUS
  <2>1. PICK m \in T : \A k \in T : m <= k
    BY LeastNat
  <2>2. m # 0
    BY <1>1
  <2>3. m - 1 \in Nat /\ Has(m - 1)
    BY <2>1, <2>2
  <2>4. Has((m - 1) + 1)
    BY <1>2, <2>3
  <2> QED BY <2>1, <2>4
<1> QED BY <1>3 DEF Has

(* So ReadUpTo is what its definition says.                                *)
LEMMA ReadUpToDef ==
  ASSUME NEW stream \in Seq(Bytes)
  PROVE  /\ DOMAIN ReadUpTo(stream) = 0..Len(stream)
         /\ ReadUpTo(stream)[0] = Automaton
         /\ \A n \in 1..Len(stream) :
              ReadUpTo(stream)[n] = Read(ReadUpTo(stream)[n - 1], stream[n])
<1> DEFINE F(f) == f = [k \in 0..Len(stream) |-> ReadStep(f, stream, k)]
<1>1. Len(stream) \in Nat OBVIOUS
<1>2. \E f : F(f)
  BY <1>1, ReadExists
<1>3. F(CHOOSE f : F(f))
  BY <1>2
<1>4. ReadUpTo(stream) = CHOOSE f : F(f)
  BY DEF ReadUpTo, ReadStep
<1>5. ReadUpTo(stream) = [k \in 0..Len(stream) |-> ReadStep(ReadUpTo(stream), stream, k)]
  BY <1>3, <1>4
<1> QED
  BY <1>1, <1>5 DEF ReadStep

(* q is a run of the automaton over b, from whatever state.                *)
Reads(q, b) ==
  /\ \A i \in 0..Len(b) : q[i] \in States
  /\ \A i \in 1..Len(b) : q[i] = Read(q[i - 1], b[i])

(* ReadUpTo is such a run.                                                 *)
LEMMA ReadUpToReads ==
  ASSUME NEW stream \in Seq(Bytes)
  PROVE  Reads(ReadUpTo(stream), stream)
<1> DEFINE q == ReadUpTo(stream)
           T == {i \in Nat : i <= Len(stream) /\ q[i] \notin States}
<1>1. q[0] = Automaton /\ \A i \in 1..Len(stream) : q[i] = Read(q[i - 1], stream[i])
  BY ReadUpToDef
<1>2. Automaton \in States
  BY DEF Automaton, States
<1> HIDE DEF q
<1>3. T = {}
  <2> SUFFICES ASSUME T # {} PROVE FALSE OBVIOUS
  <2>1. PICK m \in T : \A k \in T : m <= k
    BY LeastNat
  <2>2. m \in 1..Len(stream)
    BY <1>1, <1>2
  <2>3. q[m - 1] \in States
    BY <2>1, <2>2
  <2>4. stream[m] \in Bytes
    BY <2>2
  <2> QED BY <1>1, <2>2, <2>3, <2>4, ReadType
<1>4. Len(stream) \in Nat OBVIOUS
<1> QED BY <1>1, <1>3, <1>4 DEF Reads, q

(* What is read later does not change what was read.                       *)
LEMMA ReadUpToPrefix ==
  ASSUME NEW s \in Seq(Bytes), NEW t \in Seq(Bytes)
  PROVE  \A i \in 0..Len(s) : ReadUpTo(s \o t)[i] = ReadUpTo(s)[i]
<1> DEFINE f == ReadUpTo(s)
           g == ReadUpTo(s \o t)
           T == {i \in Nat : i <= Len(s) /\ g[i] # f[i]}
<1>1. f[0] = Automaton /\ \A i \in 1..Len(s) : f[i] = Read(f[i - 1], s[i])
  BY ReadUpToDef
<1>2. /\ s \o t \in Seq(Bytes)
      /\ Len(s \o t) = Len(s) + Len(t)
      /\ \A i \in 1..Len(s) : (s \o t)[i] = s[i]
  OBVIOUS
<1>3. g[0] = Automaton /\ \A i \in 1..Len(s \o t) : g[i] = Read(g[i - 1], (s \o t)[i])
  BY <1>2, ReadUpToDef
<1>4. \A i \in 1..Len(s) : g[i] = Read(g[i - 1], s[i])
  BY <1>2, <1>3
<1> HIDE DEF f, g
<1>5. T = {}
  <2> SUFFICES ASSUME T # {} PROVE FALSE OBVIOUS
  <2>1. PICK m \in T : \A k \in T : m <= k
    BY LeastNat
  <2>2. m \in 1..Len(s)
    BY <1>1, <1>3
  <2>3. g[m - 1] = f[m - 1]
    BY <2>1, <2>2
  <2> QED BY <1>1, <1>4, <2>2, <2>3
<1>6. Len(s) \in Nat OBVIOUS
<1> QED BY <1>5, <1>6 DEF f, g

(* Where no frame starts, the automaton stays outside of one, and knows    *)
(* whether the byte before was the first half of a marker.                 *)
LEMMA JunkRun ==
  ASSUME NEW b \in Seq(Bytes), NEW q, Reads(q, b),
         NEW p \in 1..(Len(b) + 1), NEW hi \in (p - 1)..Len(b),
         q[p - 1].mode \in {"junk", "junkFF"},
         q[p - 1].mode = "junkFF" => p <= Len(b) /\ b[p] = "FF",
         \A i \in p..(hi - 1) : ~ (b[i] = "FF" /\ b[i + 1] = "D8")
  PROVE  /\ q[hi].mode \in {"junk", "junkFF"}
         /\ q[hi].open = q[p - 1].open /\ q[hi].done = q[p - 1].done
         /\ hi >= p => (q[hi].mode = "junkFF" <=> b[hi] = "FF")
<1> DEFINE P(i) == /\ q[i].mode \in {"junk", "junkFF"}
                   /\ q[i].open = q[p - 1].open /\ q[i].done = q[p - 1].done
                   /\ i >= p => (q[i].mode = "junkFF" <=> b[i] = "FF")
           T == {i \in Nat : p - 1 <= i /\ i <= hi /\ ~ P(i)}
<1>1. P(p - 1)
  OBVIOUS
<1>2. ASSUME NEW i \in p..hi, P(i - 1) PROVE P(i)
  <2>1. i \in 1..Len(b) /\ i - 1 \in 0..Len(b)
    OBVIOUS
  <2>2. q[i - 1] \in States /\ b[i] \in Bytes /\ q[i] = Read(q[i - 1], b[i])
    BY <2>1 DEF Reads
  <2>3. ~ (q[i - 1].mode = "junkFF" /\ b[i] = "D8")
    <3>1. CASE i = p
      BY <3>1
    <3>2. CASE i > p
      <4>1. i - 1 \in p..(hi - 1) /\ (i - 1) + 1 = i
        BY <3>2
      <4>2. ~ (b[i - 1] = "FF" /\ b[i] = "D8")
        BY <4>1
      <4> QED BY <1>2, <4>1, <4>2
    <3> QED BY <3>1, <3>2
  <2>4. q[i] = [mode |-> IF b[i] = "FF" THEN "junkFF" ELSE "junk",
                open |-> q[i - 1].open, done |-> q[i - 1].done]
    BY <1>2, <2>2, <2>3, ReadJunk
  <2> QED BY <1>2, <2>4
<1> HIDE DEF P
<1>3. T = {}
  <2> SUFFICES ASSUME T # {} PROVE FALSE OBVIOUS
  <2>1. PICK m \in T : \A k \in T : m <= k
    BY LeastNat
  <2>2. m \in p..hi /\ m - 1 \in Nat
    BY <1>1
  <2>3. P(m - 1)
    BY <2>1, <2>2
  <2> QED BY <1>2, <2>2, <2>3
<1>4. P(hi)
  BY <1>3
<1> QED BY <1>4 DEF P

(* Where one has started and none ends, the frame open is what was read    *)
(* since; its first two bytes are no half of its end marker.               *)
LEMMA FrameRun ==
  ASSUME NEW b \in Seq(Bytes), NEW q, Reads(q, b),
         NEW s \in 1..(Len(b) - 1), NEW hi \in (s + 1)..Len(b),
         q[s - 1].mode \in {"junk", "junkFF"},
         b[s] = "FF", b[s + 1] = "D8",
         \A i \in (s + 2)..(hi - 1) : ~ (b[i] = "FF" /\ b[i + 1] = "D9")
  PROVE  /\ q[hi].mode \in {"frame", "frameFF"}
         /\ q[hi].open = SubSeq(b, s, hi) /\ q[hi].done = q[s - 1].done
         /\ q[hi].mode = "frameFF" <=> hi >= s + 2 /\ b[hi] = "FF"
<1> DEFINE P(i) == /\ q[i].mode \in {"frame", "frameFF"}
                   /\ q[i].open = SubSeq(b, s, i) /\ q[i].done = q[s - 1].done
                   /\ q[i].mode = "frameFF" <=> i >= s + 2 /\ b[i] = "FF"
           T == {i \in Nat : s + 1 <= i /\ i <= hi /\ ~ P(i)}
<1>1. P(s + 1)
  <2>1. /\ s \in 1..Len(b) /\ s + 1 \in 1..Len(b) /\ (s + 1) - 1 = s
        /\ s - 1 \in 0..Len(b) /\ s \in 0..Len(b)
    OBVIOUS
  <2>2. /\ q[s - 1] \in States /\ q[s] \in States /\ b[s] \in Bytes
        /\ q[s] = Read(q[s - 1], b[s])
        /\ q[s + 1] = Read(q[s], b[s + 1])
    BY <2>1 DEF Reads
  <2>3. q[s] = [mode |-> "junkFF", open |-> q[s - 1].open, done |-> q[s - 1].done]
    BY <2>2, ReadJunk
  <2>4. q[s + 1] = [mode |-> "frame", open |-> <<"FF", "D8">>, done |-> q[s].done]
    BY <2>2, <2>3, ReadStart
  <2>5. SubSeq(b, s, s + 1) = <<"FF", "D8">>
    BY SliceOfTwo
  <2>6. ~ (s + 1 >= s + 2)
    OBVIOUS
  <2>7. /\ q[s + 1].mode = "frame" /\ q[s + 1].open = <<"FF", "D8">>
        /\ q[s + 1].done = q[s - 1].done
    BY <2>3, <2>4
  <2> QED BY <2>5, <2>6, <2>7
<1>2. ASSUME NEW i \in (s + 2)..hi, P(i - 1) PROVE P(i)
  <2>1. i \in 1..Len(b) /\ i - 1 \in 0..Len(b)
    OBVIOUS
  <2>2. q[i - 1] \in States /\ b[i] \in Bytes /\ q[i] = Read(q[i - 1], b[i])
    BY <2>1 DEF Reads
  <2>3. ~ (q[i - 1].mode = "frameFF" /\ b[i] = "D9")
    <3>1. CASE i = s + 2
      BY <1>2, <3>1
    <3>2. CASE i > s + 2
      <4>1. i - 1 \in (s + 2)..(hi - 1) /\ (i - 1) + 1 = i
        BY <3>2
      <4>2. ~ (b[i - 1] = "FF" /\ b[i] = "D9")
        BY <4>1
      <4> QED BY <1>2, <4>1, <4>2
    <3> QED BY <3>1, <3>2
  <2>4. q[i] = [mode |-> IF b[i] = "FF" THEN "frameFF" ELSE "frame",
                open |-> Append(q[i - 1].open, b[i]), done |-> q[i - 1].done]
    BY <1>2, <2>2, <2>3, ReadFrame
  <2>5. Append(SubSeq(b, s, i - 1), b[i]) = SubSeq(b, s, i)
    <3>1. s \in 1..Len(b) /\ i \in (s + 1)..Len(b)
      OBVIOUS
    <3> QED BY <3>1, SliceGrows
  <2>6. i >= s + 2
    OBVIOUS
  <2>7. /\ q[i].mode = IF b[i] = "FF" THEN "frameFF" ELSE "frame"
        /\ q[i].open = Append(q[i - 1].open, b[i]) /\ q[i].done = q[i - 1].done
    BY <2>4
  <2> QED BY <1>2, <2>5, <2>6, <2>7
<1> HIDE DEF P
<1>3. T = {}
  <2> SUFFICES ASSUME T # {} PROVE FALSE OBVIOUS
  <2>1. PICK m \in T : \A k \in T : m <= k
    BY LeastNat
  <2>2. m \in (s + 2)..hi /\ m - 1 \in Nat
    BY <1>1
  <2>3. P(m - 1)
    BY <2>1, <2>2
  <2> QED BY <1>2, <2>2, <2>3
<1>4. P(hi)
  BY <1>3
<1> QED BY <1>4 DEF P

-------------------------------------------------------------------------------
(* The rounds of Append *)

(* The least element of a set of natural numbers.                          *)
LEMMA MinIsLeast ==
  ASSUME NEW T, T \subseteq Nat, T # {}
  PROVE  Min(T) \in T /\ \A k \in T : Min(T) <= k
BY LeastNat DEF Min

(* The first marker found is one, and there is none before it.             *)
LEMMA MarksAre ==
  ASSUME NEW b \in Seq(Bytes), NEW from \in Nat \ {0}, NEW mark
  PROVE  /\ Marks(b, from, mark) \subseteq Nat
         /\ Marks(b, from, mark) # {} =>
              /\ Min(Marks(b, from, mark)) \in from..(Len(b) - 1)
              /\ b[Min(Marks(b, from, mark))] = "FF"
              /\ b[Min(Marks(b, from, mark)) + 1] = mark
              /\ \A i \in from..(Min(Marks(b, from, mark)) - 1) :
                   ~ (b[i] = "FF" /\ b[i + 1] = mark)
         /\ Marks(b, from, mark) = {} =>
              \A i \in from..(Len(b) - 1) : ~ (b[i] = "FF" /\ b[i + 1] = mark)
<1> DEFINE M == Marks(b, from, mark)
<1>1. M = {i \in from..(Len(b) - 1) : b[i] = "FF" /\ b[i + 1] = mark}
  BY DEF Marks
<1> HIDE DEF M
<1>2. M \subseteq Nat
  BY <1>1
<1>3. ASSUME M # {}
      PROVE  /\ Min(M) \in from..(Len(b) - 1) /\ b[Min(M)] = "FF" /\ b[Min(M) + 1] = mark
             /\ \A i \in from..(Min(M) - 1) : ~ (b[i] = "FF" /\ b[i + 1] = mark)
  <2>1. Min(M) \in M /\ \A k \in M : Min(M) <= k
    BY <1>2, <1>3, MinIsLeast
  <2>2. PICK m : m = Min(M)
    OBVIOUS
  <2>3. m \in from..(Len(b) - 1) /\ b[m] = "FF" /\ b[m + 1] = mark
    BY <1>1, <2>1, <2>2
  <2>4. ASSUME NEW i \in from..(m - 1), b[i] = "FF", b[i + 1] = mark PROVE FALSE
    <3>1. i \in M
      BY <1>1, <2>3, <2>4
    <3> QED BY <2>1, <2>2, <2>3, <3>1
  <2> QED BY <2>2, <2>3, <2>4
<1>4. M = {} => \A i \in from..(Len(b) - 1) : ~ (b[i] = "FF" /\ b[i + 1] = mark)
  BY <1>1
<1> QED BY <1>2, <1>3, <1>4 DEF M

(* No marker found means that there is none.                               *)
LEMMA NoMarks ==
  ASSUME NEW b \in Seq(Bytes), NEW from \in Nat \ {0}, NEW mark, Marks(b, from, mark) = {}
  PROVE  \A i \in from..(Len(b) - 1) : ~ (b[i] = "FF" /\ b[i + 1] = mark)
BY MarksAre

(* A round goes on behind the place where it began.                        *)
LEMMA RoundLooksAhead ==
  ASSUME NEW b \in Seq(Bytes), NEW from \in 1..(Len(b) + 1), NEW f, NEW g,
         \A i \in (from + 1)..(Len(b) + 1) : f[i] = g[i]
  PROVE  Round(b, from, f) = Round(b, from, g)
<1> DEFINE starts == Marks(b, from, "D8")
           ends == Marks(b, Min(starts) + 2, "D9")
<1>1. CASE starts = {}
  BY <1>1 DEF Round
<1>2. CASE starts # {} /\ ends = {}
  BY <1>2 DEF Round
<1>3. CASE starts # {} /\ ends # {}
  <2>1. Min(starts) \in from..(Len(b) - 1)
    BY <1>3, MarksAre
  <2>2. Min(ends) \in (Min(starts) + 2)..(Len(b) - 1)
    BY <1>3, <2>1, MarksAre
  <2>3. (Min(ends) + 1) + 1 \in (from + 1)..(Len(b) + 1)
    BY <2>1, <2>2
  <2>4. f[(Min(ends) + 1) + 1] = g[(Min(ends) + 1) + 1]
    BY <2>3
  <2> QED BY <2>4 DEF Round
<1> QED BY <1>1, <1>2, <1>3

(* So the rounds are what their definition says.                           *)
LEMMA RoundsDef ==
  ASSUME NEW b \in Seq(Bytes)
  PROVE  \A from \in 1..(Len(b) + 1) : Rounds(b)[from] = Round(b, from, Rounds(b))
<1> DEFINE L == Len(b)
           Has(n) == \E f : f = [i \in (L + 1 - n)..(L + 1) |-> Round(b, i, f)]
           T == {n \in Nat : n <= L /\ ~ Has(n)}
<1>1. L \in Nat
  OBVIOUS
<1>2. Has(0)
  <2> DEFINE f == [i \in (L + 1 - 0)..(L + 1) |-> Round(b, i, <<>>)]
  <2>1. \A i \in (L + 1 - 0)..(L + 1) : Round(b, i, <<>>) = Round(b, i, f)
    <3> TAKE i \in (L + 1 - 0)..(L + 1)
    <3>1. i \in 1..(Len(b) + 1) /\ (i + 1)..(Len(b) + 1) = {}
      BY <1>1
    <3> HIDE DEF f
    <3> QED BY <3>1, RoundLooksAhead
  <2>2. f = [i \in (L + 1 - 0)..(L + 1) |-> Round(b, i, f)]
    BY <2>1
  <2> QED BY <2>2
<1>3. ASSUME NEW n \in Nat, n + 1 <= L, Has(n) PROVE Has(n + 1)
  <2>1. PICK f : f = [i \in (L + 1 - n)..(L + 1) |-> Round(b, i, f)]
    BY <1>3
  <2> DEFINE g == [i \in (L + 1 - (n + 1))..(L + 1) |->
                     IF i = L - n THEN Round(b, L - n, f) ELSE f[i]]
  <2>2. \A i \in (L + 1 - (n + 1))..(L + 1) : g[i] = Round(b, i, g)
    <3> TAKE i \in (L + 1 - (n + 1))..(L + 1)
    <3>1. i \in 1..(Len(b) + 1) /\ i >= L - n
      BY <1>1, <1>3
    <3>2. \A k \in (i + 1)..(Len(b) + 1) : g[k] = f[k]
      BY <1>1, <1>3, <3>1
    <3>3. Round(b, i, g) = Round(b, i, f)
      <4> HIDE DEF g
      <4> QED BY <3>1, <3>2, RoundLooksAhead
    <3>4. CASE i = L - n
      BY <3>3, <3>4
    <3>5. CASE i # L - n
      <4>1. i \in (L + 1 - n)..(L + 1)
        BY <1>1, <3>1, <3>5
      <4>2. f[i] = Round(b, i, f)
        BY <2>1, <4>1
      <4> QED BY <3>3, <3>5, <4>2
    <3> QED BY <3>4, <3>5
  <2>3. g = [i \in (L + 1 - (n + 1))..(L + 1) |-> Round(b, i, g)]
    BY <2>2
  <2> QED BY <2>3
<1> HIDE DEF Has
<1>4. T = {}
  <2> SUFFICES ASSUME T # {} PROVE FALSE OBVIOUS
  <2>1. PICK m \in T : \A k \in T : m <= k
    BY LeastNat
  <2>2. m # 0 /\ m \in Nat /\ m <= L
    BY <1>2
  <2>3. m - 1 \in Nat /\ Has(m - 1) /\ (m - 1) + 1 <= L
    BY <1>1, <2>1, <2>2
  <2>4. Has((m - 1) + 1)
    BY <1>3, <2>3
  <2> QED BY <2>1, <2>2, <2>4
<1>5. Has(L)
  BY <1>1, <1>4
<1> DEFINE F(f) == f = [i \in 1..(Len(b) + 1) |-> Round(b, i, f)]
<1>6. \E f : F(f)
  <2>1. L + 1 - L = 1
    BY <1>1
  <2> QED BY <1>5, <2>1 DEF Has
<1>7. F(CHOOSE f : F(f))
  BY <1>6
<1>8. Rounds(b) = CHOOSE f : F(f)
  BY DEF Rounds
<1>9. Rounds(b) = [i \in 1..(Len(b) + 1) |-> Round(b, i, Rounds(b))]
  BY <1>7, <1>8
<1> QED BY <1>9

(* Before place p of b the automaton is outside of a frame, and if it has  *)
(* seen half a marker b has that half too: both will see the same starts.  *)
Aligned(q, b, p) ==
  /\ q[p - 1].mode \in {"junk", "junkFF"} /\ q[p - 1].open = <<>>
  /\ q[p - 1].mode = "junkFF" => p <= Len(b) /\ b[p] = "FF"

(* What the rounds from p on make of b, r, is what the automaton makes of  *)
(* it: the same frames, too large a frame open in the end or not, and if   *)
(* not a buffer from which both go on.                                     *)
Cut(q, b, p, r) ==
  /\ r.buffer \in Seq(Bytes) /\ r.frames \in Seq(Seq(Bytes)) /\ r.failed \in BOOLEAN
  /\ \A i \in DOMAIN r.frames : Len(r.frames[i]) <= Len(b)
  /\ q[Len(b)].done = q[p - 1].done \o r.frames
  /\ r.failed <=> Len(q[Len(b)].open) > MaxFrame
  /\ r.failed => r.buffer = <<>>
  /\ ~ r.failed =>
       /\ Len(r.buffer) <= MaxFrame
       /\ \E j \in 1..(Len(b) + 1) :
            r.buffer = SubSeq(b, j, Len(b)) /\ Aligned(q, b, j) /\ q[j - 1].done = q[Len(b)].done

(* When no frame ends, Cut asks for this much.                             *)
LEMMA NothingCut ==
  ASSUME NEW b \in Seq(Bytes), NEW q, Reads(q, b), NEW p \in 1..(Len(b) + 1), NEW r,
         r.frames = <<>>, r.buffer \in Seq(Bytes), r.failed \in BOOLEAN,
         q[Len(b)].done = q[p - 1].done,
         r.failed <=> Len(q[Len(b)].open) > MaxFrame,
         r.failed => r.buffer = <<>>,
         ~ r.failed =>
           /\ Len(r.buffer) <= MaxFrame
           /\ \E j \in 1..(Len(b) + 1) :
                /\ r.buffer = SubSeq(b, j, Len(b)) /\ Aligned(q, b, j)
                /\ q[j - 1].done = q[Len(b)].done
  PROVE  Cut(q, b, p, r)
<1>1. q[p - 1].done \in Seq(Seq(Bytes))
  <2>1. p - 1 \in 0..Len(b)
    OBVIOUS
  <2> QED BY <2>1 DEF Reads, States
<1>2. q[Len(b)].done = q[p - 1].done \o r.frames
  BY <1>1
<1>3. r.frames \in Seq(Seq(Bytes)) /\ DOMAIN r.frames = {}
  OBVIOUS
<1> QED BY <1>2, <1>3 DEF Cut

(* No frame starts in b from p on.                                         *)
LEMMA NoStart ==
  ASSUME NEW b \in Seq(Bytes), NEW q, Reads(q, b), NEW p \in 1..(Len(b) + 1), Aligned(q, b, p),
         Marks(b, p, "D8") = {}
  PROVE  Cut(q, b, p, [buffer |-> Leftover(SubSeq(b, p, Len(b))), frames |-> <<>>,
                       failed |-> FALSE])
<1> DEFINE L == Len(b)
           r == [buffer |-> Leftover(SubSeq(b, p, Len(b))), frames |-> <<>>, failed |-> FALSE]
<1>1. L \in Nat /\ L \in (p - 1)..Len(b) /\ p \in Nat \ {0}
  OBVIOUS
<1>2. \A i \in p..(L - 1) : ~ (b[i] = "FF" /\ b[i + 1] = "D8")
  BY <1>1, MarksAre
<1>3. /\ q[L].mode \in {"junk", "junkFF"}
      /\ q[L].open = q[p - 1].open /\ q[L].done = q[p - 1].done
      /\ L >= p => (q[L].mode = "junkFF" <=> b[L] = "FF")
  BY <1>1, <1>2, JunkRun DEF Aligned
<1>4. q[L].open = <<>>
  BY <1>3 DEF Aligned
<1>7. MaxFrame \in Nat /\ MaxFrame >= 1 /\ ~ (Len(<<>>) > MaxFrame)
  BY ParserAssumption
<1>6. r.frames = <<>> /\ r.failed = FALSE /\ r.buffer = Leftover(SubSeq(b, p, L))
  OBVIOUS
<1> HIDE DEF r
<1>8. CASE L >= p /\ b[L] = "FF"
  <2>1. r.buffer = <<"FF">>
    <3>1. SubSeq(b, p, L) # <<>> /\ Last(SubSeq(b, p, L)) = b[L]
      <4>1. PICK e : e = L
        OBVIOUS
      <4>2. p \in 1..Len(b) /\ e \in p..Len(b)
        BY <1>1, <1>8, <4>1
      <4>3. SubSeq(b, p, e) # <<>> /\ Last(SubSeq(b, p, e)) = b[e]
        BY <4>2, SliceType
      <4> QED BY <4>1, <4>3
    <3> QED BY <1>6, <1>8, <3>1 DEF Leftover
  <2>2. SubSeq(b, L, L) = <<"FF">>
    <3>1. L \in 1..Len(b)
      BY <1>1, <1>8
    <3> QED BY <1>8, <3>1, SliceOfOne
  <2>3. Aligned(q, b, L) /\ q[L - 1].done = q[L].done
    <3>1. L - 1 \in (p - 1)..Len(b)
      BY <1>1, <1>8
    <3>2. \A i \in p..((L - 1) - 1) : ~ (b[i] = "FF" /\ b[i + 1] = "D8")
      BY <1>1, <1>2
    <3>3. /\ q[L - 1].mode \in {"junk", "junkFF"}
          /\ q[L - 1].open = q[p - 1].open /\ q[L - 1].done = q[p - 1].done
      BY <3>1, <3>2, JunkRun DEF Aligned
    <3> QED BY <1>1, <1>3, <1>4, <1>8, <3>3 DEF Aligned
  <2>4. L \in 1..(Len(b) + 1)
    BY <1>1, <1>8
  <2>5. <<"FF">> \in Seq(Bytes) /\ Len(<<"FF">>) <= MaxFrame
    BY <1>7 DEF Bytes
  <2> QED BY <1>3, <1>4, <1>6, <1>7, <2>1, <2>2, <2>3, <2>4, <2>5, NothingCut
<1>9. CASE ~ (L >= p /\ b[L] = "FF")
  <2>1. r.buffer = <<>>
    <3>1. CASE L < p
      <4>1. SubSeq(b, p, L) = <<>>
        BY <1>1, <3>1, SubSeqEmpty
      <4> QED BY <1>6, <4>1 DEF Leftover
    <3>2. CASE L >= p
      <4>1. p \in 1..Len(b) /\ L \in p..Len(b)
        BY <1>1, <3>2
      <4>2. Last(SubSeq(b, p, L)) = b[L]
        BY <4>1, SliceType
      <4> QED BY <1>6, <1>9, <3>2, <4>2 DEF Leftover
    <3> QED BY <1>1, <3>1, <3>2
  <2>2. SubSeq(b, L + 1, L) = <<>>
    BY <1>1, SubSeqEmpty
  <2>3. q[L].mode # "junkFF"
    <3>1. CASE L < p
      <4>1. L = p - 1
        BY <1>1, <3>1
      <4> QED BY <1>1, <3>1, <4>1 DEF Aligned
    <3> QED BY <1>1, <1>3, <1>9, <3>1
  <2>4. (L + 1) - 1 = L /\ L + 1 \in 1..(Len(b) + 1)
    BY <1>1
  <2>5. Aligned(q, b, L + 1)
    BY <1>3, <1>4, <2>3, <2>4 DEF Aligned
  <2>6. <<>> \in Seq(Bytes) /\ Len(<<>>) <= MaxFrame
    BY <1>7
  <2> QED BY <1>3, <1>4, <1>6, <1>7, <2>1, <2>2, <2>4, <2>5, <2>6, NothingCut
<1> QED BY <1>8, <1>9

(* The first frame that starts is found where the automaton starts it.     *)
LEMMA OpenFrame ==
  ASSUME NEW b \in Seq(Bytes), NEW q, Reads(q, b), NEW p \in 1..(Len(b) + 1), Aligned(q, b, p),
         NEW s \in p..(Len(b) - 1), b[s] = "FF", b[s + 1] = "D8",
         \A i \in p..(s - 1) : ~ (b[i] = "FF" /\ b[i + 1] = "D8")
  PROVE  Aligned(q, b, s) /\ q[s - 1].done = q[p - 1].done
<1>1. s - 1 \in (p - 1)..Len(b) /\ \A i \in p..((s - 1) - 1) : ~ (b[i] = "FF" /\ b[i + 1] = "D8")
  OBVIOUS
<1>2. /\ q[s - 1].mode \in {"junk", "junkFF"}
      /\ q[s - 1].open = q[p - 1].open /\ q[s - 1].done = q[p - 1].done
  <2>1. /\ q[p - 1].mode \in {"junk", "junkFF"}
        /\ q[p - 1].mode = "junkFF" => p <= Len(b) /\ b[p] = "FF"
    BY DEF Aligned
  <2>2. PICK hi : hi = s - 1
    OBVIOUS
  <2>3. hi \in (p - 1)..Len(b) /\ \A i \in p..(hi - 1) : ~ (b[i] = "FF" /\ b[i + 1] = "D8")
    BY <1>1, <2>2
  <2>4. /\ q[hi].mode \in {"junk", "junkFF"}
        /\ q[hi].open = q[p - 1].open /\ q[hi].done = q[p - 1].done
    BY <2>1, <2>3, JunkRun
  <2> QED BY <2>2, <2>4
<1>3. s <= Len(b)
  OBVIOUS
<1> QED BY <1>2, <1>3 DEF Aligned

(* The frame that starts at s does not end in b.                           *)
LEMMA NoEnd ==
  ASSUME NEW b \in Seq(Bytes), NEW q, Reads(q, b), NEW p \in 1..(Len(b) + 1),
         NEW s \in 1..(Len(b) - 1), Aligned(q, b, s), b[s] = "FF", b[s + 1] = "D8",
         q[s - 1].done = q[p - 1].done, 
         \A i \in (s + 2)..(Len(b) - 1) : ~ (b[i] = "FF" /\ b[i + 1] = "D9"),
         NEW r, r.frames = <<>>,
         \/ r.failed = TRUE /\ r.buffer = <<>> /\ Len(SubSeq(b, s, Len(b))) > MaxFrame
         \/ r.failed = FALSE /\ r.buffer = SubSeq(b, s, Len(b))
            /\ ~ (Len(SubSeq(b, s, Len(b))) > MaxFrame)
  PROVE  Cut(q, b, p, r)
<1> DEFINE L == Len(b)
<1>1. /\ L \in Nat /\ L \in (s + 1)..Len(b) /\ s \in 1..(Len(b) + 1)
      /\ s \in 1..Len(b) /\ L \in s..Len(b) /\ s + 2 \in Nat \ {0}
  OBVIOUS
<1>2. \A i \in (s + 2)..(L - 1) : ~ (b[i] = "FF" /\ b[i + 1] = "D9")
  OBVIOUS
<1>3. q[L].open = SubSeq(b, s, L) /\ q[L].done = q[s - 1].done
  BY <1>1, <1>2, FrameRun DEF Aligned
<1>6. SubSeq(b, s, L) \in Seq(Bytes) /\ Len(SubSeq(b, s, L)) \in Nat
  BY <1>1, SliceType
<1>7. MaxFrame \in Nat
  BY ParserAssumption
<1>8. \A n \in Nat : ~ (n > MaxFrame) => n <= MaxFrame
  BY <1>7
<1>9. CASE r.failed = TRUE
  <2>1. <<>> \in Seq(Bytes)
    OBVIOUS
  <2> QED BY <1>3, <1>9, <2>1, NothingCut
<1>10. CASE r.failed = FALSE
  BY <1>1, <1>3, <1>6, <1>8, <1>10, NothingCut
<1> QED BY <1>9, <1>10

(* The frame that starts at s ends at e + 1.                               *)
LEMMA FrameEnds ==
  ASSUME NEW b \in Seq(Bytes), NEW q, Reads(q, b), NEW p \in 1..(Len(b) + 1),
         NEW s \in 1..(Len(b) - 1), Aligned(q, b, s), b[s] = "FF", b[s + 1] = "D8",
         q[s - 1].done = q[p - 1].done,
         NEW e \in (s + 2)..(Len(b) - 1), b[e] = "FF", b[e + 1] = "D9",
         \A i \in (s + 2)..(e - 1) : ~ (b[i] = "FF" /\ b[i + 1] = "D9")
  PROVE  /\ Aligned(q, b, e + 2)
         /\ q[e + 1].done = q[p - 1].done \o <<SubSeq(b, s, e + 1)>>
<1>1. e \in (s + 1)..Len(b) /\ e >= s + 2 /\ s \in 1..Len(b) /\ e + 1 \in s..Len(b)
  OBVIOUS
<1>2. /\ q[e].mode \in {"frame", "frameFF"}
      /\ q[e].open = SubSeq(b, s, e) /\ q[e].done = q[s - 1].done
      /\ q[e].mode = "frameFF" <=> e >= s + 2 /\ b[e] = "FF"
  BY <1>1, FrameRun DEF Aligned
<1>3. q[e].mode = "frameFF"
  BY <1>1, <1>2
<1>4. q[e] \in States /\ q[e + 1] = Read(q[e], b[e + 1])
  <2>1. e + 1 \in 1..Len(b) /\ (e + 1) - 1 = e /\ e \in 0..Len(b)
    OBVIOUS
  <2> QED BY <2>1 DEF Reads
<1>5. q[e + 1] = [mode |-> "junk", open |-> <<>>,
                  done |-> Append(q[e].done, Append(q[e].open, "D9"))]
  BY <1>3, <1>4, ReadEnd
<1>6. Append(SubSeq(b, s, e), b[e + 1]) = SubSeq(b, s, e + 1)
  <2>1. e + 1 \in (s + 1)..Len(b) /\ (e + 1) - 1 = e /\ s \in 1..Len(b)
    OBVIOUS
  <2> QED BY <2>1, SliceGrows
<1>7. q[p - 1].done \in Seq(Seq(Bytes)) /\ SubSeq(b, s, e + 1) \in Seq(Bytes)
  <2>1. p - 1 \in 0..Len(b)
    OBVIOUS
  <2> QED BY <1>1, <2>1, SliceType DEF Reads, States
<1>8. (e + 2) - 1 = e + 1
  OBVIOUS
<1>9. Append(q[p - 1].done, SubSeq(b, s, e + 1)) = q[p - 1].done \o <<SubSeq(b, s, e + 1)>>
  BY <1>7, AppendIsConcat
<1>10. q[e + 1].mode = "junk" /\ q[e + 1].open = <<>>
       /\ q[e + 1].done = Append(q[p - 1].done, SubSeq(b, s, e + 1))
  <2> DEFINE d == Append(q[e].done, Append(q[e].open, "D9"))
  <2>3. q[e + 1] = [mode |-> "junk", open |-> <<>>, done |-> d]
    BY <1>5
  <2> HIDE DEF d
  <2>4. q[e + 1].mode = "junk" /\ q[e + 1].open = <<>> /\ q[e + 1].done = d
    BY <2>3
  <2>1. q[e + 1].mode = "junk" /\ q[e + 1].open = <<>>
        /\ q[e + 1].done = Append(q[e].done, Append(q[e].open, "D9"))
    BY <2>4 DEF d
  <2>2. q[e].done = q[p - 1].done /\ Append(q[e].open, "D9") = SubSeq(b, s, e + 1)
    BY <1>2, <1>6
  <2> QED BY <2>1, <2>2
<1>11. Aligned(q, b, e + 2)
  BY <1>8, <1>10 DEF Aligned
<1> QED BY <1>9, <1>10, <1>11

(* A frame in front of those after it.                                     *)
LEMMA ConcatConcat ==
  ASSUME NEW S, NEW s \in Seq(S), NEW x \in S, NEW t \in Seq(S)
  PROVE  (s \o <<x>>) \o t = s \o (<<x>> \o t)
OBVIOUS

(* The frames with one before them are one and the others.                 *)
LEMMA OneMore ==
  ASSUME NEW S, NEW x \in S, NEW t \in Seq(S)
  PROVE  /\ <<x>> \o t \in Seq(S)
         /\ \A i \in DOMAIN (<<x>> \o t) :
              (<<x>> \o t)[i] = x \/ \E k \in DOMAIN t : (<<x>> \o t)[i] = t[k]
OBVIOUS

(* A frame delivered, and what the rounds after it cut, is a cut.          *)
LEMMA CutOneMore ==
  ASSUME NEW b \in Seq(Bytes), NEW q, NEW p, NEW n, NEW r, NEW after, NEW frame,
         Cut(q, b, n, after),
         r.buffer = after.buffer, r.frames = <<frame>> \o after.frames, r.failed = after.failed,
         frame \in Seq(Bytes), Len(frame) <= Len(b),
         q[n - 1].done = q[p - 1].done \o <<frame>>, q[p - 1].done \in Seq(Seq(Bytes))
  PROVE  Cut(q, b, p, r)
<1>1. /\ after.frames \in Seq(Seq(Bytes))
      /\ \A i \in DOMAIN after.frames : Len(after.frames[i]) <= Len(b)
  BY DEF Cut
<1>2. r.frames \in Seq(Seq(Bytes))
  BY <1>1, OneMore
<1>3. \A i \in DOMAIN r.frames : Len(r.frames[i]) <= Len(b)
  BY <1>1, OneMore
<1>4. q[Len(b)].done = q[p - 1].done \o r.frames
  <2>1. q[Len(b)].done = (q[p - 1].done \o <<frame>>) \o after.frames
    BY DEF Cut
  <2>2. PICK S : S = Seq(Bytes)
    OBVIOUS
  <2>3. PICK d \in Seq(S), t \in Seq(S) : d = q[p - 1].done /\ t = after.frames
    BY <1>1, <2>2
  <2>4. frame \in S
    BY <2>2
  <2>5. (d \o <<frame>>) \o t = d \o (<<frame>> \o t)
    BY <2>4, ConcatConcat
  <2> QED BY <2>1, <2>3, <2>5
<1> QED BY <1>2, <1>3, <1>4 DEF Cut

(* A round cuts if those behind it do.                                     *)
LEMMA RoundCuts ==
  ASSUME NEW b \in Seq(Bytes), NEW q, Reads(q, b), NEW p \in 1..(Len(b) + 1), Aligned(q, b, p),
         \A n \in (p + 1)..(Len(b) + 1) : Aligned(q, b, n) => Cut(q, b, n, Rounds(b)[n])
  PROVE  Cut(q, b, p, Rounds(b)[p])
<1> DEFINE r == Rounds(b)[p]
           starts == Marks(b, p, "D8")
           s == Min(starts)
           ends == Marks(b, s + 2, "D9")
           e == Min(ends)
<1>1. r = Round(b, p, Rounds(b))
  BY RoundsDef
<1>2. p \in Nat \ {0}
  OBVIOUS
<1>3. CASE starts = {}
  <2>1. r = [buffer |-> Leftover(SubSeq(b, p, Len(b))), frames |-> <<>>, failed |-> FALSE]
    BY <1>1, <1>3 DEF Round
  <2> QED BY <1>3, <2>1, NoStart
<1>4. CASE starts # {}
  <2>1. /\ s \in p..(Len(b) - 1) /\ b[s] = "FF" /\ b[s + 1] = "D8"
        /\ \A i \in p..(s - 1) : ~ (b[i] = "FF" /\ b[i + 1] = "D8")
    BY <1>2, <1>4, MarksAre
  <2>2. PICK t : t = s
    OBVIOUS
  <2> HIDE DEF s
  <2>3. t \in p..(Len(b) - 1) /\ t \in 1..(Len(b) - 1) /\ t + 2 \in Nat \ {0}
    BY <2>1, <2>2
  <2>4. Aligned(q, b, t) /\ q[t - 1].done = q[p - 1].done
    BY <2>1, <2>2, OpenFrame
  <2>5. CASE ends = {}
    <3>1. PICK from : from = t + 2
      OBVIOUS
    <3>2. from \in Nat \ {0} /\ Marks(b, from, "D9") = {}
      BY <2>2, <2>3, <2>5, <3>1
    <3>3. \A i \in from..(Len(b) - 1) : ~ (b[i] = "FF" /\ b[i + 1] = "D9")
      BY <3>2, NoMarks
    <3>4. \A i \in (t + 2)..(Len(b) - 1) : ~ (b[i] = "FF" /\ b[i + 1] = "D9")
      BY <3>1, <3>3
    <3>5. t \in 1..(Len(b) - 1) /\ b[t] = "FF" /\ b[t + 1] = "D8"
      BY <2>1, <2>2, <2>3
    <3>6. CASE Len(SubSeq(b, t, Len(b))) > MaxFrame
      <4>1. r = [buffer |-> <<>>, frames |-> <<>>, failed |-> TRUE]
        BY <1>1, <1>4, <2>2, <2>5, <3>6 DEF Round, OverLimit, s
      <4> HIDE DEF r
      <4>2. r.frames = <<>> /\ r.buffer = <<>> /\ r.failed = TRUE
        BY <4>1
      <4>3. Cut(q, b, p, r)
        BY <2>4, <3>4, <3>5, <3>6, <4>2, NoEnd
      <4> QED BY <4>3 DEF r
    <3>7. CASE ~ (Len(SubSeq(b, t, Len(b))) > MaxFrame)
      <4>1. r = [buffer |-> SubSeq(b, t, Len(b)), frames |-> <<>>, failed |-> FALSE]
        BY <1>1, <1>4, <2>2, <2>5, <3>7 DEF Round, OverLimit, s
      <4> HIDE DEF r
      <4>2. r.frames = <<>> /\ r.buffer = SubSeq(b, t, Len(b)) /\ r.failed = FALSE
        BY <4>1
      <4>3. Cut(q, b, p, r)
        BY <2>4, <3>4, <3>5, <3>7, <4>2, NoEnd
      <4> QED BY <4>3 DEF r
    <3> QED BY <3>6, <3>7
  <2>6. CASE ends # {}
    <3>1. PICK from : from = t + 2
      OBVIOUS
    <3>2. from \in Nat \ {0} /\ ends = Marks(b, from, "D9")
      BY <2>2, <2>3, <3>1
    <3>3. /\ e \in from..(Len(b) - 1) /\ b[e] = "FF" /\ b[e + 1] = "D9"
          /\ \A i \in from..(e - 1) : ~ (b[i] = "FF" /\ b[i + 1] = "D9")
      BY <2>6, <3>2, MarksAre
    <3>4. PICK u : u = e
      OBVIOUS
    <3>5. r = [buffer |-> Rounds(b)[(u + 1) + 1].buffer,
               frames |-> <<SubSeq(b, t, u + 1)>> \o Rounds(b)[(u + 1) + 1].frames,
               failed |-> Rounds(b)[(u + 1) + 1].failed]
      BY <1>1, <1>4, <2>2, <2>6, <3>4 DEF Round, s
    <3> HIDE DEF e, ends
    <3>6. u \in (t + 2)..(Len(b) - 1) /\ b[u] = "FF" /\ b[u + 1] = "D9"
      BY <3>1, <3>3, <3>4
    <3>7. \A i \in (t + 2)..(u - 1) : ~ (b[i] = "FF" /\ b[i + 1] = "D9")
      BY <3>1, <3>3, <3>4
    <3>8. /\ Aligned(q, b, u + 2)
          /\ q[u + 1].done = q[p - 1].done \o <<SubSeq(b, t, u + 1)>>
      <4>1. /\ t \in 1..(Len(b) - 1) /\ Aligned(q, b, t) /\ b[t] = "FF" /\ b[t + 1] = "D8"
            /\ q[t - 1].done = q[p - 1].done
        BY <2>1, <2>2, <2>3, <2>4
      <4> QED BY <3>6, <3>7, <4>1, FrameEnds
    <3>9. PICK n : n = u + 2
      OBVIOUS
    <3>10. n \in (p + 1)..(Len(b) + 1) /\ (u + 1) + 1 = n /\ n - 1 = u + 1
      BY <2>3, <3>6, <3>9
    <3>11. Cut(q, b, n, Rounds(b)[n])
      BY <3>8, <3>9, <3>10
    <3>12. PICK after : after = Rounds(b)[n]
      OBVIOUS
    <3>13. PICK frame : frame = SubSeq(b, t, u + 1)
      OBVIOUS
    <3>14. /\ r.buffer = after.buffer /\ r.frames = <<frame>> \o after.frames
           /\ r.failed = after.failed
      BY <3>5, <3>10, <3>12, <3>13
    <3> HIDE DEF r
    <3>15. frame \in Seq(Bytes) /\ Len(frame) <= Len(b)
      <4>1. t \in 1..Len(b) /\ u + 1 \in t..Len(b) /\ (u + 1) - t + 1 <= Len(b)
        BY <2>3, <3>6
      <4> QED BY <3>13, <4>1, SliceType
    <3>16. Cut(q, b, n, after)
      BY <3>11, <3>12
    <3>17. q[n - 1].done = q[p - 1].done \o <<frame>>
      BY <3>8, <3>10, <3>13
    <3>18. q[p - 1].done \in Seq(Seq(Bytes))
      <4>1. p - 1 \in 0..Len(b)
        OBVIOUS
      <4> QED BY <4>1 DEF Reads, States
    <3>19. Cut(q, b, p, r)
      BY <3>14, <3>15, <3>16, <3>17, <3>18, CutOneMore
    <3> QED BY <3>19 DEF r
  <2> QED BY <2>5, <2>6
<1> QED BY <1>3, <1>4

(* So the whole buffer is cut as the automaton reads it.                   *)
LEMMA ScanCuts ==
  ASSUME NEW b \in Seq(Bytes), NEW q, Reads(q, b), Aligned(q, b, 1)
  PROVE  Cut(q, b, 1, Scan(b))
<1> DEFINE P(p) == Aligned(q, b, p) => Cut(q, b, p, Rounds(b)[p])
           T == {n \in Nat : n <= Len(b) /\ ~ P(Len(b) + 1 - n)}
<1>1. Len(b) \in Nat
  OBVIOUS
<1>2. ASSUME NEW p \in 1..(Len(b) + 1), \A n \in (p + 1)..(Len(b) + 1) : P(n)
      PROVE  P(p)
  BY <1>2, RoundCuts
<1> HIDE DEF P
<1>3. T = {}
  <2> SUFFICES ASSUME T # {} PROVE FALSE OBVIOUS
  <2>1. PICK m \in T : \A k \in T : m <= k
    BY LeastNat
  <2>2. PICK p : p = Len(b) + 1 - m
    OBVIOUS
  <2>3. p \in 1..(Len(b) + 1)
    BY <1>1, <2>2
  <2>4. ASSUME NEW n \in (p + 1)..(Len(b) + 1) PROVE P(n)
    <3>1. Len(b) + 1 - n \in Nat /\ Len(b) + 1 - n < m /\ Len(b) + 1 - n <= Len(b)
          /\ Len(b) + 1 - (Len(b) + 1 - n) = n
      BY <1>1, <2>2, <2>3
    <3>2. Len(b) + 1 - n \notin T
      BY <2>1, <3>1
    <3> QED BY <3>1, <3>2
  <2>5. P(p)
    BY <1>2, <2>3, <2>4
  <2> QED BY <2>1, <2>2, <2>5
<1>4. P(1)
  <2>1. Len(b) + 1 - Len(b) = 1
    BY <1>1
  <2> QED BY <1>1, <1>3, <2>1
<1> QED BY <1>4 DEF P, Scan

-------------------------------------------------------------------------------
(* The invariant *)

(* The buffer is the end of the stream from a place where no frame was     *)
(* open and those delivered were done.                                     *)
BufferIsTail ==
  ~ failed => \E k \in 0..Len(fed) :
    /\ buffer = SubSeq(fed, k + 1, Len(fed))
    /\ Aligned(ReadUpTo(fed), fed, k + 1)
    /\ ReadUpTo(fed)[k].done = frames

(* The inductive invariant.                                                *)
ParserInv == TypeOK /\ FramesAreExact /\ BufferIsTail

(* b is what is left of s from k on, with t after it.                      *)
Grown(s, t, k, b) ==
  /\ Len(b) + k = Len(s) + Len(t)
  /\ \A i \in 1..Len(b) : b[i] = (s \o t)[k + i]
  /\ k < Len(s) => b[1] = s[k + 1]

(* The buffer with a chunk after it is the end of a longer stream.         *)
LEMMA TailGrows ==
  ASSUME NEW S, NEW s \in Seq(S), NEW t \in Seq(S), NEW k \in 0..Len(s),
         NEW b, b = SubSeq(s, k + 1, Len(s)) \o t
  PROVE  b \in Seq(S) /\ Grown(s, t, k, b)
<1> DEFINE l == SubSeq(s, k + 1, Len(s))
<1>1. Len(s) \in Nat /\ Len(t) \in Nat
  OBVIOUS
<1>2. l \in Seq(S) /\ Len(l) = Len(s) - k /\ \A i \in 1..(Len(s) - k) : l[i] = s[k + i]
  <2>1. \A i \in (k + 1)..Len(s) : s[i] \in S
    OBVIOUS
  <2>2. l \in Seq(S) /\ Len(l) = IF k + 1 <= Len(s) THEN Len(s) - (k + 1) + 1 ELSE 0
    BY <1>1, <2>1, SubSeqProperties
  <2>3. \A i \in 1..(Len(s) - (k + 1) + 1) : l[i] = s[(k + 1) + i - 1]
    BY <1>1, <2>1, SubSeqProperties
  <2> HIDE DEF l
  <2>4. Len(s) - (k + 1) + 1 = Len(s) - k /\ \A i \in 1..(Len(s) - k) : (k + 1) + i - 1 = k + i
    BY <1>1
  <2>5. Len(l) = Len(s) - k
    BY <1>1, <2>2
  <2> QED BY <2>2, <2>3, <2>4, <2>5
<1> HIDE DEF l
<1>3. b = l \o t
  BY DEF l
<1>4. b \in Seq(S) /\ Len(b) = Len(s) + Len(t) - k
  <2>1. b \in Seq(S) /\ Len(b) = Len(l) + Len(t)
    BY <1>2, <1>3, ConcatProperties
  <2> QED BY <1>1, <1>2, <2>1
<1>5. ASSUME NEW i \in 1..Len(b) PROVE b[i] = (s \o t)[k + i]
  <2>1. CASE i <= Len(l)
    <3>1. b[i] = l[i]
      <4>1. i \in 1..(Len(l) + Len(t))
        BY <1>1, <1>2, <2>1
      <4>2. (l \o t)[i] = IF i <= Len(l) THEN l[i] ELSE t[i - Len(l)]
        BY <1>2, <4>1, ConcatProperties
      <4> QED BY <1>3, <2>1, <4>2
    <3>2. i \in 1..(Len(s) - k) /\ k + i \in 1..Len(s)
      BY <1>1, <1>2, <2>1
    <3>3. (s \o t)[k + i] = s[k + i]
      BY <3>2
    <3> QED BY <1>2, <3>1, <3>2, <3>3
  <2>2. CASE i > Len(l)
    <3>1. b[i] = t[i - Len(l)]
      <4>1. i \in 1..(Len(l) + Len(t)) /\ ~ (i <= Len(l))
        BY <1>1, <1>2, <1>4, <2>2
      <4>2. (l \o t)[i] = IF i <= Len(l) THEN l[i] ELSE t[i - Len(l)]
        BY <1>2, <4>1, ConcatProperties
      <4> QED BY <1>3, <4>1, <4>2
    <3>2. k + i \in (Len(s) + 1)..(Len(s) + Len(t)) /\ k + i - Len(s) = i - Len(l)
      BY <1>1, <1>2, <1>4, <2>2
    <3>3. PICK j : j = k + i
      OBVIOUS
    <3>4. j \in 1..(Len(s) + Len(t)) /\ ~ (j <= Len(s)) /\ j - Len(s) = i - Len(l)
      BY <1>1, <3>2, <3>3
    <3>5. (s \o t)[j] = t[j - Len(s)]
      BY <3>4, ConcatProperties
    <3> QED BY <3>1, <3>3, <3>4, <3>5
  <2>3. i <= Len(l) \/ i > Len(l)
    BY <1>1, <1>2
  <2> QED BY <2>1, <2>2, <2>3
<1>6. k < Len(s) => b[1] = s[k + 1]
  BY <1>1, <1>2, <1>3
<1>7. Len(b) + k = Len(s) + Len(t)
  BY <1>1, <1>4
<1> QED BY <1>4, <1>5, <1>6, <1>7 DEF Grown

(* An end of the end of a stream is an end of the stream.                  *)
LEMMA TailOfTail ==
  ASSUME NEW S, NEW s \in Seq(S), NEW k \in 0..Len(s), NEW b \in Seq(S),
         Len(b) = Len(s) - k, \A i \in 1..Len(b) : b[i] = s[k + i],
         NEW j \in 1..(Len(b) + 1)
  PROVE  SubSeq(b, j, Len(b)) = SubSeq(s, k + j, Len(s))
<1> DEFINE l == SubSeq(b, j, Len(b))
           r == SubSeq(s, k + j, Len(s))
<1>1. Len(s) \in Nat /\ Len(b) \in Nat /\ k + j \in Int
  OBVIOUS
<1>2. l \in Seq(S) /\ Len(l) = Len(b) + 1 - j /\ \A i \in 1..(Len(b) + 1 - j) : l[i] = b[j + i - 1]
  <2>1. \A i \in j..Len(b) : b[i] \in S
    OBVIOUS
  <2>2. l \in Seq(S) /\ Len(l) = IF j <= Len(b) THEN Len(b) - j + 1 ELSE 0
    BY <1>1, <2>1, SubSeqProperties
  <2>3. \A i \in 1..(Len(b) - j + 1) : l[i] = b[j + i - 1]
    BY <1>1, <2>1, SubSeqProperties
  <2> QED BY <1>1, <2>2, <2>3
<1>3. /\ r \in Seq(S) /\ Len(r) = Len(b) + 1 - j
      /\ \A i \in 1..(Len(b) + 1 - j) : r[i] = s[k + j + i - 1]
  <2>1. \A i \in (k + j)..Len(s) : s[i] \in S
    OBVIOUS
  <2>2. r \in Seq(S) /\ Len(r) = IF k + j <= Len(s) THEN Len(s) - (k + j) + 1 ELSE 0
    BY <1>1, <2>1, SubSeqProperties
  <2>3. \A i \in 1..(Len(s) - (k + j) + 1) : r[i] = s[(k + j) + i - 1]
    BY <1>1, <2>1, SubSeqProperties
  <2> QED BY <1>1, <2>2, <2>3
<1> HIDE DEF l, r
<1>4. \A i \in 1..(Len(b) + 1 - j) : l[i] = r[i]
  <2> TAKE i \in 1..(Len(b) + 1 - j)
  <2>1. j + i - 1 \in 1..Len(b) /\ k + (j + i - 1) = k + j + i - 1
    BY <1>1
  <2> QED BY <1>2, <1>3, <2>1
<1>5. l = r
  <2>1. Len(l) = Len(r) /\ \A i \in 1..Len(l) : l[i] = r[i]
    BY <1>2, <1>3, <1>4
  <2> QED BY <1>2, <1>3, <2>1, SeqEqual
<1> QED BY <1>5 DEF l, r

(* What Append leaves behind once the stream is read so far.               *)
Outcome(stream, done, size, r) ==
  /\ r.buffer \in Seq(Bytes) /\ r.frames \in Seq(Seq(Bytes)) /\ r.failed \in BOOLEAN
  /\ \A i \in DOMAIN r.frames : Len(r.frames[i]) <= size
  /\ ReadAll(stream).done = done \o r.frames
  /\ r.failed <=> Len(ReadAll(stream).open) > MaxFrame
  /\ r.failed => r.buffer = <<>>
  /\ ~ r.failed =>
       /\ Len(r.buffer) <= MaxFrame
       /\ \E k \in 0..Len(stream) :
            /\ r.buffer = SubSeq(stream, k + 1, Len(stream))
            /\ Aligned(ReadUpTo(stream), stream, k + 1)
            /\ ReadUpTo(stream)[k].done = ReadAll(stream).done

(* A chunk read from an aligned buffer.                                    *)
LEMMA ChunkCut ==
  ASSUME NEW f \in Seq(Bytes), NEW c \in Seq(Bytes), NEW k \in 0..Len(f),
         Aligned(ReadUpTo(f), f, k + 1),
         NEW b, b = SubSeq(f, k + 1, Len(f)) \o c, NEW r, r = Scan(b)
  PROVE  Outcome(f \o c, ReadUpTo(f)[k].done, Len(b), r)
<1>1. PICK F \in Seq(Bytes) : F = f \o c /\ Len(F) = Len(f) + Len(c)
  BY ConcatProperties
<1>2. PICK Q : Q = ReadUpTo(F)
  OBVIOUS
<1>3. Reads(Q, F) /\ \A i \in 0..Len(f) : Q[i] = ReadUpTo(f)[i]
  BY <1>1, <1>2, ReadUpToReads, ReadUpToPrefix
<1>4. /\ b \in Seq(Bytes) /\ Len(b) = Len(f) + Len(c) - k
      /\ \A i \in 1..Len(b) : b[i] = F[k + i]
      /\ k < Len(f) => b[1] = f[k + 1]
  <2>1. b \in Seq(Bytes) /\ Grown(f, c, k, b)
    BY TailGrows
  <2>2. Len(b) + k = Len(f) + Len(c) /\ Len(f) \in Nat /\ Len(c) \in Nat /\ Len(b) \in Nat
    BY <2>1 DEF Grown
  <2>3. Len(b) = Len(f) + Len(c) - k
    BY <2>2
  <2> QED BY <1>1, <2>1, <2>3 DEF Grown
<1>5. Len(f) \in Nat /\ Len(c) \in Nat /\ Len(b) = Len(F) - k /\ k + Len(b) = Len(F)
      /\ k \in 0..Len(F) /\ Len(b) \in Nat /\ Len(F) \in Nat
  BY <1>1, <1>4
<1> DEFINE q == [i \in 0..Len(b) |-> Q[k + i]]
<1>6. \A i \in 0..Len(b) : q[i] = Q[k + i]
  OBVIOUS
<1> HIDE DEF q
<1>7. Reads(q, b)
  <2>1. ASSUME NEW i \in 0..Len(b) PROVE q[i] \in States
    <3>1. k + i \in 0..Len(F)
      BY <1>5
    <3> QED BY <1>3, <1>6, <3>1 DEF Reads
  <2>2. ASSUME NEW i \in 1..Len(b) PROVE q[i] = Read(q[i - 1], b[i])
    <3>1. /\ k + i \in 1..Len(F) /\ (k + i) - 1 = k + (i - 1)
          /\ i \in 0..Len(b) /\ i - 1 \in 0..Len(b)
      BY <1>5
    <3>2. Q[k + i] = Read(Q[(k + i) - 1], F[k + i])
      BY <1>3, <3>1 DEF Reads
    <3> QED BY <1>4, <1>6, <3>1, <3>2
  <2> QED BY <2>1, <2>2 DEF Reads
<1>8. q[0] = ReadUpTo(f)[k] /\ q[Len(b)] = ReadAll(F)
  <2>1. k + 0 = k /\ 0 \in 0..Len(b) /\ Len(b) \in 0..Len(b)
    BY <1>5
  <2>2. q[0] = Q[k] /\ q[Len(b)] = Q[Len(F)]
    BY <1>5, <1>6, <2>1
  <2> QED BY <1>2, <1>3, <2>2 DEF ReadAll
<1>9. Aligned(q, b, 1)
  <2>1. (k + 1) - 1 = k /\ 1 - 1 = 0
    OBVIOUS
  <2>2. /\ q[0].mode \in {"junk", "junkFF"} /\ q[0].open = <<>>
        /\ q[0].mode = "junkFF" => k + 1 <= Len(f) /\ f[k + 1] = "FF"
    BY <1>8, <2>1 DEF Aligned
  <2>3. k + 1 <= Len(f) => 1 <= Len(b) /\ b[1] = f[k + 1]
    BY <1>4, <1>5, SMTT(20)
  <2> QED BY <2>1, <2>2, <2>3 DEF Aligned
<1>10. Cut(q, b, 1, r)
  BY <1>4, <1>7, <1>9, ScanCuts
<1>11. ReadAll(F).done = ReadUpTo(f)[k].done \o r.frames
  <2>1. 1 - 1 = 0
    OBVIOUS
  <2> QED BY <1>8, <1>10, <2>1 DEF Cut
<1>12. ASSUME ~ r.failed
       PROVE  /\ Len(r.buffer) <= MaxFrame
              /\ \E n \in 0..Len(F) :
                   /\ r.buffer = SubSeq(F, n + 1, Len(F))
                   /\ Aligned(Q, F, n + 1)
                   /\ Q[n].done = ReadAll(F).done
  <2>1. PICK j \in 1..(Len(b) + 1) :
               r.buffer = SubSeq(b, j, Len(b)) /\ Aligned(q, b, j) /\ q[j - 1].done = q[Len(b)].done
    BY <1>10, <1>12 DEF Cut
  <2>2. PICK n : n = k + j - 1
    OBVIOUS
  <2>3. /\ n \in 0..Len(F) /\ n + 1 = k + j /\ (n + 1) - 1 = n
        /\ j - 1 \in 0..Len(b) /\ k + (j - 1) = n
    BY <1>5, <2>2
  <2>4. q[j - 1] = Q[n]
    BY <1>6, <2>3
  <2>5. r.buffer = SubSeq(F, n + 1, Len(F))
    <3>1. SubSeq(b, j, Len(b)) = SubSeq(F, k + j, Len(F))
      BY <1>4, <1>5, TailOfTail
    <3> QED BY <2>1, <2>3, <3>1
  <2>6. j <= Len(b) => b[j] = F[n + 1] /\ n + 1 <= Len(F)
    <3> SUFFICES ASSUME j <= Len(b) PROVE b[j] = F[n + 1] /\ n + 1 <= Len(F)
      OBVIOUS
    <3>1. j \in 1..Len(b)
      BY <1>5
    <3>2. b[j] = F[k + j]
      BY <1>4, <3>1
    <3>3. k + j <= Len(F)
      BY <1>5, <3>1
    <3> QED BY <2>3, <3>2, <3>3
  <2>7. Aligned(Q, F, n + 1)
    BY <2>1, <2>3, <2>4, <2>6 DEF Aligned
  <2>8. Q[n].done = ReadAll(F).done
    BY <1>8, <2>1, <2>4
  <2>9. Len(r.buffer) <= MaxFrame
    BY <1>10, <1>12 DEF Cut
  <2> QED BY <2>3, <2>5, <2>7, <2>8, <2>9
<1>13. /\ r.buffer \in Seq(Bytes) /\ r.frames \in Seq(Seq(Bytes)) /\ r.failed \in BOOLEAN
       /\ \A i \in DOMAIN r.frames : Len(r.frames[i]) <= Len(b)
       /\ r.failed <=> Len(ReadAll(F).open) > MaxFrame
       /\ r.failed => r.buffer = <<>>
  BY <1>8, <1>10 DEF Cut
<1> QED BY <1>1, <1>2, <1>11, <1>12, <1>13 DEF Outcome

(* The invariant, of values instead of variables.                          *)
ParserStates(buf, frs, fld, fd) ==
  /\ buf \in Seq(Bytes) /\ Len(buf) <= MaxFrame
  /\ frs \in Seq(Seq(Bytes)) /\ fld \in BOOLEAN /\ fd \in Seq(Bytes)
  /\ frs = ReadAll(fd).done
  /\ fld <=> Len(ReadAll(fd).open) > MaxFrame
  /\ \A i \in DOMAIN frs : Len(frs[i]) <= MaxFrame + MaxChunk
  /\ ~ fld => \E k \in 0..Len(fd) :
       /\ buf = SubSeq(fd, k + 1, Len(fd))
       /\ Aligned(ReadUpTo(fd), fd, k + 1)
       /\ ReadUpTo(fd)[k].done = frs

(* The two are the same.                                                   *)
LEMMA InvIs == ParserInv <=> ParserStates(buffer, frames, failed, fed)
BY DEF ParserInv, ParserStates, TypeOK, FramesAreExact, FramesMatchStream, LimitHitsFrames,
       BufferIsTail

(* It holds of a parser that was fed nothing.                              *)
LEMMA EmptyStates == ParserStates(<<>>, <<>>, FALSE, <<>>)
<1>1. ReadUpTo(<<>>)[0] = Automaton
  <2>1. <<>> \in Seq(Bytes)
    OBVIOUS
  <2> QED BY <2>1, ReadUpToDef
<1>2. ReadAll(<<>>) = Automaton
  BY <1>1 DEF ReadAll
<1>3. MaxFrame \in Nat /\ ~ (Len(<<>>) > MaxFrame) /\ Len(<<>>) <= MaxFrame
  BY ParserAssumption
<1>4. 0 \in 0..Len(<<>>) /\ <<>> = SubSeq(<<>>, 0 + 1, Len(<<>>))
  BY SubSeqEmpty
<1>5. Automaton.mode = "junk" /\ Automaton.open = <<>> /\ Automaton.done = <<>>
  BY DEF Automaton
<1>6. Aligned(ReadUpTo(<<>>), <<>>, 0 + 1)
  <2>1. (0 + 1) - 1 = 0
    OBVIOUS
  <2> QED BY <1>1, <1>5, <2>1 DEF Aligned
<1> QED BY <1>1, <1>2, <1>3, <1>4, <1>5, <1>6 DEF ParserStates

(* So Init and Reset lead into the invariant.                              *)
LEMMA NothingRead ==
  /\ (buffer = <<>> /\ frames = <<>> /\ failed = FALSE /\ fed = <<>>) => ParserInv
  /\ (buffer' = <<>> /\ frames' = <<>> /\ failed' = FALSE /\ fed' = <<>>) => ParserInv'
<1>1. (buffer' = <<>> /\ frames' = <<>> /\ failed' = FALSE /\ fed' = <<>>) => ParserInv'
  BY EmptyStates DEF ParserInv, ParserStates, TypeOK, FramesAreExact, FramesMatchStream,
                     LimitHitsFrames, BufferIsTail
<1> QED BY <1>1, EmptyStates, InvIs

(* The bound on frames carries over to more of them.                       *)
LEMMA MoreFrames ==
  ASSUME NEW S, NEW s \in Seq(Seq(S)), NEW t \in Seq(Seq(S)), NEW n \in Nat,
         \A i \in DOMAIN s : Len(s[i]) <= n, \A i \in DOMAIN t : Len(t[i]) <= n
  PROVE  s \o t \in Seq(Seq(S)) /\ \A i \in DOMAIN (s \o t) : Len((s \o t)[i]) <= n
<1>1. /\ s \o t \in Seq(Seq(S)) /\ Len(s \o t) = Len(s) + Len(t)
      /\ \A i \in 1..(Len(s) + Len(t)) : (s \o t)[i] = IF i <= Len(s) THEN s[i] ELSE t[i - Len(s)]
  BY ConcatProperties
<1>2. ASSUME NEW i \in DOMAIN (s \o t) PROVE Len((s \o t)[i]) <= n
  <2>1. i \in 1..(Len(s) + Len(t)) /\ Len(s) \in Nat /\ Len(t) \in Nat
    BY <1>1
  <2>2. CASE i <= Len(s)
    <3>1. i \in DOMAIN s
      BY <2>1, <2>2
    <3> QED BY <1>1, <2>1, <2>2, <3>1
  <2>3. CASE ~ (i <= Len(s))
    <3>1. i - Len(s) \in DOMAIN t
      BY <2>1, <2>3
    <3> QED BY <1>1, <2>1, <2>3, <3>1
  <2> QED BY <2>2, <2>3
<1> QED BY <1>1, <1>2

(* Append keeps the invariant.                                             *)
LEMMA AppendKeeps ==
  ASSUME ParserInv, NEW chunk \in Seq(Bytes), Len(chunk) <= MaxChunk, AppendChunk(chunk)
  PROVE  ParserInv'
<1> DEFINE b == buffer \o chunk
<1>1. PICK r : r = Scan(b)
  OBVIOUS
<1>2. /\ ~ failed /\ buffer' = r.buffer /\ frames' = frames \o r.frames
      /\ failed' = r.failed /\ fed' = fed \o chunk
  BY <1>1 DEF AppendChunk
<1>3. /\ buffer \in Seq(Bytes) /\ Len(buffer) <= MaxFrame
      /\ frames \in Seq(Seq(Bytes)) /\ fed \in Seq(Bytes)
      /\ \A i \in DOMAIN frames : Len(frames[i]) <= MaxFrame + MaxChunk
  BY InvIs DEF ParserStates
<1>4. PICK k \in 0..Len(fed) :
        /\ buffer = SubSeq(fed, k + 1, Len(fed))
        /\ Aligned(ReadUpTo(fed), fed, k + 1)
        /\ ReadUpTo(fed)[k].done = frames
  BY <1>2 DEF ParserInv, BufferIsTail
<1>5. b = SubSeq(fed, k + 1, Len(fed)) \o chunk
  BY <1>4
<1>6. Len(b) <= MaxFrame + MaxChunk /\ Len(b) \in Nat /\ MaxFrame + MaxChunk \in Nat
  <2>1. Len(b) = Len(buffer) + Len(chunk) /\ Len(buffer) \in Nat /\ Len(chunk) \in Nat
    BY <1>3, ConcatProperties
  <2>2. MaxFrame \in Nat /\ MaxChunk \in Nat
    BY ParserAssumption
  <2> HIDE DEF b
  <2> QED BY <1>3, <2>1, <2>2
<1> HIDE DEF b
<1>7. PICK f : f = fed \o chunk
  OBVIOUS
<1>8. Outcome(f, frames, Len(b), r)
  BY <1>1, <1>3, <1>4, <1>5, <1>7, ChunkCut
<1>9. /\ r.buffer \in Seq(Bytes) /\ r.frames \in Seq(Seq(Bytes)) /\ r.failed \in BOOLEAN
      /\ \A i \in DOMAIN r.frames : Len(r.frames[i]) <= Len(b)
  BY <1>8 DEF Outcome
<1>12. /\ frames \o r.frames \in Seq(Seq(Bytes))
       /\ \A i \in DOMAIN (frames \o r.frames) :
            Len((frames \o r.frames)[i]) <= MaxFrame + MaxChunk
  <2>1. \A i \in DOMAIN r.frames : Len(r.frames[i]) <= MaxFrame + MaxChunk
    <3> TAKE i \in DOMAIN r.frames
    <3>1. Len(r.frames[i]) \in Nat /\ Len(r.frames[i]) <= Len(b)
      BY <1>9
    <3> QED BY <1>6, <3>1
  <2> QED BY <1>3, <1>6, <1>9, <2>1, MoreFrames
<1>13. f \in Seq(Bytes)
  BY <1>3, <1>7, ConcatProperties
<1>14. Len(r.buffer) <= MaxFrame
  <2>1. Len(<<>>) <= MaxFrame
    BY ParserAssumption
  <2> QED BY <1>8, <2>1 DEF Outcome
<1>15. PICK all : all = frames \o r.frames
  OBVIOUS
<1>16. ParserStates(r.buffer, all, r.failed, f)
  <2>1. /\ all \in Seq(Seq(Bytes)) /\ all = ReadAll(f).done
        /\ \A i \in DOMAIN all : Len(all[i]) <= MaxFrame + MaxChunk
    BY <1>8, <1>12, <1>15 DEF Outcome
  <2>2. r.failed <=> Len(ReadAll(f).open) > MaxFrame
    BY <1>8 DEF Outcome
  <2>3. ~ r.failed => \E k1 \in 0..Len(f) :
              /\ r.buffer = SubSeq(f, k1 + 1, Len(f))
              /\ Aligned(ReadUpTo(f), f, k1 + 1)
              /\ ReadUpTo(f)[k1].done = all
    BY <1>8, <2>1 DEF Outcome
  <2> QED BY <1>9, <1>13, <1>14, <2>1, <2>2, <2>3 DEF ParserStates
<1>17. ParserStates(buffer', frames', failed', fed')
  BY <1>2, <1>7, <1>15, <1>16
<1> QED BY <1>17 DEF ParserInv, ParserStates, TypeOK, FramesAreExact, FramesMatchStream,
                     LimitHitsFrames, BufferIsTail

(* The invariant holds of every stream, cut into whatever chunks, and of   *)
(* the next one after Reset.                                               *)
THEOREM ParserInvariant == Spec => []ParserInv
<1>1. Init => ParserInv
  <2> SUFFICES ASSUME Init PROVE ParserInv
    OBVIOUS
  <2>1. buffer = <<>> /\ frames = <<>> /\ failed = FALSE /\ fed = <<>>
    BY DEF Init
  <2> QED BY <2>1, NothingRead
<1>2. ParserInv /\ [Next]_vars => ParserInv'
  <2> SUFFICES ASSUME ParserInv, [Next]_vars PROVE ParserInv'
    OBVIOUS
  <2>1. ASSUME NEW n \in 1..MaxChunk, NEW chunk \in [1..n -> Bytes], AppendChunk(chunk)
        PROVE  ParserInv'
    <3>1. n \in Nat /\ MaxChunk \in Nat /\ chunk \in Seq(Bytes) /\ Len(chunk) = n
      BY ParserAssumption
    <3>2. Len(chunk) <= MaxChunk
      BY <3>1
    <3> QED BY <2>1, <3>1, <3>2, AppendKeeps
  <2>2. CASE Reset
    BY <2>2, NothingRead DEF Reset
  <2>3. CASE UNCHANGED vars
    BY <2>3 DEF vars, ParserInv, TypeOK, FramesAreExact, FramesMatchStream, LimitHitsFrames,
                BufferIsTail
  <2> QED BY <2>1, <2>2, <2>3 DEF Next
<1> QED BY <1>1, <1>2, PTL DEF Spec

(* What is buffered between two calls of Append is at most an unfinished   *)
(* frame of the allowed size (mjpeg_parser.cpp:31-38, 46-55).              *)
THEOREM TypeCorrect == Spec => []TypeOK
<1>1. ParserInv => TypeOK BY DEF ParserInv
<1> QED BY <1>1, ParserInvariant, PTL

(* However the pipe cuts the stream, Append delivers its frames and no     *)
(* others, and refuses exactly what leaves a frame open that has grown     *)
(* past the limit (mjpeg_parser.cpp:26-62).                                *)
THEOREM FramesExact == Spec => []FramesAreExact
<1>1. ParserInv => FramesAreExact BY DEF ParserInv
<1> QED BY <1>1, ParserInvariant, PTL
=============================================================================
