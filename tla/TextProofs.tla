----------------------------- MODULE TextProofs -----------------------------
(***************************************************************************)
(* The safety of the text path, for any requests, prompts, tokens, sizes   *)
(* and bounds: what the decoder hands out, its cache, its states inside    *)
(* the engine, and the cache of the prompt tokenizer.                      *)
(***************************************************************************)
EXTENDS MCText, SequenceTheorems, WellFoundedInduction, TLAPS

---------------------------------------------------------------------------
(* Numbers and recursion.                                                   *)

\* Every set of numbers has a least element.
LEMMA LeastNat ==
  ASSUME NEW T \in SUBSET Nat, T # {}
  PROVE  \E x \in T : \A y \in T : x <= y
<1>1. PICK x \in T : \A y \in T : ~ (<<y, x>> \in OpToRel(<, Nat))
  BY WFMin, NatLessThanWellFounded
<1>2. ASSUME NEW y \in T PROVE x <= y
  <2>1. y \in Nat /\ x \in Nat
    OBVIOUS
  <2>2. ~(y < x)
    BY <1>1, <2>1 DEF OpToRel
  <2> QED BY <2>1, <2>2
<1> QED BY <1>2

\* What holds at 0 and goes on from each number to the next holds up to n.
LEMMA Climb ==
  ASSUME NEW n \in Nat, NEW G, 0 \in G, \A i \in 1..n : i - 1 \in G => i \in G
  PROVE  0..n \subseteq G
<1> SUFFICES ASSUME ~(0..n \subseteq G) PROVE FALSE
  OBVIOUS
<1>1. (0..n) \ G \in SUBSET Nat /\ (0..n) \ G # {}
  OBVIOUS
<1>2. PICK x \in (0..n) \ G : \A y \in (0..n) \ G : x <= y
  BY <1>1, LeastNat
<1>3. x # 0 /\ x \in 1..n /\ x - 1 \in 0..n
  BY <1>2
<1>4. x - 1 \in G
  BY <1>2, <1>3
<1> QED BY <1>2, <1>3, <1>4

\* A step function op with values in S and a start, and a run of it.
Steps(S, b, n, op) == n \in Nat /\ b \in S /\ op \in [S \X (1..n) -> S]

Run(S, b, n, op, f) ==
  f \in [0..n -> S] /\ f[0] = b /\ \A i \in 1..n : f[i] = op[<<f[i - 1], i>>]

\* The run exists: so does a recursive function over 0..n with values in S.
LEMMA Iterates ==
  ASSUME NEW S, NEW b, NEW n, NEW op, Steps(S, b, n, op)
  PROVE  \E f : Run(S, b, n, op, f)
<1>0. n \in Nat /\ b \in S /\ op \in [S \X (1..n) -> S]
  BY DEF Steps
<1> DEFINE Runs(m, f) == /\ f \in [0..m -> S] /\ f[0] = b
                         /\ \A i \in 1..m : f[i] = op[<<f[i - 1], i>>]
           G == {m \in 0..n : \E f : Runs(m, f)}
<1>1. 0 \in G
  <2> DEFINE f == [i \in 0..0 |-> b]
  <2>1. f \in [0..0 -> S] /\ f[0] = b /\ 1..0 = {}
    BY <1>0
  <2> HIDE DEF f
  <2>2. Runs(0, f)
    BY <2>1
  <2> QED BY <2>2, <1>0
<1>2. ASSUME NEW i \in 1..n, i - 1 \in G PROVE i \in G
  <2>1. PICK f : Runs(i - 1, f)
    BY <1>2
  <2> DEFINE h == [j \in 0..i |-> IF j = i THEN op[<<f[i - 1], i>>] ELSE f[j]]
  <2>2. f[i - 1] \in S /\ op[<<f[i - 1], i>>] \in S
    <3>1. f[i - 1] \in S
      BY <2>1, <1>0
    <3> QED BY <3>1, <1>0
  <2>3. h \in [0..i -> S]
    BY <2>1, <2>2, <1>0
  <2>4. h[0] = b
    BY <2>1, <1>0
  <2>5. ASSUME NEW j \in 1..i PROVE h[j] = op[<<h[j - 1], j>>]
    <3>0. j - 1 \in 0..i /\ j - 1 # i /\ j \in 0..i
      BY <1>0
    <3>1. h[j - 1] = f[j - 1]
      BY <3>0
    <3>2. CASE j = i
      <4>1. h[j] = op[<<f[i - 1], i>>]
        BY <3>0, <3>2
      <4> HIDE DEF h
      <4> QED BY <3>1, <3>2, <4>1
    <3>3. CASE j # i
      <4>1. j \in 1..(i - 1) /\ h[j] = f[j]
        BY <3>0, <3>3
      <4> HIDE DEF h
      <4> QED BY <2>1, <3>1, <4>1
    <3> QED BY <3>2, <3>3
  <2> HIDE DEF h
  <2>6. Runs(i, h)
    BY <2>3, <2>4, <2>5
  <2> QED BY <2>6
<1> HIDE DEF G
<1>3. 0..n \subseteq G
  BY <1>0, <1>1, <1>2, Climb
<1>4. n \in G
  BY <1>0, <1>3
<1>5. PICK f : Runs(n, f)
  BY <1>4 DEF G
<1> QED BY <1>5 DEF Run

---------------------------------------------------------------------------
(* The decode of a sequence of tokens.                                      *)

Chars == {"x", "c", REPLACEMENT_CHAR}

\* A text that ends with open bytes ends with the character that stands for them.
Decodes == {d \in [text : Seq(Chars), open : BOOLEAN] :
              d.open => d.text # << >> /\ d.text[Len(d.text)] = REPLACEMENT_CHAR}

Blank == [text |-> << >>, open |-> FALSE]

\* How a text may change with one more token.
Grows(a, b) ==
  \/ b = a
  \/ \E c \in Chars : b = Append(a, c)
  \/ /\ a # << >> /\ a[Len(a)] = REPLACEMENT_CHAR
     /\ b = Append(Front(a), "c")

LEMMA FrontIs ==
  ASSUME NEW S, NEW s \in Seq(S), s # << >>
  PROVE  /\ Front(s) \in Seq(S) /\ Len(Front(s)) = Len(s) - 1
         /\ \A i \in 1..(Len(s) - 1) : Front(s)[i] = s[i]
<1>1. Len(s) \in Nat /\ Len(s) >= 1
  OBVIOUS
<1>2. \A i \in 1..(Len(s) - 1) : s[i] \in S
  BY <1>1
<1>3. PICK n, f : n = Len(s) - 1 /\ f = SubSeq(s, 1, n)
  OBVIOUS
<1>4. n \in Int /\ n >= 0 /\ 1 \in Int /\ \A i \in 1..n : s[i] \in S
  BY <1>1, <1>2, <1>3
<1>5. /\ f \in Seq(S) /\ Len(f) = (IF 1 <= n THEN n - 1 + 1 ELSE 0)
      /\ \A i \in 1..(n - 1 + 1) : f[i] = s[1 + i - 1]
  BY ONLY <1>3, <1>4, SubSeqProperties
<1>6. Len(f) = n /\ \A i \in 1..n : f[i] = s[i]
  BY ONLY <1>4, <1>5
<1>7. Front(s) = f
  BY <1>3 DEF Front
<1> QED BY <1>3, <1>5, <1>6, <1>7

LEMMA DecodeNextIs ==
  ASSUME NEW d \in Decodes, NEW t \in TokenIds
  PROVE  /\ DecodeNext(d, t) \in Decodes
         /\ Grows(d.text, DecodeNext(d, t).text)
         /\ Len(DecodeNext(d, t).text) <= Len(d.text) + 1
<1>1. t \in {"char", "first", "last", "eos"}
  BY TokenAssumption
<1>2. d.text \in Seq(Chars) /\ d.open \in BOOLEAN /\ Len(d.text) \in Nat
  BY DEF Decodes
<1>3. CASE t = "eos"
  BY <1>2, <1>3 DEF DecodeNext, Grows
<1>4. CASE t = "char"
  BY <1>2, <1>4 DEF DecodeNext, Grows, Decodes, Chars
<1>5. CASE t = "first"
  BY <1>2, <1>5 DEF DecodeNext, Grows, Decodes, Chars
<1>6. CASE t = "last" /\ ~d.open
  BY <1>2, <1>6 DEF DecodeNext, Grows, Decodes, Chars
<1>7. CASE t = "last" /\ d.open
  <2>1. d.text # << >> /\ d.text[Len(d.text)] = REPLACEMENT_CHAR
    BY <1>7 DEF Decodes
  <2>2. Front(d.text) \in Seq(Chars) /\ Len(Front(d.text)) = Len(d.text) - 1
    BY <2>1, <1>2, FrontIs
  <2>3. DecodeNext(d, t) = [text |-> Append(Front(d.text), "c"), open |-> FALSE]
    BY <1>7 DEF DecodeNext
  <2> QED BY <2>1, <2>2, <2>3, <1>2 DEF Grows, Decodes, Chars
<1> QED BY <1>1, <1>3, <1>4, <1>5, <1>6, <1>7

LEMMA BlankIs == Blank \in Decodes
  BY DEF Blank, Decodes

\* Text goes along the tokens.
LEMMA TextRuns ==
  ASSUME NEW s \in Seq(TokenIds)
  PROVE  \E f \in [0..Len(s) -> Decodes] :
           /\ f[0] = Blank /\ \A i \in 1..Len(s) : f[i] = DecodeNext(f[i - 1], s[i])
           /\ Text(s) = f[Len(s)].text
<1> DEFINE n == Len(s)
           Runs(f) == f = [i \in 0..n |-> IF i = 0 THEN Blank ELSE DecodeNext(f[i - 1], s[i])]
           op == [x \in Decodes \X (1..n) |-> DecodeNext(x[1], s[x[2]])]
<1>1. n \in Nat /\ \A i \in 1..n : s[i] \in TokenIds
  OBVIOUS
<1> HIDE DEF n
<1>2. op \in [Decodes \X (1..n) -> Decodes]
  <2> SUFFICES ASSUME NEW x \in Decodes \X (1..n) PROVE DecodeNext(x[1], s[x[2]]) \in Decodes
    OBVIOUS
  <2>1. x[1] \in Decodes /\ s[x[2]] \in TokenIds
    BY <1>1
  <2> QED BY <2>1, DecodeNextIs
<1>3. PICK g \in [0..n -> Decodes] : g[0] = Blank /\ \A i \in 1..n : g[i] = op[<<g[i - 1], i>>]
  <2>1. PICK S, b, o : S = Decodes /\ b = Blank /\ o = op
    OBVIOUS
  <2>2. Steps(S, b, n, o)
    BY <1>1, <1>2, <2>1, BlankIs DEF Steps
  <2>3. \E g : Run(S, b, n, o, g)
    BY ONLY <2>2, Iterates
  <2> HIDE DEF op
  <2> QED BY <2>1, <2>3 DEF Run
<1>4. \A i \in 1..n : i - 1 \in 0..n /\ g[i - 1] \in Decodes /\ g[i] = DecodeNext(g[i - 1], s[i])
  <2> TAKE i \in 1..n
  <2>1. i - 1 \in 0..n /\ g[i - 1] \in Decodes
    BY <1>1, <1>3
  <2>2. op[<<g[i - 1], i>>] = DecodeNext(g[i - 1], s[i])
    BY <2>1
  <2> QED BY <1>3, <2>1, <2>2
<1>5. Runs(g)
  <2> SUFFICES ASSUME NEW i \in 0..n
               PROVE  g[i] = IF i = 0 THEN Blank ELSE DecodeNext(g[i - 1], s[i])
    BY <1>3
  <2>1. i = 0 \/ i \in 1..n
    BY <1>1
  <2> QED BY <2>1, <1>3, <1>4
<1> DEFINE d == CHOOSE f : Runs(f)
<1>6. Runs(d)
  <2> HIDE DEF Runs
  <2> QED BY <1>5
<1>7. Text(s) = d[n].text
  BY DEF Text, Blank, n
<1> HIDE DEF d, op
<1>8. \A i \in 1..n : d[i] = DecodeNext(d[i - 1], s[i])
  BY <1>1, <1>6
<1>9. d[0] = Blank /\ d = [i \in 0..n |-> d[i]]
  BY <1>1, <1>6
<1>10. 0..n \subseteq {i \in 0..n : d[i] = g[i]}
  <2> DEFINE G == {i \in 0..n : d[i] = g[i]}
  <2>1. 0 \in G
    BY <1>1, <1>3, <1>9
  <2>2. \A i \in 1..n : i - 1 \in G => i \in G
    BY <1>1, <1>4, <1>8
  <2> HIDE DEF G
  <2>3. 0..n \subseteq G
    BY <1>1, <2>1, <2>2, Climb
  <2> QED BY <2>3 DEF G
<1>11. Text(s) = g[n].text
  BY <1>1, <1>7, <1>10
<1> QED BY <1>3, <1>4, <1>11 DEF n

\* Every token changes the text at its end, by one character at most.
LEMMA TextGrows ==
  ASSUME NEW s \in Seq(TokenIds), NEW t \in TokenIds
  PROVE  Grows(Text(s), Text(Append(s, t)))
<1> DEFINE n == Len(s)
           u == Append(s, t)
<1>1. /\ n \in Nat /\ u \in Seq(TokenIds) /\ Len(u) = n + 1 /\ u[n + 1] = t
      /\ \A i \in 1..n : u[i] = s[i]
  OBVIOUS
<1>2. PICK f \in [0..n -> Decodes] :
        /\ f[0] = Blank /\ \A i \in 1..n : f[i] = DecodeNext(f[i - 1], s[i])
        /\ Text(s) = f[n].text
  BY TextRuns
<1>3. PICK g \in [0..(n + 1) -> Decodes] :
        /\ g[0] = Blank /\ \A i \in 1..(n + 1) : g[i] = DecodeNext(g[i - 1], u[i])
        /\ Text(u) = g[n + 1].text
  <2> HIDE DEF u, n
  <2>1. PICK m : m = n + 1 /\ m = Len(u)
    BY <1>1
  <2>2. \E g \in [0..m -> Decodes] :
          /\ g[0] = Blank /\ \A i \in 1..m : g[i] = DecodeNext(g[i - 1], u[i])
          /\ Text(u) = g[m].text
    BY <1>1, <2>1, TextRuns
  <2> QED BY <2>1, <2>2
<1> HIDE DEF u, n
<1>4. 0..n \subseteq {i \in 0..n : f[i] = g[i]}
  <2> DEFINE G == {i \in 0..n : f[i] = g[i]}
  <2>1. 0 \in G
    BY <1>1, <1>2, <1>3
  <2>2. ASSUME NEW i \in 1..n, i - 1 \in G PROVE i \in G
    <3>1. f[i] = DecodeNext(f[i - 1], s[i]) /\ s[i] = u[i] /\ i \in 0..n /\ i \in 1..(n + 1)
      BY <1>1, <1>2
    <3>2. g[i] = DecodeNext(g[i - 1], u[i])
      BY <1>3, <3>1
    <3> QED BY <2>2, <3>1, <3>2
  <2> HIDE DEF G
  <2>3. 0..n \subseteq G
    BY <1>1, <2>1, <2>2, Climb
  <2> QED BY <2>3 DEF G
<1>5. f[n] = g[n] /\ f[n] \in Decodes
  BY <1>1, <1>2, <1>4
<1>6. g[n + 1] = DecodeNext(f[n], t)
  <2>1. n + 1 \in 1..(n + 1) /\ (n + 1) - 1 = n
    BY <1>1
  <2>2. g[n + 1] = DecodeNext(g[n], u[n + 1])
    BY <1>3, <2>1
  <2> QED BY <2>2, <1>1, <1>5
<1>7. Grows(f[n].text, DecodeNext(f[n], t).text)
  BY <1>5, DecodeNextIs
<1> QED BY <1>2, <1>3, <1>6, <1>7 DEF u

\* A text is no longer than its tokens are many.
LEMMA TextIs ==
  ASSUME NEW s \in Seq(TokenIds)
  PROVE  /\ Text(s) \in Seq(Chars) /\ Len(Text(s)) \in Nat /\ Len(Text(s)) <= Len(s)
         /\ s = << >> => Text(s) = << >>
<1> DEFINE n == Len(s)
<1>1. n \in Nat /\ \A i \in 1..n : s[i] \in TokenIds
  OBVIOUS
<1>2. PICK f \in [0..n -> Decodes] :
        /\ f[0] = Blank /\ \A i \in 1..n : f[i] = DecodeNext(f[i - 1], s[i])
        /\ Text(s) = f[n].text
  BY TextRuns
<1> DEFINE G == {i \in 0..n : Len(f[i].text) <= i}
<1>3. 0 \in G
  BY <1>1, <1>2 DEF Blank
<1>4. ASSUME NEW i \in 1..n, i - 1 \in G PROVE i \in G
  <2>1. i - 1 \in 0..n /\ i \in 0..n /\ f[i - 1] \in Decodes /\ s[i] \in TokenIds
    BY <1>1, <1>2
  <2>2. PICK d : d = f[i - 1]
    OBVIOUS
  <2>3. f[i] = DecodeNext(d, s[i]) /\ d \in Decodes /\ Len(d.text) <= i - 1
    BY <1>2, <1>4, <2>1, <2>2
  <2>4. f[i] \in Decodes /\ Len(f[i].text) <= Len(d.text) + 1
    BY <2>1, <2>3, DecodeNextIs
  <2>5. Len(f[i].text) \in Nat /\ Len(d.text) \in Nat
    BY <2>3, <2>4 DEF Decodes
  <2>6. Len(f[i].text) <= i
    BY <2>1, <2>3, <2>4, <2>5
  <2> QED BY <2>1, <2>6
<1> HIDE DEF G, n
<1>5. 0..n \subseteq G
  BY <1>1, <1>3, <1>4, Climb
<1>6. n \in G /\ f[n] \in Decodes
  BY <1>1, <1>2, <1>5
<1>7. Text(s) \in Seq(Chars) /\ Len(Text(s)) <= n
  BY <1>2, <1>6 DEF G, Decodes
<1>8. ASSUME s = << >> PROVE Text(s) = << >>
  <2>1. n = 0
    BY <1>8 DEF n
  <2> QED BY <2>1, <1>2 DEF Blank
<1> QED BY <1>7, <1>8 DEF n

---------------------------------------------------------------------------
(* The states of the decoder.                                               *)

\* The first n elements of a sequence.
Upto(s, n) == SubSeq(s, 1, n)

LEMMA UptoIs ==
  ASSUME NEW S, NEW s \in Seq(S), NEW n \in 0..Len(s)
  PROVE  /\ Upto(s, n) \in Seq(S) /\ Len(Upto(s, n)) = n
         /\ \A i \in 1..n : Upto(s, n)[i] = s[i]
<1>1. n \in Int /\ n >= 0 /\ \A i \in 1..n : s[i] \in S
  OBVIOUS
<1>2. PICK f : f = SubSeq(s, 1, n)
  OBVIOUS
<1>3. /\ f \in Seq(S) /\ Len(f) = (IF 1 <= n THEN n - 1 + 1 ELSE 0)
      /\ \A i \in 1..(n - 1 + 1) : f[i] = s[1 + i - 1]
  BY ONLY <1>1, <1>2, SubSeqProperties
<1>4. Len(f) = n /\ \A i \in 1..n : f[i] = s[i]
  BY ONLY <1>1, <1>3
<1> QED BY <1>2, <1>3, <1>4 DEF Upto

\* Two sequences of one length with the same elements are the same.
LEMMA SameSeq ==
  ASSUME NEW S, NEW s \in Seq(S), NEW z \in Seq(S), Len(s) = Len(z),
         \A i \in 1..Len(s) : s[i] = z[i]
  PROVE  s = z
<1>1. s = [i \in 1..Len(s) |-> s[i]] /\ z = [i \in 1..Len(z) |-> z[i]]
  OBVIOUS
<1> QED BY <1>1

\* The first a elements, and those up to the b-th.
LEMMA UptoJoin ==
  ASSUME NEW S, NEW s \in Seq(S), NEW a \in Nat, NEW b \in Nat, a <= b, b <= Len(s)
  PROVE  Upto(s, a) \o SubSeq(s, a + 1, b) = Upto(s, b)
<1>1. Len(s) \in Nat /\ a \in 0..Len(s) /\ b \in 0..Len(s)
  OBVIOUS
<1>2. PICK x, y, z : x = Upto(s, a) /\ y = SubSeq(s, a + 1, b) /\ z = Upto(s, b)
  OBVIOUS
<1>3. x \in Seq(S) /\ Len(x) = a /\ \A i \in 1..a : x[i] = s[i]
  BY <1>1, <1>2, UptoIs
<1>4. z \in Seq(S) /\ Len(z) = b /\ \A i \in 1..b : z[i] = s[i]
  BY <1>1, <1>2, UptoIs
<1>5. y \in Seq(S) /\ Len(y) = b - a /\ \A i \in 1..(b - a) : y[i] = s[a + i]
  <2>1. PICK m : m = a + 1
    OBVIOUS
  <2>2. m \in Int /\ b \in Int /\ \A i \in m..b : s[i] \in S
    BY <2>1, <1>1
  <2>3. y = SubSeq(s, m, b)
    BY <1>2, <2>1
  <2>4. /\ y \in Seq(S) /\ Len(y) = (IF m <= b THEN b - m + 1 ELSE 0)
        /\ \A i \in 1..(b - m + 1) : y[i] = s[m + i - 1]
    BY ONLY <2>2, <2>3, SubSeqProperties
  <2>5. Len(y) = b - a /\ b - m + 1 = b - a
    BY <2>1, <2>4
  <2>6. \A i \in 1..(b - a) : y[i] = s[a + i]
    <3> TAKE i \in 1..(b - a)
    <3>1. y[i] = s[m + i - 1] /\ m + i - 1 = a + i
      BY <2>1, <2>4, <2>5
    <3> QED BY <3>1
  <2> QED BY <2>4, <2>5, <2>6
<1>6. PICK w : w = x \o y
  OBVIOUS
<1>7. /\ w \in Seq(S) /\ Len(w) = Len(x) + Len(y)
      /\ \A i \in 1..(Len(x) + Len(y)) : w[i] = IF i <= Len(x) THEN x[i] ELSE y[i - Len(x)]
  <2>1. x \in Seq(S) /\ y \in Seq(S)
    BY <1>3, <1>5
  <2> QED BY ONLY <1>6, <2>1, ConcatProperties
<1>8. /\ w \in Seq(S) /\ Len(w) = b
      /\ \A i \in 1..b : w[i] = IF i <= a THEN x[i] ELSE y[i - a]
  BY <1>3, <1>5, <1>7
<1>9. \A i \in 1..b : w[i] = z[i]
  <2> TAKE i \in 1..b
  <2>1. CASE i <= a
    <3>1. w[i] = x[i]
      BY ONLY <1>8, <2>1, i \in 1..b
    <3>2. i \in 1..a
      BY <2>1
    <3> QED BY ONLY <1>3, <1>4, <3>1, <3>2, i \in 1..b
  <2>2. CASE i > a
    <3>1. i - a \in 1..(b - a) /\ a + (i - a) = i
      BY <2>2
    <3>2. y[i - a] = s[i]
      BY ONLY <1>5, <3>1
    <3> QED BY <2>2, <3>2, <1>4, <1>8
  <2> QED BY <2>1, <2>2
<1>10. w = z
  BY <1>4, <1>8, <1>9, SameSeq
<1> QED BY <1>2, <1>6, <1>10

\* What goes out up to the boundary: all but replacement characters at the end.
Held(text, e) ==
  /\ e \in 0..Len(text)
  /\ \A i \in (e + 1)..Len(text) : text[i] = REPLACEMENT_CHAR

LEMMA SafeEndIs ==
  ASSUME NEW text \in Seq(Chars), NEW k \in 0..Len(text), NEW e, e = SafeEnd(text, k)
  PROVE  e \in k..Len(text) /\ Held(text, e) /\ (e = k \/ text[e] # REPLACEMENT_CHAR)
<1> DEFINE n == Len(text)
           Good(x) == /\ \A i \in (x + 1)..n : text[i] = REPLACEMENT_CHAR
                      /\ x = k \/ text[x] # REPLACEMENT_CHAR
<1>1. n \in Nat /\ k \in 0..n
  OBVIOUS
<1>2. CASE k >= n
  BY <1>1, <1>2 DEF SafeEnd, Held
<1>3. CASE k < n
  <2> DEFINE B == {x \in k..n : x = k \/ text[x] # REPLACEMENT_CHAR}
             Rest == {n - x : x \in B}
  <2>1. Rest \in SUBSET Nat /\ Rest # {}
    BY <1>1
  <2>2. PICK m \in Rest : \A y \in Rest : m <= y
    BY <2>1, LeastNat
  <2>3. PICK x \in B : m = n - x
    BY <2>2
  <2>4. \A i \in (x + 1)..n : text[i] = REPLACEMENT_CHAR
    <3> SUFFICES ASSUME NEW i \in (x + 1)..n, text[i] # REPLACEMENT_CHAR PROVE FALSE
      OBVIOUS
    <3>1. i \in B
      BY <2>3, <1>1
    <3>2. n - x <= n - i
      BY <2>2, <2>3, <3>1
    <3> QED BY <3>2, <2>3, <1>1
  <2>5. \E y \in k..n : Good(y)
    BY <2>3, <2>4
  <2>6. e = CHOOSE y \in k..n : Good(y)
    <3>1. ~(k >= Len(text))
      BY <1>3, <1>1
    <3>2. e = SafeEnd(text, k)
      OBVIOUS
    <3> QED BY ONLY <3>1, <3>2 DEF SafeEnd
  <2> HIDE DEF Good
  <2>7. e \in k..n /\ Good(e)
    BY <2>5, <2>6
  <2> QED BY <2>7, <1>1 DEF Held, Good
<1> QED BY <1>1, <1>2, <1>3

DecodeState == [token_ids : Seq(TokenIds), text : Seq(Chars), read_offset : Nat,
                output_text : Seq(Chars), finished : BOOLEAN]

\* A state knows the text of its tokens, and what went out is its beginning.
Sound(st) ==
  /\ st \in DecodeState
  /\ st.text = Text(st.token_ids)
  /\ Held(st.text, st.read_offset)
  /\ st.output_text = Upto(st.text, st.read_offset)

\* What went out ends with no replacement character, which could still change.
Settled(st) == st.read_offset = 0 \/ st.text[st.read_offset] # REPLACEMENT_CHAR

\* All went out.
AllOut(st) == st.read_offset = Len(st.text)

LEMMA NewStateIs == Sound(NewState) /\ Settled(NewState) /\ AllOut(NewState)
<1>1. << >> \in Seq(TokenIds) /\ << >> \in Seq(Chars) /\ Text(<< >>) = << >>
  <2>1. << >> \in Seq(TokenIds) /\ << >> \in Seq(Chars)
    OBVIOUS
  <2> QED BY <2>1, TextIs
<1>2. Upto(<< >>, 0) = << >> /\ Held(<< >>, 0)
  BY DEF Upto, Held
<1> QED BY <1>1, <1>2 DEF NewState, Sound, Settled, AllOut, DecodeState

\* A text that grows keeps what is settled of it.
LEMMA GrowsKeeps ==
  ASSUME NEW a \in Seq(Chars), NEW b \in Seq(Chars), Grows(a, b), NEW k \in 0..Len(a),
         k = 0 \/ a[k] # REPLACEMENT_CHAR
  PROVE  k \in 0..Len(b) /\ Upto(b, k) = Upto(a, k)
<1>1. Len(a) \in Nat /\ k \in Nat /\ k <= Len(a)
  OBVIOUS
<1>2. k <= Len(b) /\ \A i \in 1..k : b[i] = a[i]
  <2>1. CASE b = a
    BY <2>1, <1>1
  <2>2. CASE \E c \in Chars : b = Append(a, c)
    <3>1. PICK c \in Chars : b = Append(a, c)
      BY <2>2
    <3>2. Len(b) = Len(a) + 1 /\ \A i \in 1..Len(a) : b[i] = a[i]
      BY <3>1
    <3> QED BY <3>2, <1>1
  <2>3. CASE a # << >> /\ a[Len(a)] = REPLACEMENT_CHAR /\ b = Append(Front(a), "c")
    <3>1. PICK f : f = Front(a)
      OBVIOUS
    <3>2. f \in Seq(Chars) /\ Len(f) = Len(a) - 1 /\ \A i \in 1..(Len(a) - 1) : f[i] = a[i]
      BY <2>3, <3>1, FrontIs
    <3>3. b = Append(f, "c")
      BY <2>3, <3>1
    <3>4. Len(b) = Len(a) /\ \A i \in 1..(Len(a) - 1) : b[i] = a[i]
      BY ONLY <3>2, <3>3, <1>1
    <3>5. k = 0 \/ k <= Len(a) - 1
      BY <2>3, <1>1
    <3> QED BY <3>4, <3>5, <1>1
  <2> QED BY <2>1, <2>2, <2>3 DEF Grows
<1>3. k \in 0..Len(b)
  BY <1>1, <1>2
<1>4. PICK x, y : x = Upto(a, k) /\ y = Upto(b, k)
  OBVIOUS
<1>5. /\ x \in Seq(Chars) /\ Len(x) = k /\ \A i \in 1..k : x[i] = a[i]
      /\ y \in Seq(Chars) /\ Len(y) = k /\ \A i \in 1..k : y[i] = b[i]
  BY <1>3, <1>4, UptoIs
<1>6. x = y
  BY <1>2, <1>5, SameSeq
<1> QED BY <1>3, <1>4, <1>6

\* The text after a step and what went out before it.
Follows(st, full) ==
  /\ st \in DecodeState
  /\ full \in Seq(Chars) /\ st.read_offset \in 0..Len(full)
  /\ st.output_text = Upto(full, st.read_offset)

\* A state after the text up to the boundary went out.
Advanced(st, full, final, new) ==
  /\ new \in DecodeState /\ new.text = full
  /\ new.token_ids = st.token_ids /\ new.finished = st.finished
  /\ new.read_offset \in st.read_offset..Len(full)
  /\ Held(new.text, new.read_offset)
  /\ new.output_text = Upto(full, new.read_offset)
  /\ final => AllOut(new)
  /\ ~final /\ (st.read_offset = 0 \/ full[st.read_offset] # REPLACEMENT_CHAR) => Settled(new)

LEMMA AdvanceIs ==
  ASSUME NEW st, NEW full, Follows(st, full), NEW final \in BOOLEAN,
         NEW new, new = Advance(st, full, final)
  PROVE  Advanced(st, full, final, new)
<1>1. PICK k, e : k = st.read_offset /\ e = IF final THEN Len(full) ELSE SafeEnd(full, k)
  OBVIOUS
<1>2. /\ full \in Seq(Chars) /\ Len(full) \in Nat /\ k \in 0..Len(full) /\ k \in Nat
      /\ st.output_text = Upto(full, k)
  BY <1>1 DEF Follows
<1>3. e \in k..Len(full) /\ Held(full, e) /\ (~final => e = k \/ full[e] # REPLACEMENT_CHAR)
  <2>1. CASE final
    BY <2>1, <1>1, <1>2 DEF Held
  <2>2. CASE ~final
    BY <2>2, <1>1, <1>2, SafeEndIs
  <2> QED BY <2>1, <2>2
<1>4. PICK o : o = st.output_text \o SubSeq(full, k + 1, e)
  OBVIOUS
<1>5. new = [st EXCEPT !.text = full, !.read_offset = e, !.output_text = o]
  <2>1. new = [st EXCEPT !.text = full, !.read_offset = IF e > k THEN e ELSE k, !.output_text = o]
    BY <1>1, <1>4 DEF Advance, Follows, DecodeState
  <2>2. (IF e > k THEN e ELSE k) = e
    BY <1>2, <1>3
  <2> QED BY <2>1, <2>2
<1>6. o = Upto(full, e) /\ o \in Seq(Chars)
  <2>1. e \in Nat /\ k <= e /\ e <= Len(full) /\ e \in 0..Len(full)
    BY <1>2, <1>3
  <2>2. Upto(full, k) \o SubSeq(full, k + 1, e) = Upto(full, e)
    BY <1>2, <2>1, UptoJoin
  <2>3. Upto(full, e) \in Seq(Chars)
    BY <1>2, <2>1, UptoIs
  <2> QED BY <1>2, <1>4, <2>2, <2>3
<1>7. /\ new \in DecodeState /\ new.text = full /\ new.read_offset = e /\ new.output_text = o
      /\ new.token_ids = st.token_ids /\ new.finished = st.finished
  <2>1. st \in DecodeState /\ e \in Nat
    BY <1>2, <1>3 DEF Follows
  <2> QED BY ONLY <2>1, <1>2, <1>5, <1>6 DEF DecodeState
<1>8. final => AllOut(new)
  BY <1>1, <1>7 DEF AllOut
<1>9. ~final /\ (k = 0 \/ full[k] # REPLACEMENT_CHAR) => Settled(new)
  BY <1>3, <1>7 DEF Settled
<1> QED BY <1>1, <1>3, <1>4, <1>6, <1>7, <1>8, <1>9 DEF Advanced

\* What went out stays the beginning of the text.
Extends(st, new) ==
  st.read_offset \in 0..new.read_offset /\ st.output_text = Upto(new.text, st.read_offset)

LEMMA ExtendsDelta ==
  ASSUME NEW st, NEW new, Sound(new), Extends(st, new)
  PROVE  new.output_text = st.output_text \o Delta(st, new)
<1>1. PICK s, a, b : s = new.text /\ a = st.read_offset /\ b = new.read_offset
  OBVIOUS
<1>2. /\ s \in Seq(Chars) /\ b \in 0..Len(s) /\ a \in 0..b
      /\ st.output_text = Upto(s, a) /\ new.output_text = Upto(s, b)
  BY <1>1 DEF Sound, DecodeState, Held, Extends
<1>3. Upto(s, a) \o SubSeq(s, a + 1, b) = Upto(s, b)
  <2>1. s \in Seq(Chars) /\ a \in Nat /\ b \in Nat /\ a <= b /\ b <= Len(s)
    BY <1>2
  <2> QED BY ONLY <2>1, UptoJoin
<1> QED BY <1>1, <1>2, <1>3 DEF Delta

\* One token accepted, whatever text is found for it, as long as it is the text.
Accepted(st, t, new) ==
  /\ Sound(new) /\ (new.finished \/ Settled(new)) /\ Extends(st, new)
  /\ st.finished => new = st
  /\ ~st.finished => /\ new.token_ids = Append(st.token_ids, t)
                     /\ new.finished = (t = "eos")
                     /\ new.finished => AllOut(new)

LEMMA AcceptIs ==
  ASSUME NEW st, Sound(st), st.finished \/ Settled(st), NEW t \in TokenIds,
         NEW new, new = Accept(st, t, Text(Append(st.token_ids, t)))
  PROVE  Accepted(st, t, new)
<1>1. /\ st \in DecodeState /\ st.token_ids \in Seq(TokenIds)
      /\ st.text = Text(st.token_ids) /\ st.output_text = Upto(st.text, st.read_offset)
      /\ Held(st.text, st.read_offset)
  BY DEF Sound, DecodeState
<1>2. CASE st.finished
  <2>1. new = st
    BY <1>2 DEF Accept
  <2>2. Extends(st, st)
    BY <1>1 DEF DecodeState, Extends
  <2> QED BY <1>2, <2>1, <2>2 DEF Accepted
<1>3. CASE ~st.finished
  <2>1. PICK ids, full, k, final : /\ ids = Append(st.token_ids, t) /\ full = Text(ids)
                                   /\ k = st.read_offset /\ final = (t = "eos")
    OBVIOUS
  <2>2. ids \in Seq(TokenIds) /\ full \in Seq(Chars) /\ final \in BOOLEAN
    <3>1. ids \in Seq(TokenIds)
      BY <1>1, <2>1
    <3> QED BY <2>1, <3>1, TextIs
  <2>3. PICK z : z = [st EXCEPT !.token_ids = ids]
    OBVIOUS
  <2>4. /\ z \in DecodeState /\ z.token_ids = ids /\ z.text = st.text /\ z.read_offset = k
        /\ z.output_text = st.output_text /\ z.finished = st.finished
    BY <1>1, <2>1, <2>2, <2>3 DEF DecodeState
  <2>5. k \in 0..Len(full) /\ Upto(full, k) = Upto(st.text, k)
    <3>1. Grows(st.text, full)
      BY <1>1, <2>1, TextGrows
    <3>2. k \in 0..Len(st.text) /\ st.text \in Seq(Chars) /\ (k = 0 \/ st.text[k] # REPLACEMENT_CHAR)
      BY <1>1, <1>3, <2>1 DEF Held, Settled, DecodeState
    <3> QED BY <2>2, <3>1, <3>2, GrowsKeeps
  <2>6. Follows(z, full)
    BY <1>1, <2>1, <2>2, <2>4, <2>5 DEF Follows
  <2>7. PICK y : y = Advance(z, full, final)
    OBVIOUS
  <2>8. new = [y EXCEPT !.finished = (t = "eos")]
    BY <1>3, <2>1, <2>3, <2>7 DEF Accept
  <2>9. /\ y \in DecodeState /\ y.text = full
        /\ y.token_ids = ids /\ y.read_offset \in k..Len(full)
        /\ Held(y.text, y.read_offset)
        /\ y.output_text = Upto(full, y.read_offset)
        /\ final => AllOut(y)
        /\ ~final /\ (k = 0 \/ full[k] # REPLACEMENT_CHAR) => Settled(y)
    <3>1. Advanced(z, full, final, y)
      BY ONLY <2>2, <2>6, <2>7, AdvanceIs
    <3> QED BY ONLY <2>4, <3>1 DEF Advanced
  <2>10. /\ new \in DecodeState /\ new.text = full /\ new.token_ids = ids
         /\ new.read_offset = y.read_offset /\ new.output_text = y.output_text
         /\ new.finished = (t = "eos")
    BY <2>8, <2>9 DEF DecodeState
  <2>11. Sound(new)
    BY <2>1, <2>9, <2>10 DEF Sound
  <2>12. Extends(st, new)
    BY <1>1, <2>1, <2>5, <2>9, <2>10 DEF Extends
  <2>13. k = 0 \/ full[k] # REPLACEMENT_CHAR
    <3> SUFFICES ASSUME k # 0 PROVE full[k] # REPLACEMENT_CHAR
      OBVIOUS
    <3>1. st.text[k] # REPLACEMENT_CHAR
      BY <1>3, <2>1 DEF Settled
    <3>2. k \in 1..k /\ k \in 0..Len(st.text) /\ st.text \in Seq(Chars)
      BY <1>1, <2>1 DEF Held, DecodeState
    <3>3. Upto(full, k)[k] = full[k]
      BY <2>2, <2>5, <3>2, UptoIs
    <3>4. Upto(st.text, k)[k] = st.text[k]
      BY <3>2, UptoIs
    <3> QED BY <2>5, <3>1, <3>3, <3>4
  <2>14. new.finished \/ Settled(new)
    BY <2>1, <2>9, <2>10, <2>13 DEF Settled
  <2>15. new.finished => AllOut(new)
    BY <2>1, <2>9, <2>10 DEF AllOut
  <2> QED BY <1>3, <2>1, <2>10, <2>11, <2>12, <2>14, <2>15 DEF Accepted
<1> QED BY <1>2, <1>3

\* flush: all goes out.
Drained(st, new) ==
  /\ Sound(new) /\ AllOut(new) /\ Extends(st, new)
  /\ new.token_ids = st.token_ids /\ new.text = st.text /\ new.finished = st.finished
  /\ new.output_text = Text(st.token_ids)

LEMMA FlushedIs ==
  ASSUME NEW st, Sound(st), NEW new, new = Flushed(st, Text(st.token_ids))
  PROVE  Drained(st, new)
<1>1. /\ st \in DecodeState /\ st.token_ids \in Seq(TokenIds) /\ st.text \in Seq(Chars)
      /\ st.text = Text(st.token_ids) /\ st.output_text = Upto(st.text, st.read_offset)
      /\ Held(st.text, st.read_offset) /\ st.read_offset \in 0..Len(st.text)
  BY DEF Sound, DecodeState, Held
<1>2. CASE st.token_ids = << >>
  <2>1. new = st /\ st.text = << >>
    BY <1>1, <1>2, TextIs DEF Flushed
  <2>2. st.read_offset = 0
    BY <1>1, <2>1
  <2>3. Extends(st, new) /\ st.output_text = << >>
    BY <1>1, <2>1, <2>2 DEF Extends, Upto
  <2> QED BY <1>1, <2>1, <2>2, <2>3 DEF AllOut, Drained
<1>3. CASE st.token_ids # << >>
  <2>1. PICK full : full = Text(st.token_ids)
    OBVIOUS
  <2>2. new = Advance(st, full, TRUE)
    BY <1>3, <2>1 DEF Flushed
  <2>3. Follows(st, full)
    BY <1>1, <2>1 DEF Follows
  <2>4. /\ new \in DecodeState /\ new.text = full
        /\ new.token_ids = st.token_ids /\ new.finished = st.finished
        /\ Held(new.text, new.read_offset)
        /\ new.output_text = Upto(full, new.read_offset)
        /\ new.read_offset \in st.read_offset..Len(full)
        /\ AllOut(new)
    <3>1. Advanced(st, full, TRUE, new)
      <4>1. TRUE \in BOOLEAN
        OBVIOUS
      <4> QED BY ONLY <2>2, <2>3, <4>1, AdvanceIs
    <3> QED BY ONLY <3>1 DEF Advanced
  <2>5. Upto(full, Len(full)) = full
    BY <1>1, <2>1 DEF Upto
  <2>6. Extends(st, new)
    BY <1>1, <2>1, <2>4 DEF Extends
  <2> QED BY <1>1, <2>1, <2>4, <2>5, <2>6 DEF Sound, AllOut, Drained
<1> QED BY <1>2, <1>3

---------------------------------------------------------------------------
(* The decoder on its own.                                                  *)

\* The decoder's instance has the same operators.
LEMMA SameText ==
  ASSUME NEW ids
  PROVE  D!Text(ids) = Text(ids)
  BY DEF D!Text, Text, D!DecodeNext, DecodeNext, D!REPLACEMENT_CHAR, REPLACEMENT_CHAR,
         D!Front, Front

LEMMA SameOps ==
  ASSUME NEW st, NEW new, NEW t, NEW full
  PROVE  /\ D!Delta(st, new) = Delta(st, new)
         /\ D!Accept(st, t, full) = Accept(st, t, full)
         /\ D!Flushed(st, full) = Flushed(st, full)
         /\ D!NewState = NewState
<1> USE DEF D!SafeEnd, SafeEnd, D!REPLACEMENT_CHAR, REPLACEMENT_CHAR
<1>1. D!Delta(st, new) = Delta(st, new)
  BY DEF D!Delta, Delta
<1>2. D!Accept(st, t, full) = Accept(st, t, full)
  BY DEF D!Accept, Accept, D!Advance, Advance
<1>3. D!Flushed(st, full) = Flushed(st, full)
  BY DEF D!Flushed, Flushed, D!Advance, Advance
<1>4. D!NewState = NewState
  BY DEF D!NewState, NewState
<1> QED BY <1>1, <1>2, <1>3, <1>4

\* The state of a request, the text handed out for it and whether it was flushed.
Fine(st, out, ended) ==
  /\ Sound(st) /\ Len(st.token_ids) <= MaxDecoded
  /\ out = st.output_text
  /\ st.finished \/ ended \/ Settled(st)
  /\ st.finished \/ ended => AllOut(st)

LEMMA FreshIsFine == Fine(NewState, << >>, FALSE)
<1>1. Len(NewState.token_ids) = 0 /\ NewState.output_text = << >> /\ NewState.finished = FALSE
  BY DEF NewState
<1> QED BY <1>1, NewStateIs, DecoderAssumption DEF Fine

LEMMA AcceptIsFine ==
  ASSUME NEW st, NEW out, Fine(st, out, FALSE), Len(st.token_ids) < MaxDecoded,
         NEW t \in TokenIds, NEW new, new = Accept(st, t, Text(Append(st.token_ids, t)))
  PROVE  Fine(new, out \o Delta(st, new), FALSE)
<1>1. Accepted(st, t, new)
  <2>1. Sound(st) /\ (st.finished \/ Settled(st))
    BY DEF Fine
  <2> QED BY ONLY <2>1, t \in TokenIds, new = Accept(st, t, Text(Append(st.token_ids, t))), AcceptIs
<1>2. st.token_ids \in Seq(TokenIds)
  BY DEF Fine, Sound, DecodeState
<1>3. Sound(new) /\ (new.finished \/ Settled(new)) /\ out \o Delta(st, new) = new.output_text
  BY <1>1, ExtendsDelta DEF Accepted, Fine
<1>4. CASE st.finished
  BY <1>1, <1>3, <1>4 DEF Accepted, Fine
<1>5. CASE ~st.finished
  <2>1. new.token_ids = Append(st.token_ids, t) /\ (new.finished => AllOut(new))
    BY <1>1, <1>5 DEF Accepted
  <2>2. Len(new.token_ids) <= MaxDecoded
    BY <1>2, <2>1, DecoderAssumption
  <2> QED BY <1>3, <2>1, <2>2 DEF Fine
<1> QED BY <1>4, <1>5

LEMMA FlushedIsFine ==
  ASSUME NEW st, NEW out, NEW ended, Fine(st, out, ended),
         NEW new, new = Flushed(st, Text(st.token_ids))
  PROVE  Fine(new, out \o Delta(st, new), TRUE)
<1>1. Sound(st)
  BY DEF Fine
<1>2. Drained(st, new)
  BY ONLY <1>1, new = Flushed(st, Text(st.token_ids)), FlushedIs
<1>3. new.output_text = out \o Delta(st, new)
  BY <1>2, ExtendsDelta DEF Drained, Fine
<1> QED BY <1>2, <1>3 DEF Drained, Fine

\* The cache: no key twice, every text that of its key, and within its size.
CacheInv ==
  /\ cache \in Seq([key : Seq(TokenIds), text : Seq(Chars)])
  /\ \A i \in 1..Len(cache) : cache[i].text = Text(cache[i].key)
  /\ \A i, j \in 1..Len(cache) : cache[i].key = cache[j].key => i = j
  /\ Len(cache) <= CacheSize \/ CacheSize = 1

\* The decoder.
DecoderInv ==
  /\ DOMAIN states \subseteq Requests
  /\ \A r \in Requests : Fine(D!StateOf(r), sent[r], r \in flushed)
  /\ sent \in [Requests -> Seq(Chars)]
  /\ flushed \subseteq DOMAIN states
  /\ CacheInv

LEMMA CacheTextIs ==
  ASSUME CacheInv, NEW ids \in Seq(TokenIds)
  PROVE  D!CacheText(ids) = Text(ids)
<1>1. DOMAIN cache = 1..Len(cache)
  BY DEF CacheInv
<1>2. CASE D!Cached(ids)
  <2>1. PICK i : i = CHOOSE x \in DOMAIN cache : cache[x].key = ids
    OBVIOUS
  <2>2. i \in DOMAIN cache /\ cache[i].key = ids
    BY <1>2, <2>1 DEF D!Cached
  <2>3. D!CacheText(ids) = cache[i].text
    BY <1>2, <2>1 DEF D!CacheText, D!CacheKey
  <2> QED BY <1>1, <2>2, <2>3 DEF CacheInv
<1>3. CASE ~D!Cached(ids)
  BY <1>3, SameText DEF D!CacheText, D!CacheKey
<1> QED BY <1>2, <1>3

\* The sequence from its k-th element on.
LEMMA FromIs ==
  ASSUME NEW S, NEW s \in Seq(S), NEW k \in 1..(Len(s) + 1), NEW f, f = SubSeq(s, k, Len(s))
  PROVE  /\ f \in Seq(S) /\ Len(f) = Len(s) - k + 1
         /\ \A i \in 1..Len(f) : f[i] = s[k + i - 1]
<1>1. PICK n : n = Len(s)
  OBVIOUS
<1>2. n \in Nat /\ k \in Int /\ n \in Int /\ 1 <= k /\ k <= n + 1 /\ \A i \in k..n : s[i] \in S
  BY <1>1
<1>3. f = SubSeq(s, k, n)
  BY <1>1
<1>4. /\ f \in Seq(S) /\ Len(f) = (IF k <= n THEN n - k + 1 ELSE 0)
      /\ \A i \in 1..(n - k + 1) : f[i] = s[k + i - 1]
  BY ONLY <1>2, <1>3, SubSeqProperties
<1> QED BY <1>1, <1>2, <1>4

LEMMA CacheAfterIs ==
  ASSUME CacheInv, NEW ids \in Seq(TokenIds), cache' = D!CacheAfter(ids)
  PROVE  CacheInv'
<1> DEFINE Entry == [key : Seq(TokenIds), text : Seq(Chars)]
<1>0. CacheSize \in Nat /\ CacheSize >= 1
  BY DecoderAssumption
<1>1. CASE D!Cached(ids)
  <2>1. cache' = cache
    BY <1>1 DEF D!CacheAfter, D!CacheKey
  <2> QED BY <2>1 DEF CacheInv
<1>2. CASE ~D!Cached(ids)
  <2>1. PICK kept, e : /\ kept = IF Len(cache) >= CacheSize
                                   THEN SubSeq(cache, CacheSize \div 2 + 1, Len(cache)) ELSE cache
                       /\ e = [key |-> ids, text |-> Text(ids)]
    OBVIOUS
  <2>2. cache' = Append(kept, e)
    BY <1>2, <2>1, SameText DEF D!CacheAfter, D!CacheKey
  <2>3. e \in Entry /\ e.key = ids /\ e.text = Text(ids)
    BY <2>1, TextIs
  <2>4. cache \in Seq(Entry) /\ Len(cache) \in Nat /\ DOMAIN cache = 1..Len(cache)
    BY DEF CacheInv
  <2>5. PICK k \in 1..(Len(cache) + 1) :
          /\ kept \in Seq(Entry) /\ Len(kept) = Len(cache) - k + 1
          /\ \A i \in 1..Len(kept) : kept[i] = cache[k + i - 1]
          /\ Len(kept) < CacheSize \/ CacheSize = 1
    <3>1. CASE Len(cache) >= CacheSize
      <4>1. PICK k : k = CacheSize \div 2 + 1
        OBVIOUS
      <4>2. k \in 1..(Len(cache) + 1) /\ (CacheSize = 1 \/ k >= 2)
        BY <1>0, <2>4, <3>1, <4>1
      <4>3. kept = SubSeq(cache, k, Len(cache))
        BY <2>1, <3>1, <4>1
      <4> HIDE DEF Entry
      <4>4. /\ kept \in Seq(Entry) /\ Len(kept) = Len(cache) - k + 1
            /\ \A i \in 1..Len(kept) : kept[i] = cache[k + i - 1]
        BY <2>4, <4>2, <4>3, FromIs
      <4>5. Len(kept) < CacheSize \/ CacheSize = 1
        BY <1>0, <2>4, <4>2, <4>4 DEF CacheInv
      <4> QED BY <4>2, <4>4, <4>5
    <3>2. CASE ~(Len(cache) >= CacheSize)
      <4>1. kept = cache /\ 1 \in 1..(Len(cache) + 1) /\ Len(cache) < CacheSize
        BY <1>0, <2>1, <2>4, <3>2
      <4>2. Len(cache) = Len(cache) - 1 + 1 /\ \A i \in 1..Len(cache) : cache[i] = cache[1 + i - 1]
        BY <2>4
      <4> QED BY <2>4, <4>1, <4>2
    <3> QED BY <3>1, <3>2
  <2>6. \A i \in 1..Len(kept) : k + i - 1 \in 1..Len(cache) /\ kept[i] = cache[k + i - 1]
    BY <2>4, <2>5
  <2>7. PICK n : n = Len(kept)
    OBVIOUS
  <2>8. /\ n \in Nat /\ cache' \in Seq(Entry) /\ Len(cache') = n + 1 /\ cache'[n + 1] = e
        /\ \A i \in 1..n : cache'[i] = kept[i]
    <3> HIDE DEF Entry
    <3> QED BY <2>2, <2>3, <2>5, <2>7
  <2>9. \A i \in 1..(n + 1) : i = n + 1 \/ i \in 1..n
    BY <2>8
  <2>10. \A i \in 1..n : /\ k + i - 1 \in 1..Len(cache)
                         /\ cache'[i] = cache[k + i - 1]
                         /\ cache'[i].text = Text(cache'[i].key) /\ cache'[i].key # ids
    <3> TAKE i \in 1..n
    <3>1. PICK j : j = k + i - 1
      OBVIOUS
    <3>2. j \in 1..Len(cache) /\ cache'[i] = cache[j]
      BY <2>6, <2>7, <2>8, <3>1
    <3>3. cache[j].text = Text(cache[j].key)
      BY <3>2 DEF CacheInv
    <3>4. cache[j].key # ids
      BY <1>2, <2>4, <3>2 DEF D!Cached
    <3> QED BY <3>1, <3>2, <3>3, <3>4
  <2>11. \A i \in 1..(n + 1) : cache'[i].text = Text(cache'[i].key)
    BY <2>3, <2>8, <2>9, <2>10
  <2>12. ASSUME NEW i \in 1..(n + 1), NEW j \in 1..(n + 1), cache'[i].key = cache'[j].key
         PROVE  i = j
    <3>1. CASE i \in 1..n /\ j \in 1..n
      <4>1. PICK a, b : a = k + i - 1 /\ b = k + j - 1
        OBVIOUS
      <4>2. a \in 1..Len(cache) /\ b \in 1..Len(cache) /\ cache[a].key = cache[b].key
        BY <2>10, <2>12, <3>1, <4>1
      <4>3. a = b
        BY <4>2 DEF CacheInv
      <4> QED BY <2>5, <3>1, <4>1, <4>3
    <3>2. CASE i = n + 1 /\ j \in 1..n
      BY <2>3, <2>8, <2>10, <2>12, <3>2
    <3>3. CASE i \in 1..n /\ j = n + 1
      BY <2>3, <2>8, <2>10, <2>12, <3>3
    <3> QED BY <2>9, <3>1, <3>2, <3>3
  <2>13. Len(cache') <= CacheSize \/ CacheSize = 1
    BY <1>0, <2>5, <2>7, <2>8
  <2> QED BY <2>8, <2>11, <2>12, <2>13 DEF CacheInv
<1> QED BY <1>1, <1>2

\* What every step keeps: the states of the requests in R are new, the others as
\* they were.
LEMMA Keeps ==
  ASSUME DecoderInv, NEW R \in SUBSET Requests, NEW new, DOMAIN new = R,
         states' = D!StatesWith(new),
         sent' = [r \in Requests |-> IF r \in R THEN sent[r] \o D!Delta(D!StateOf(r), new[r])
                                     ELSE sent[r]],
         flushed' \subseteq flushed \cup R,
         \A r \in Requests \ R : r \in flushed' <=> r \in flushed,
         \A r \in R : Fine(new[r], sent[r] \o Delta(D!StateOf(r), new[r]), r \in flushed'),
         CacheInv'
  PROVE  DecoderInv'
<1>1. /\ DOMAIN states \subseteq Requests /\ \A r \in Requests : Fine(D!StateOf(r), sent[r], r \in flushed)
      /\ sent \in [Requests -> Seq(Chars)] /\ flushed \subseteq DOMAIN states
  BY DEF DecoderInv
<1>2. states' = [r \in R \cup DOMAIN states |-> IF r \in R THEN new[r] ELSE states[r]]
  BY DEF D!StatesWith
<1>3. DOMAIN states' = R \cup DOMAIN states
  BY <1>2
<1>4. \A r \in Requests : /\ r \in R => D!StateOf(r)' = new[r]
                          /\ r \notin R => D!StateOf(r)' = D!StateOf(r)
  <2> TAKE r \in Requests
  <2>1. CASE r \in R
    BY <1>2, <1>3, <2>1 DEF D!StateOf
  <2>2. CASE r \notin R
    BY <1>2, <1>3, <2>2 DEF D!StateOf, D!NewState
  <2> QED BY <2>1, <2>2
<1>5. \A r \in Requests : sent'[r] = IF r \in R THEN sent[r] \o Delta(D!StateOf(r), new[r]) ELSE sent[r]
  BY SameOps
<1>6. \A r \in Requests : Fine(D!StateOf(r)', sent'[r], r \in flushed')
  <2> TAKE r \in Requests
  <2>1. CASE r \in R
    BY <1>4, <1>5, <2>1
  <2>2. CASE r \notin R
    <3>1. Fine(D!StateOf(r), sent[r], r \in flushed) /\ (r \in flushed') = (r \in flushed)
      BY <1>1, <2>2
    <3> QED BY <1>4, <1>5, <2>2, <3>1
  <2> QED BY <2>1, <2>2
<1>7. \A r \in Requests : sent'[r] \in Seq(Chars)
  BY <1>6 DEF Fine, Sound, DecodeState
<1>8. sent' \in [Requests -> Seq(Chars)]
  BY <1>7
<1>9. flushed' \subseteq DOMAIN states' /\ DOMAIN states' \subseteq Requests
  BY <1>1, <1>3
<1> QED BY <1>6, <1>8, <1>9 DEF DecoderInv

LEMMA DecoderInitIs ==
  ASSUME D!DecoderInit
  PROVE  DecoderInv
<1>1. /\ states = << >> /\ cache = << >> /\ sent = [r \in Requests |-> << >>] /\ flushed = {}
  BY DEF D!DecoderInit
<1>2. DOMAIN states = {}
  BY <1>1
<1>3. ASSUME NEW r \in Requests PROVE Fine(D!StateOf(r), sent[r], r \in flushed)
  <2>1. D!StateOf(r) = NewState
    BY <1>2, SameOps DEF D!StateOf
  <2>2. sent[r] = << >> /\ (r \in flushed) = FALSE
    BY <1>1
  <2> QED BY <2>1, <2>2, FreshIsFine
<1>4. CacheInv
  <2>1. Len(cache) = 0 /\ cache \in Seq([key : Seq(TokenIds), text : Seq(Chars)])
    BY <1>1
  <2> QED BY <2>1, DecoderAssumption DEF CacheInv
<1>5. sent \in [Requests -> Seq(Chars)]
  BY <1>1
<1> QED BY <1>1, <1>2, <1>3, <1>4, <1>5 DEF DecoderInv

LEMMA DecodeKeeps ==
  ASSUME DecoderInv, NEW r \in Requests, NEW t \in TokenIds, D!Decode(r, t)
  PROVE  DecoderInv'
<1>1. PICK st, ids, full : st = D!StateOf(r) /\ ids = Append(st.token_ids, t) /\ full = D!CacheText(ids)
  OBVIOUS
<1>2. PICK n : n = D!Accept(st, t, full)
  OBVIOUS
<1>3. PICK new : new = [q \in {r} |-> n]
  OBVIOUS
<1>4. /\ D!Open(r) /\ states' = D!StatesWith(new)
      /\ cache' = IF st.finished THEN cache ELSE D!CacheAfter(ids)
      /\ sent' = [sent EXCEPT ![r] = @ \o D!Delta(st, n)] /\ flushed' = flushed
  BY <1>1, <1>2, <1>3 DEF D!Decode
<1>5. r \notin flushed /\ Len(st.token_ids) < MaxDecoded
  BY <1>1, <1>4 DEF D!Open
<1>6. Fine(st, sent[r], FALSE)
  <2>1. Fine(D!StateOf(r), sent[r], r \in flushed) /\ (r \in flushed) = FALSE
    BY <1>5 DEF DecoderInv
  <2> QED BY <1>1, <2>1
<1>7. ids \in Seq(TokenIds) /\ CacheInv
  BY <1>1, <1>6 DEF Fine, Sound, DecodeState, DecoderInv
<1>8. n = Accept(st, t, Text(ids))
  BY <1>1, <1>2, <1>7, CacheTextIs, SameOps
<1>9. Fine(n, sent[r] \o Delta(st, n), FALSE)
  <2>1. n = Accept(st, t, Text(Append(st.token_ids, t)))
    BY <1>1, <1>8
  <2>2. PICK out : out = sent[r]
    OBVIOUS
  <2>3. Fine(st, out, FALSE) /\ Len(st.token_ids) < MaxDecoded /\ t \in TokenIds
    BY <1>5, <1>6, <2>2
  <2>4. Fine(n, out \o Delta(st, n), FALSE)
    BY ONLY <2>1, <2>3, AcceptIsFine
  <2> QED BY <2>2, <2>4
<1>10. CacheInv'
  <2>1. CASE st.finished
    <3>1. cache' = cache
      BY <1>4, <2>1
    <3> QED BY <1>7, <3>1 DEF CacheInv
  <2>2. CASE ~st.finished
    <3>1. cache' = D!CacheAfter(ids)
      BY <1>4, <2>2
    <3> QED BY <1>7, <3>1, CacheAfterIs
  <2> QED BY <2>1, <2>2
<1>11. sent' = [q \in Requests |-> IF q \in {r} THEN sent[q] \o D!Delta(D!StateOf(q), new[q]) ELSE sent[q]]
  BY <1>1, <1>3, <1>4 DEF DecoderInv
<1>12. \A q \in {r} : Fine(new[q], sent[q] \o Delta(D!StateOf(q), new[q]), q \in flushed')
  <2>1. (r \in flushed') = FALSE
    BY <1>4, <1>5
  <2> QED BY <1>1, <1>3, <1>9, <2>1
<1> QED
  <2>1. DOMAIN new = {r} /\ {r} \in SUBSET Requests
    BY <1>3
  <2> QED BY <1>4, <1>10, <1>11, <1>12, <2>1, Keeps

LEMMA DecodeBatchKeeps ==
  ASSUME DecoderInv, NEW R \in SUBSET Requests, NEW toks \in [R -> TokenIds], D!DecodeBatch(toks)
  PROVE  DecoderInv'
<1>1. PICK new : new = [r \in R |-> D!Accept(D!StateOf(r), toks[r],
                                             D!Text(Append(D!StateOf(r).token_ids, toks[r])))]
  OBVIOUS
<1>2. /\ \A r \in R : D!Open(r)
      /\ states' = D!StatesWith(new)
      /\ sent' = [r \in Requests |-> IF r \in R THEN sent[r] \o D!Delta(D!StateOf(r), new[r])
                                     ELSE sent[r]]
      /\ cache' = cache /\ flushed' = flushed
  BY <1>1 DEF D!DecodeBatch
<1>3. ASSUME NEW r \in R
      PROVE  Fine(new[r], sent[r] \o Delta(D!StateOf(r), new[r]), r \in flushed')
  <2>1. PICK st, out, t, n : st = D!StateOf(r) /\ out = sent[r] /\ t = toks[r] /\ n = new[r]
    OBVIOUS
  <2>2. r \notin flushed /\ Len(st.token_ids) < MaxDecoded /\ t \in TokenIds
    BY <1>2, <2>1 DEF D!Open
  <2>3. Fine(st, out, FALSE)
    <3>1. Fine(D!StateOf(r), sent[r], r \in flushed) /\ (r \in flushed) = FALSE
      BY <2>2 DEF DecoderInv
    <3> QED BY <2>1, <3>1
  <2>4. n = Accept(st, t, Text(Append(st.token_ids, t)))
    BY <1>1, <2>1, SameOps, SameText
  <2>5. Fine(n, out \o Delta(st, n), FALSE)
    BY ONLY <2>2, <2>3, <2>4, AcceptIsFine
  <2>6. (r \in flushed') = FALSE
    BY <1>2, <2>2
  <2> QED BY <2>1, <2>5, <2>6
<1>4. CacheInv'
  BY <1>2 DEF DecoderInv, CacheInv
<1> QED
  <2>1. DOMAIN new = R
    BY <1>1
  <2>2. flushed' \subseteq flushed \cup R /\ \A r \in Requests \ R : r \in flushed' <=> r \in flushed
    BY <1>2
  <2>3. /\ states' = D!StatesWith(new)
        /\ sent' = [r \in Requests |-> IF r \in R THEN sent[r] \o D!Delta(D!StateOf(r), new[r])
                                       ELSE sent[r]]
    BY <1>2
  <2> HIDE <1>2
  <2> QED BY <1>3, <1>4, <2>1, <2>2, <2>3, Keeps

LEMMA FlushKeeps ==
  ASSUME DecoderInv, NEW r \in Requests, D!Flush(r)
  PROVE  DecoderInv'
<1>1. PICK st, ids : st = states[r] /\ ids = st.token_ids
  OBVIOUS
<1>2. PICK n : n = D!Flushed(st, D!CacheText(ids))
  OBVIOUS
<1>3. PICK new : new = [q \in {r} |-> n]
  OBVIOUS
<1>4. /\ r \in DOMAIN states
      /\ states' = [states EXCEPT ![r] = n]
      /\ cache' = IF ids = << >> THEN cache ELSE D!CacheAfter(ids)
      /\ sent' = [sent EXCEPT ![r] = @ \o D!Delta(st, n)]
      /\ flushed' = flushed \cup {r}
  BY <1>1, <1>2 DEF D!Flush
<1>5. st = D!StateOf(r) /\ Fine(st, sent[r], r \in flushed)
  BY <1>1, <1>4 DEF D!StateOf, DecoderInv
<1>6. ids \in Seq(TokenIds) /\ CacheInv
  BY <1>1, <1>5 DEF Fine, Sound, DecodeState, DecoderInv
<1>7. n = Flushed(st, Text(st.token_ids))
  BY <1>1, <1>2, <1>6, CacheTextIs, SameOps
<1>8. Fine(n, sent[r] \o Delta(st, n), TRUE)
  <2>1. PICK out, ended : out = sent[r] /\ ended = (r \in flushed)
    OBVIOUS
  <2>2. Fine(st, out, ended)
    BY <1>5, <2>1
  <2>3. Fine(n, out \o Delta(st, n), TRUE)
    BY ONLY <1>7, <2>2, FlushedIsFine
  <2> QED BY <2>1, <2>3
<1>9. CacheInv'
  <2>1. CASE ids = << >>
    <3>1. cache' = cache
      BY <1>4, <2>1
    <3> QED BY <1>6, <3>1 DEF CacheInv
  <2>2. CASE ids # << >>
    <3>1. cache' = D!CacheAfter(ids)
      BY <1>4, <2>2
    <3> QED BY <1>6, <3>1, CacheAfterIs
  <2> QED BY <2>1, <2>2
<1>10. sent' = [q \in Requests |-> IF q \in {r} THEN sent[q] \o D!Delta(D!StateOf(q), new[q]) ELSE sent[q]]
  BY <1>3, <1>4, <1>5 DEF DecoderInv
<1>11. states' = D!StatesWith(new)
  BY <1>3, <1>4 DEF D!StatesWith
<1>12. \A q \in {r} : Fine(new[q], sent[q] \o Delta(D!StateOf(q), new[q]), q \in flushed')
  <2>1. (r \in flushed') = TRUE
    BY <1>4
  <2> QED BY <1>3, <1>5, <1>8, <2>1
<1>13. DOMAIN new = {r} /\ {r} \in SUBSET Requests
  BY <1>3
<1>14. flushed' \subseteq flushed \cup {r} /\ \A q \in Requests \ {r} : q \in flushed' <=> q \in flushed
  BY <1>4
<1> QED BY <1>9, <1>10, <1>11, <1>12, <1>13, <1>14, Keeps

LEMMA CleanupKeeps ==
  ASSUME DecoderInv, NEW r \in Requests, D!Cleanup(r)
  PROVE  DecoderInv'
<1>1. /\ r \in DOMAIN states
      /\ states' = [q \in DOMAIN states \ {r} |-> states[q]]
      /\ sent' = [sent EXCEPT ![r] = << >>]
      /\ flushed' = flushed \ {r} /\ cache' = cache
  BY DEF D!Cleanup
<1>2. /\ DOMAIN states \subseteq Requests /\ \A q \in Requests : Fine(D!StateOf(q), sent[q], q \in flushed)
      /\ sent \in [Requests -> Seq(Chars)] /\ flushed \subseteq DOMAIN states /\ CacheInv
  BY DEF DecoderInv
<1>3. DOMAIN states' = DOMAIN states \ {r}
  BY <1>1
<1>4. ASSUME NEW q \in Requests PROVE Fine(D!StateOf(q)', sent'[q], q \in flushed')
  <2>1. CASE q = r
    <3>1. D!StateOf(q)' = NewState
      BY <1>3, <2>1, SameOps DEF D!StateOf, D!NewState
    <3>2. sent'[q] = << >> /\ (q \in flushed') = FALSE
      BY <1>1, <1>2, <2>1
    <3> QED BY <3>1, <3>2, FreshIsFine
  <2>2. CASE q # r
    <3>1. D!StateOf(q)' = D!StateOf(q)
      BY <1>1, <1>3, <2>2 DEF D!StateOf, D!NewState
    <3>2. sent'[q] = sent[q] /\ (q \in flushed') = (q \in flushed)
      BY <1>1, <1>2, <2>2
    <3> QED BY <1>2, <3>1, <3>2
  <2> QED BY <2>1, <2>2
<1>5. sent' \in [Requests -> Seq(Chars)]
  BY <1>1, <1>2
<1>6. CacheInv'
  BY <1>1, <1>2 DEF CacheInv
<1> QED BY <1>1, <1>2, <1>3, <1>4, <1>5, <1>6 DEF DecoderInv

LEMMA ClearCacheKeeps ==
  ASSUME DecoderInv, D!ClearCache
  PROVE  DecoderInv'
<1>1. cache' = << >> /\ states' = states /\ sent' = sent /\ flushed' = flushed
  BY DEF D!ClearCache
<1>2. CacheInv'
  <2>1. Len(cache') = 0 /\ cache' \in Seq([key : Seq(TokenIds), text : Seq(Chars)])
    BY <1>1
  <2> QED BY <2>1, DecoderAssumption DEF CacheInv
<1>3. \A q \in Requests : D!StateOf(q)' = D!StateOf(q)
  BY <1>1 DEF D!StateOf, D!NewState
<1> QED BY <1>1, <1>2, <1>3 DEF DecoderInv

LEMMA DecoderNextKeeps ==
  ASSUME DecoderInv, D!DecoderNext
  PROVE  DecoderInv'
<1>1. CASE \E r \in Requests, t \in TokenIds : D!Decode(r, t)
  BY <1>1, DecodeKeeps
<1>2. CASE \E R \in SUBSET Requests : \E toks \in [R -> TokenIds] : D!DecodeBatch(toks)
  BY <1>2, DecodeBatchKeeps
<1>3. CASE \E r \in Requests : D!Flush(r) \/ D!Cleanup(r)
  BY <1>3, FlushKeeps, CleanupKeeps
<1>4. CASE D!ClearCache
  BY <1>4, ClearCacheKeeps
<1> QED BY <1>1, <1>2, <1>3, <1>4 DEF D!DecoderNext

LEMMA DecoderStutters ==
  ASSUME DecoderInv, UNCHANGED D!dvars
  PROVE  DecoderInv'
<1>1. states' = states /\ cache' = cache /\ sent' = sent /\ flushed' = flushed
  BY DEF D!dvars
<1>2. \A q \in Requests : D!StateOf(q)' = D!StateOf(q)
  BY <1>1 DEF D!StateOf, D!NewState
<1> QED BY <1>1, <1>2 DEF DecoderInv, CacheInv

\* In the decoder's part.
LEMMA DecoderInvariance == Spec => [](part = "decoder" => DecoderInv)
<1>1. Init => (part = "decoder" => DecoderInv)
  BY DecoderInitIs DEF Init
<1>2. ASSUME part = "decoder" => DecoderInv, [Next]_vars
      PROVE  (part = "decoder" => DecoderInv)'
  <2> SUFFICES ASSUME part' = "decoder" PROVE DecoderInv'
    OBVIOUS
  <2>1. part = "decoder" /\ (D!DecoderNext \/ UNCHANGED vars)
    BY <1>2 DEF Next, vars
  <2>2. DecoderInv
    BY <1>2, <2>1
  <2>3. CASE D!DecoderNext
    BY <2>2, <2>3, DecoderNextKeeps
  <2>4. CASE UNCHANGED vars
    <3>1. UNCHANGED D!dvars
      BY <2>4 DEF vars, svars, D!dvars
    <3> QED BY <2>2, <3>1, DecoderStutters
  <2> QED BY <2>1, <2>3, <2>4
<1> QED BY <1>1, <1>2, PTL DEF Spec

LEMMA StateOfIs ==
  ASSUME DecoderInv, NEW r \in DOMAIN states
  PROVE  r \in Requests /\ Fine(states[r], sent[r], r \in flushed)
<1>1. r \in Requests /\ D!StateOf(r) = states[r]
  BY DEF DecoderInv, D!StateOf
<1>2. Fine(D!StateOf(r), sent[r], r \in flushed)
  BY <1>1 DEF DecoderInv
<1> QED BY <1>1, <1>2

\* What detokenizer.py hands out for a request is never taken back by a later token:
\* it is the beginning of the decode of all its tokens, as long as read_offset says;
\* what it keeps back is a possibly incomplete character at the end, nothing once the
\* request has ended.
THEOREM DeltasAreWholeTheorem == Spec => []DeltasAreWhole
<1>1. ASSUME DecoderInv PROVE D!SentIsPrefix /\ D!HeldBackIsIncomplete
  <2>1. ASSUME NEW r \in DOMAIN states
        PROVE  /\ sent[r] = SubSeq(Text(states[r].token_ids), 1, states[r].read_offset)
               /\ sent[r] = states[r].output_text
               /\ Len(sent[r]) = states[r].read_offset
               /\ \A i \in (states[r].read_offset + 1)..Len(Text(states[r].token_ids)) :
                     Text(states[r].token_ids)[i] = REPLACEMENT_CHAR
               /\ states[r].finished \/ r \in flushed
                    => states[r].read_offset = Len(Text(states[r].token_ids))
    <3>1. PICK st, out, ended : st = states[r] /\ out = sent[r] /\ ended = (r \in flushed)
      OBVIOUS
    <3>2. Fine(st, out, ended)
      BY <1>1, <2>1, <3>1, StateOfIs
    <3>3. /\ out = st.output_text /\ out = Upto(st.text, st.read_offset) /\ st.text \in Seq(Chars)
          /\ st.text = Text(st.token_ids) /\ Held(st.text, st.read_offset)
          /\ (st.finished \/ ended => st.read_offset = Len(st.text))
      BY <3>2 DEF Fine, Sound, DecodeState, AllOut
    <3>4. Len(out) = st.read_offset
      BY <3>3, UptoIs DEF Held
    <3> QED BY <3>1, <3>3, <3>4 DEF Held, Upto
  <2> QED BY <2>1, SameText DEF D!SentIsPrefix, D!HeldBackIsIncomplete, D!REPLACEMENT_CHAR,
                                REPLACEMENT_CHAR
<1>2. (part = "decoder" => DecoderInv) => DeltasAreWhole
  BY <1>1 DEF DeltasAreWhole
<1> QED BY <1>2, DecoderInvariance, PTL

\* _decode_with_cache returns the text of the tokens it is asked about, whatever was
\* put in, thrown out and cleared before, and its cache stays within its size.
THEOREM CacheTransparentTheorem == Spec => []CacheTransparent
<1>1. ASSUME DecoderInv PROVE D!DecoderTypeOK
  <2>1. ASSUME NEW r \in DOMAIN states
        PROVE  /\ states[r].token_ids \in Seq(TokenIds) /\ Len(states[r].token_ids) <= MaxDecoded
               /\ states[r].read_offset \in 0..Len(states[r].token_ids)
    <3>1. PICK st, out, ended : st = states[r] /\ out = sent[r] /\ ended = (r \in flushed)
      OBVIOUS
    <3>2. Fine(st, out, ended)
      BY <1>1, <2>1, <3>1, StateOfIs
    <3>3. /\ st.token_ids \in Seq(TokenIds) /\ Len(st.token_ids) <= MaxDecoded
          /\ st.read_offset \in 0..Len(Text(st.token_ids)) /\ st.read_offset \in Nat
      BY <3>2 DEF Fine, Sound, DecodeState, Held
    <3>4. Len(Text(st.token_ids)) \in Nat /\ Len(Text(st.token_ids)) <= Len(st.token_ids)
      BY <3>3, TextIs
    <3> QED BY <3>1, <3>3, <3>4
  <2>2. sent \in [Requests -> Seq(Chars)] /\ flushed \subseteq DOMAIN states
        /\ DOMAIN states \subseteq Requests
    BY <1>1 DEF DecoderInv
  <2> QED BY <2>1, <2>2 DEF D!DecoderTypeOK, Chars, D!REPLACEMENT_CHAR, REPLACEMENT_CHAR
<1>2. ASSUME DecoderInv PROVE D!CacheTransparent
  <2>1. CacheInv /\ DOMAIN cache = 1..Len(cache)
    BY <1>2 DEF DecoderInv, CacheInv
  <2>2. ASSUME NEW r \in DOMAIN states
        PROVE  D!CacheText(states[r].token_ids) = D!Text(states[r].token_ids)
    <3>1. Fine(states[r], sent[r], r \in flushed)
      BY <1>2, <2>2, StateOfIs
    <3>2. states[r].token_ids \in Seq(TokenIds)
      BY <3>1 DEF Fine, Sound, DecodeState
    <3> QED BY <2>1, <3>2, CacheTextIs, SameText
  <2> QED BY <2>1, <2>2 DEF D!CacheTransparent, CacheInv
<1>3. (part = "decoder" => DecoderInv) => CacheTransparent
  BY <1>1, <1>2 DEF CacheTransparent
<1> QED BY <1>3, DecoderInvariance, PTL

---------------------------------------------------------------------------
(* The decoder inside the engine.                                           *)

ReqRecord == [state : {"new", "live", "done"}, output_ids : Seq(TokenIds),
              is_retracted : BOOLEAN, ever_retracted : BOOLEAN]

\* A request that has not ended: q is its Req, st its decoder state, which is blank
\* if it has none, out the text handed out, ignores whether it ignores EOS, and seen
\* whether stream_generate decoded all its tokens.  A retraction drops the output at
\* once, the state only with the result of a batch.
Unfinished(q, st, out, ignores, seen) ==
  /\ q.state \in {"new", "live"}
  /\ Len(q.output_ids) < MaxTokens
  /\ q.is_retracted => q.output_ids = << >> /\ q.ever_retracted
  /\ Sound(st) /\ (st.finished \/ Settled(st))
  /\ seen /\ ~q.is_retracted => IF st.finished THEN ignores /\ "eos" \in Range(q.output_ids)
                                ELSE st.token_ids = q.output_ids
  /\ seen /\ ~q.ever_retracted => out = st.output_text

Ended(q, out, ignores, seen) ==
  /\ q.state = "done"
  /\ Len(q.output_ids) <= MaxTokens
  /\ seen /\ ~q.ever_retracted /\ ~(ignores /\ "eos" \in Range(Front(q.output_ids)))
       => out = Text(q.output_ids)

Standing(q, st, out, ignores, seen) ==
  /\ q \in ReqRecord
  /\ Unfinished(q, st, out, ignores, seen) \/ Ended(q, out, ignores, seen)

StateNow(r) == IF r \in DOMAIN states THEN states[r] ELSE NewState

Batches == UNION {SetToSeqs(R) : R \in SUBSET Requests}

\* The records: batches of requests that are live or done.
RecordsInv ==
  /\ records \in Seq(Batches) /\ Len(records) <= 2
  /\ \A i \in 1..Len(records) : Range(records[i]) \subseteq Live \cup Done

EngineInv ==
  /\ ignore_eos \subseteq Requests /\ undecoded \subseteq Requests
  /\ caller \in {"none", "stream", "generate"} /\ streaming \in BOOLEAN
  /\ req \in [Requests -> ReqRecord]
  /\ DOMAIN delivered = Requests
  /\ DOMAIN states \subseteq Live
  /\ RecordsInv
  /\ \A r \in Requests :
       Standing(req[r], StateNow(r), delivered[r], r \in ignore_eos, r \notin undecoded)

\* A token, and the flush of a request it ends.
Moved(st, t, ends, new) ==
  /\ Sound(new) /\ Extends(st, new)
  /\ ~ends => new.finished \/ Settled(new)
  /\ ends => new.output_text = Text(new.token_ids)
  /\ st.finished => new.finished
  /\ ~st.finished => new.token_ids = Append(st.token_ids, t) /\ new.finished = (t = "eos")

LEMMA AfterTokenIs ==
  ASSUME NEW st, Sound(st), st.finished \/ Settled(st), NEW t \in TokenIds, NEW ends \in BOOLEAN,
         NEW r, NEW new, new = AfterToken(st, r, t, ends)
  PROVE  Moved(st, t, ends, new)
<1>1. PICK acc : acc = Accept(st, t, Text(Append(st.token_ids, t)))
  OBVIOUS
<1>2. Accepted(st, t, acc)
  BY ONLY <1>1, Sound(st), st.finished \/ Settled(st), t \in TokenIds, AcceptIs
<1>3. CASE ~ends
  <2>1. new = acc
    BY <1>1, <1>3 DEF AfterToken
  <2> QED BY <1>2, <1>3, <2>1 DEF Accepted, Moved
<1>4. CASE ends
  <2>1. new = Flushed(acc, Text(acc.token_ids))
    BY <1>1, <1>4 DEF AfterToken
  <2>2. Sound(acc)
    BY <1>2 DEF Accepted
  <2>3. Drained(acc, new)
    BY ONLY <2>1, <2>2, FlushedIs
  <2>4. Extends(st, new)
    <3>1. /\ st.read_offset \in 0..acc.read_offset /\ st.output_text = Upto(acc.text, st.read_offset)
          /\ acc.read_offset \in 0..new.read_offset /\ acc.text = new.text
      BY <1>2, <2>3 DEF Accepted, Drained, Extends
    <3>2. new.read_offset \in Nat
      BY <2>3 DEF Drained, Sound, DecodeState
    <3> QED BY <3>1, <3>2 DEF Extends
  <2> QED BY <1>2, <1>4, <2>3, <2>4 DEF Accepted, Drained, Moved
<1> QED BY <1>3, <1>4

LEMMA FrontAppend ==
  ASSUME NEW S, NEW s \in Seq(S), NEW t \in S
  PROVE  Front(Append(s, t)) = s
<1>1. PICK u, f : u = Append(s, t) /\ f = Front(u)
  OBVIOUS
<1>2. u \in Seq(S) /\ u # << >> /\ Len(u) = Len(s) + 1 /\ \A i \in 1..Len(s) : u[i] = s[i]
  BY <1>1
<1>3. f \in Seq(S) /\ Len(f) = Len(u) - 1 /\ \A i \in 1..(Len(u) - 1) : f[i] = u[i]
  BY ONLY <1>1, <1>2, FrontIs
<1>4. Len(f) = Len(s) /\ \A i \in 1..Len(s) : f[i] = s[i]
  BY <1>2, <1>3
<1>5. f = s
  BY <1>3, <1>4, SameSeq
<1> QED BY <1>1, <1>5

LEMMA RangeAppend ==
  ASSUME NEW S, NEW s \in Seq(S), NEW t \in S
  PROVE  Range(Append(s, t)) = Range(s) \cup {t}
<1>1. PICK u, n : u = Append(s, t) /\ n = Len(s)
  OBVIOUS
<1>2. /\ n \in Nat /\ DOMAIN u = 1..(n + 1) /\ DOMAIN s = 1..n /\ u[n + 1] = t
      /\ \A i \in 1..n : u[i] = s[i]
  BY <1>1
<1>3. Range(u) \subseteq Range(s) \cup {t}
  <2> SUFFICES ASSUME NEW i \in 1..(n + 1) PROVE u[i] \in Range(s) \cup {t}
    BY <1>2 DEF Range
  <2>1. CASE i = n + 1
    BY <1>2, <2>1
  <2>2. CASE i # n + 1
    BY <1>2, <2>2 DEF Range
  <2> QED BY <2>1, <2>2
<1>4. t \in Range(u)
  BY <1>2 DEF Range
<1>5. ASSUME NEW i \in 1..n PROVE s[i] \in Range(u)
  <2>1. i \in DOMAIN u /\ u[i] = s[i]
    BY <1>2
  <2> QED BY <2>1 DEF Range
<1>6. Range(s) \subseteq Range(u)
  BY <1>2, <1>5 DEF Range
<1> QED BY <1>1, <1>3, <1>4, <1>6

\* A token for a live request, with ids its output behind it.
Gets(q, st, out, ignores, seen, t, ids, ends, next) ==
  /\ q \in ReqRecord /\ Unfinished(q, st, out, ignores, seen)
  /\ q.state = "live" /\ ~q.is_retracted
  /\ t \in TokenIds /\ ids = Append(q.output_ids, t)
  /\ ends = ((t = "eos" /\ ~ignores) \/ Len(ids) >= MaxTokens)
  /\ next = [q EXCEPT !.output_ids = ids, !.state = IF ends THEN "done" ELSE @]

LEMMA GetsIs ==
  ASSUME NEW q, NEW st, NEW out, NEW ignores, NEW seen, NEW t, NEW ids, NEW ends, NEW next,
         Gets(q, st, out, ignores, seen, t, ids, ends, next)
  PROVE  /\ q.output_ids \in Seq(TokenIds) /\ ids \in Seq(TokenIds)
         /\ Len(ids) <= MaxTokens /\ ends \in BOOLEAN /\ (~ends => Len(ids) < MaxTokens)
         /\ next \in ReqRecord
         /\ next.output_ids = ids /\ next.state = (IF ends THEN "done" ELSE "live")
         /\ next.is_retracted = FALSE /\ next.ever_retracted = q.ever_retracted
<1>1. q \in ReqRecord /\ q.state = "live" /\ ~q.is_retracted /\ Len(q.output_ids) < MaxTokens
  BY DEF Gets, Unfinished
<1>2. q.output_ids \in Seq(TokenIds) /\ t \in TokenIds /\ ids = Append(q.output_ids, t)
  BY <1>1 DEF Gets, ReqRecord
<1>3. ids \in Seq(TokenIds) /\ Len(ids) = Len(q.output_ids) + 1 /\ Len(q.output_ids) \in Nat
  BY <1>2
<1>4. Len(ids) <= MaxTokens /\ ends \in BOOLEAN /\ (~ends => Len(ids) < MaxTokens)
  <2>1. PICK n, m : n = Len(ids) /\ m = Len(q.output_ids)
    OBVIOUS
  <2>2. m \in Nat /\ n = m + 1 /\ m < MaxTokens /\ MaxTokens \in Nat
    BY <1>1, <1>3, <2>1, StreamingAssumption
  <2>3. n <= MaxTokens /\ (~(n >= MaxTokens) => n < MaxTokens)
    BY ONLY <2>2
  <2>4. ends = ((t = "eos" /\ ~ignores) \/ n >= MaxTokens)
    BY <2>1 DEF Gets
  <2>5. ends \in BOOLEAN /\ (~ends => ~(n >= MaxTokens))
    BY ONLY <2>4
  <2> QED BY <2>1, <2>3, <2>5
<1>5. next = [q EXCEPT !.output_ids = ids, !.state = IF ends THEN "done" ELSE @]
  BY DEF Gets
<1>6. /\ next \in ReqRecord
      /\ next.output_ids = ids /\ next.state = (IF ends THEN "done" ELSE "live")
      /\ next.is_retracted = FALSE /\ next.ever_retracted = q.ever_retracted
  BY ONLY <1>1, <1>3, <1>4, <1>5 DEF ReqRecord
<1> QED BY <1>2, <1>3, <1>4, <1>6

\* It is decoded.
LEMMA StreamedKeeps ==
  ASSUME NEW q, NEW st, NEW out, NEW ignores, NEW seen, NEW t, NEW ids, NEW ends, NEW next,
         Gets(q, st, out, ignores, seen, t, ids, ends, next),
         NEW r, NEW new, new = AfterToken(st, r, t, ends),
         NEW left, left = IF ends THEN NewState ELSE new
  PROVE  Standing(next, left, out \o Delta(st, new), ignores, seen)
<1>1. /\ q.output_ids \in Seq(TokenIds) /\ ids \in Seq(TokenIds)
      /\ Len(ids) <= MaxTokens /\ ends \in BOOLEAN /\ (~ends => Len(ids) < MaxTokens)
      /\ next \in ReqRecord
      /\ next.output_ids = ids /\ next.state = (IF ends THEN "done" ELSE "live")
      /\ next.is_retracted = FALSE /\ next.ever_retracted = q.ever_retracted
  BY ONLY Gets(q, st, out, ignores, seen, t, ids, ends, next), GetsIs
<1>2. /\ ~q.is_retracted /\ t \in TokenIds /\ ids = Append(q.output_ids, t)
      /\ ends = ((t = "eos" /\ ~ignores) \/ Len(ids) >= MaxTokens)
      /\ Sound(st) /\ (st.finished \/ Settled(st))
      /\ seen => IF st.finished THEN ignores /\ "eos" \in Range(q.output_ids)
                 ELSE st.token_ids = q.output_ids
      /\ seen /\ ~q.ever_retracted => out = st.output_text
  BY DEF Gets, Unfinished
<1>3. Moved(st, t, ends, new)
  <2>1. new = AfterToken(st, r, t, ends)
    OBVIOUS
  <2> QED BY ONLY <1>1, <1>2, <2>1, AfterTokenIs
<1>4. Sound(new) /\ new.output_text = st.output_text \o Delta(st, new)
  BY <1>3, ExtendsDelta DEF Moved
<1>5. Range(ids) = Range(q.output_ids) \cup {t} /\ Front(ids) = q.output_ids
  BY <1>1, <1>2, RangeAppend, FrontAppend
<1>6. CASE ~ends
  <2>1. left = new /\ (new.finished \/ Settled(new))
    BY <1>3, <1>6 DEF Moved
  <2>2. ASSUME seen, new.finished PROVE ignores /\ "eos" \in Range(ids)
    BY <1>2, <1>3, <1>5, <1>6, <2>2 DEF Moved
  <2>3. ASSUME seen, ~new.finished PROVE new.token_ids = ids
    BY <1>2, <1>3, <2>3 DEF Moved
  <2>4. seen /\ ~q.ever_retracted => out \o Delta(st, new) = new.output_text
    BY <1>2, <1>4
  <2>5. Unfinished(next, new, out \o Delta(st, new), ignores, seen)
    BY <1>1, <1>4, <1>6, <2>1, <2>2, <2>3, <2>4 DEF Unfinished
  <2> QED BY <1>1, <2>1, <2>5 DEF Standing
<1>7. CASE ends
  <2>1. ASSUME seen, ~q.ever_retracted, ~(ignores /\ "eos" \in Range(Front(ids)))
        PROVE  out \o Delta(st, new) = Text(ids)
    <3>1. ~st.finished /\ st.token_ids = q.output_ids /\ out = st.output_text
      BY <1>2, <1>5, <2>1
    <3>2. new.token_ids = ids /\ new.output_text = Text(new.token_ids)
      BY <1>2, <1>3, <1>7, <3>1 DEF Moved
    <3> QED BY <1>4, <3>1, <3>2
  <2>2. Ended(next, out \o Delta(st, new), ignores, seen)
    BY <1>1, <1>7, <2>1 DEF Ended
  <2> QED BY <1>1, <2>2 DEF Standing
<1> QED BY <1>6, <1>7

\* It is not decoded.
LEMMA UnstreamedKeeps ==
  ASSUME NEW q, NEW st, NEW out, NEW ignores, NEW seen, NEW t, NEW ids, NEW ends, NEW next,
         Gets(q, st, out, ignores, seen, t, ids, ends, next),
         NEW after
  PROVE  Standing(next, IF ends THEN NewState ELSE st, after, ignores, FALSE)
<1>1. /\ Len(ids) <= MaxTokens /\ ends \in BOOLEAN /\ (~ends => Len(ids) < MaxTokens)
      /\ next \in ReqRecord
      /\ next.output_ids = ids /\ next.state = (IF ends THEN "done" ELSE "live")
      /\ next.is_retracted = FALSE
  BY ONLY Gets(q, st, out, ignores, seen, t, ids, ends, next), GetsIs
<1>2. Sound(st) /\ (st.finished \/ Settled(st))
  BY DEF Gets, Unfinished
<1>3. CASE ends
  <2>1. Ended(next, after, ignores, FALSE)
    BY <1>1, <1>3 DEF Ended
  <2> QED BY <1>1, <2>1 DEF Standing
<1>4. CASE ~ends
  <2>1. Unfinished(next, st, after, ignores, FALSE)
    BY <1>1, <1>2, <1>4 DEF Unfinished
  <2> QED BY <1>1, <1>4, <2>1 DEF Standing
<1> QED BY <1>3, <1>4

\* The result of a retracted request.
LEMMA GoneKeeps ==
  ASSUME NEW q, NEW st, NEW out, NEW ignores, NEW seen, q \in ReqRecord, q.is_retracted,
         Unfinished(q, st, out, ignores, seen),
         NEW next, next = [q EXCEPT !.is_retracted = FALSE]
  PROVE  Standing(next, NewState, out, ignores, seen)
<1>1. /\ next \in ReqRecord /\ next.output_ids = q.output_ids /\ next.state = q.state
      /\ next.is_retracted = FALSE /\ next.ever_retracted = q.ever_retracted
  BY DEF ReqRecord
<1>2. Sound(NewState) /\ Settled(NewState) /\ NewState.finished = FALSE /\ NewState.token_ids = << >>
  BY NewStateIs DEF NewState
<1>3. /\ q.output_ids = << >> /\ q.ever_retracted /\ q.state \in {"new", "live"}
      /\ Len(q.output_ids) < MaxTokens
  BY DEF Unfinished
<1>4. Unfinished(next, NewState, out, ignores, seen)
  BY <1>1, <1>2, <1>3 DEF Unfinished
<1> QED BY <1>1, <1>4 DEF Standing

LEMMA EngineInitIs ==
  ASSUME StreamingInit
  PROVE  EngineInv
<1>1. /\ ignore_eos \in SUBSET Requests /\ caller = "none" /\ streaming = FALSE
      /\ req = [r \in Requests |-> Idle] /\ records = << >> /\ states = << >>
      /\ delivered = [r \in Requests |-> << >>] /\ undecoded = {}
  BY DEF StreamingInit
<1>2. DOMAIN states = {} /\ Len(records) = 0 /\ records \in Seq(Batches)
  BY <1>1
<1>3. Idle \in ReqRecord /\ Idle.state = "new" /\ Idle.output_ids = << >> /\ Len(Idle.output_ids) = 0
      /\ Idle.is_retracted = FALSE /\ Idle.ever_retracted = FALSE
  BY DEF Idle, ReqRecord
<1>4. ASSUME NEW r \in Requests
      PROVE  Standing(req[r], StateNow(r), delivered[r], r \in ignore_eos, r \notin undecoded)
  <2>1. PICK ignores, seen : ignores = (r \in ignore_eos) /\ seen = (r \notin undecoded)
    OBVIOUS
  <2>2. StateNow(r) = NewState /\ req[r] = Idle /\ delivered[r] = << >>
    BY <1>1, <1>2 DEF StateNow
  <2>3. Sound(NewState) /\ Settled(NewState) /\ NewState.finished = FALSE
        /\ NewState.token_ids = << >> /\ NewState.output_text = << >>
    BY NewStateIs DEF NewState
  <2>4. Unfinished(Idle, NewState, << >>, ignores, seen)
    BY <1>3, <2>3, StreamingAssumption DEF Unfinished
  <2> QED BY <1>3, <2>1, <2>2, <2>4 DEF Standing
<1>5. req \in [Requests -> ReqRecord] /\ DOMAIN delivered = Requests
  BY <1>1, <1>3
<1>6. RecordsInv
  BY <1>2 DEF RecordsInv
<1>7. DOMAIN states \subseteq Live /\ ignore_eos \subseteq Requests /\ undecoded \subseteq Requests
      /\ caller \in {"none", "stream", "generate"} /\ streaming \in BOOLEAN
  BY <1>1, <1>2
<1> QED BY <1>4, <1>5, <1>6, <1>7 DEF EngineInv

\* The requests that are live or done may only become more.
LEMMA RecordsKeep ==
  ASSUME RecordsInv, records' = records, Live \cup Done \subseteq Live' \cup Done'
  PROVE  RecordsInv'
  BY DEF RecordsInv

LEMMA StartKeeps ==
  ASSUME EngineInv, NEW R \in SUBSET Requests, NEW who \in {"stream", "generate"}, Start(R, who)
  PROVE  EngineInv'
<1>1. /\ \A r \in R : req[r].state = "new"
      /\ req' = [r \in Requests |-> IF r \in R THEN [req[r] EXCEPT !.state = "live"] ELSE req[r]]
      /\ caller' = who /\ streaming' = (streaming \/ who = "stream")
      /\ UNCHANGED <<ignore_eos, records, states, delivered, undecoded>>
  BY DEF Start, Add
<1>2. /\ ignore_eos \subseteq Requests /\ undecoded \subseteq Requests
      /\ req \in [Requests -> ReqRecord] /\ DOMAIN delivered = Requests
      /\ DOMAIN states \subseteq Live /\ RecordsInv
      /\ \A r \in Requests :
           Standing(req[r], StateNow(r), delivered[r], r \in ignore_eos, r \notin undecoded)
  BY DEF EngineInv
<1>3. \A r \in Requests : StateNow(r)' = StateNow(r)
  BY <1>1 DEF StateNow
<1>4. ASSUME NEW r \in Requests
      PROVE  /\ Standing(req'[r], StateNow(r)', delivered'[r], (r \in ignore_eos)', (r \notin undecoded)')
             /\ req[r].state \in {"live", "done"} => req'[r] = req[r]
  <2>1. PICK q, st, out, ignores, seen, next :
          /\ q = req[r] /\ st = StateNow(r) /\ out = delivered[r] /\ ignores = (r \in ignore_eos)
          /\ seen = (r \notin undecoded) /\ next = req'[r]
    OBVIOUS
  <2>2. Standing(q, st, out, ignores, seen)
    BY <1>2, <2>1
  <2>3. st = StateNow(r)' /\ out = delivered'[r] /\ ignores = (r \in ignore_eos)'
        /\ seen = (r \notin undecoded)'
    BY <1>1, <1>3, <2>1
  <2>4. CASE r \in R
    <3>1. q.state = "new" /\ next = [q EXCEPT !.state = "live"]
      BY <1>1, <2>1, <2>4
    <3>2. q \in ReqRecord /\ Unfinished(q, st, out, ignores, seen)
      BY <2>2, <3>1 DEF Standing, Ended
    <3>3. /\ next \in ReqRecord /\ next.state = "live" /\ next.output_ids = q.output_ids
          /\ next.is_retracted = q.is_retracted /\ next.ever_retracted = q.ever_retracted
      BY ONLY <3>1, <3>2 DEF ReqRecord
    <3>4. Standing(next, st, out, ignores, seen)
      BY <3>2, <3>3 DEF Unfinished, Standing
    <3> QED BY <2>1, <2>3, <3>1, <3>4
  <2>5. CASE r \notin R
    <3>1. next = q
      BY <1>1, <2>1, <2>5
    <3> QED BY <2>1, <2>2, <2>3, <3>1
  <2> QED BY <2>4, <2>5
<1>5. Live \subseteq Live' /\ Done \subseteq Done'
  BY <1>4 DEF Live, Done
<1>6. RecordsInv'
  BY <1>1, <1>2, <1>5, RecordsKeep
<1>7. req' \in [Requests -> ReqRecord]
  <2>1. \A r \in Requests : req'[r] \in ReqRecord
    BY <1>4 DEF Standing
  <2> QED BY <1>1, <2>1
<1>8. DOMAIN states' \subseteq Live'
  BY <1>1, <1>2, <1>5
<1>9. caller' \in {"none", "stream", "generate"} /\ streaming' \in BOOLEAN
  BY <1>1 DEF EngineInv
<1> QED BY <1>1, <1>2, <1>4, <1>6, <1>7, <1>8, <1>9 DEF EngineInv

LEMMA ReturnKeeps ==
  ASSUME EngineInv, Return
  PROVE  EngineInv'
<1>1. /\ caller' = "none" /\ streaming' \in BOOLEAN
      /\ UNCHANGED <<ignore_eos, req, records, states, delivered, undecoded>>
  BY DEF Return, EngineInv
<1>2. \A r \in Requests : StateNow(r)' = StateNow(r)
  BY <1>1 DEF StateNow
<1>3. Live' = Live /\ Done' = Done
  BY <1>1 DEF Live, Done
<1> QED BY <1>1, <1>2, <1>3 DEF EngineInv, RecordsInv

LEMMA LaunchKeeps ==
  ASSUME EngineInv, NEW R \in SUBSET Requests, NEW b \in SetToSeqs(R), Launch(b)
  PROVE  EngineInv'
<1>1. /\ Len(records) <= 1 /\ Range(b) \subseteq Live /\ records' = Append(records, b)
      /\ UNCHANGED <<ignore_eos, caller, streaming, req, states, delivered, undecoded>>
  BY DEF Launch
<1>2. \A r \in Requests : StateNow(r)' = StateNow(r)
  BY <1>1 DEF StateNow
<1>3. Live' = Live /\ Done' = Done
  BY <1>1 DEF Live, Done
<1>4. RecordsInv'
  <2>1. b \in Batches
    BY DEF Batches
  <2>2. records \in Seq(Batches) /\ Len(records) \in Nat
        /\ \A i \in 1..Len(records) : Range(records[i]) \subseteq Live \cup Done
    BY DEF EngineInv, RecordsInv
  <2>3. /\ records' \in Seq(Batches) /\ Len(records') = Len(records) + 1
        /\ records'[Len(records) + 1] = b /\ \A i \in 1..Len(records) : records'[i] = records[i]
    BY <1>1, <2>1, <2>2
  <2>4. ASSUME NEW i \in 1..Len(records') PROVE Range(records'[i]) \subseteq Live' \cup Done'
    <3>1. i \in 1..Len(records) \/ i = Len(records) + 1
      BY <2>2, <2>3
    <3> QED BY <1>1, <1>3, <2>2, <2>3, <3>1
  <2>5. Len(records') <= 2
    BY <1>1, <2>2, <2>3
  <2> QED BY <2>3, <2>4, <2>5 DEF RecordsInv
<1> QED BY <1>1, <1>2, <1>3, <1>4 DEF EngineInv

LEMMA RetractKeeps ==
  ASSUME EngineInv, NEW r \in Requests, Retract(r)
  PROVE  EngineInv'
<1>1. /\ r \in Live
      /\ req' = [req EXCEPT ![r].output_ids = << >>, ![r].is_retracted = TRUE,
                            ![r].ever_retracted = TRUE]
      /\ UNCHANGED <<ignore_eos, caller, streaming, records, states, delivered, undecoded>>
  BY DEF Retract
<1>2. /\ req \in [Requests -> ReqRecord] /\ DOMAIN states \subseteq Live /\ RecordsInv
      /\ \A q \in Requests :
           Standing(req[q], StateNow(q), delivered[q], q \in ignore_eos, q \notin undecoded)
  BY DEF EngineInv
<1>3. \A q \in Requests : StateNow(q)' = StateNow(q)
  BY <1>1 DEF StateNow
<1>4. PICK old : old = req[r]
  OBVIOUS
<1>5. old \in ReqRecord /\ old.state = "live"
  BY <1>1, <1>2, <1>4 DEF Live
<1>6. PICK next : next = [old EXCEPT !.output_ids = << >>, !.is_retracted = TRUE, !.ever_retracted = TRUE]
  OBVIOUS
<1>7. /\ next \in ReqRecord /\ next.output_ids = << >> /\ next.is_retracted = TRUE
      /\ next.ever_retracted = TRUE /\ next.state = "live"
  <2>1. << >> \in Seq(TokenIds)
    OBVIOUS
  <2> QED BY ONLY <2>1, <1>5, <1>6 DEF ReqRecord
<1>8. req' = [req EXCEPT ![r] = next]
  BY <1>1, <1>2, <1>4, <1>6
<1>9. req' \in [Requests -> ReqRecord] /\ req'[r] = next /\ \A q \in Requests \ {r} : req'[q] = req[q]
  BY <1>2, <1>7, <1>8
<1>10. Live' = Live /\ Done' = Done
  <2>1. \A q \in Requests : req'[q].state = req[q].state
    BY <1>4, <1>5, <1>7, <1>9
  <2> QED BY <2>1 DEF Live, Done
<1>11. ASSUME NEW q \in Requests
       PROVE  Standing(req'[q], StateNow(q)', delivered'[q], (q \in ignore_eos)', (q \notin undecoded)')
  <2>1. PICK st, out, ignores, seen :
          /\ st = StateNow(q) /\ out = delivered[q] /\ ignores = (q \in ignore_eos)
          /\ seen = (q \notin undecoded)
    OBVIOUS
  <2>2. Standing(req[q], st, out, ignores, seen)
    BY <1>2, <2>1
  <2>3. st = StateNow(q)' /\ out = delivered'[q] /\ ignores = (q \in ignore_eos)'
        /\ seen = (q \notin undecoded)'
    BY <1>1, <1>3, <2>1
  <2>4. CASE q = r
    <3>1. Unfinished(old, st, out, ignores, seen)
      BY <1>4, <1>5, <2>2, <2>4 DEF Standing, Ended
    <3>2. Len(next.output_ids) < MaxTokens
      BY <1>7, StreamingAssumption
    <3>3. Unfinished(next, st, out, ignores, seen)
      BY <1>7, <3>1, <3>2 DEF Unfinished
    <3> QED BY <1>7, <1>9, <2>3, <2>4, <3>3 DEF Standing
  <2>5. CASE q # r
    BY <1>9, <2>2, <2>3, <2>5
  <2> QED BY <2>4, <2>5
<1>12. RecordsInv'
  BY <1>1, <1>2, <1>10, RecordsKeep
<1> QED BY <1>1, <1>9, <1>10, <1>11, <1>12 DEF EngineInv

LEMMA ProcessKeeps ==
  ASSUME EngineInv, records # << >>, NEW toks \in [Range(Head(records)) -> TokenIds],
         ProcessStepResult(toks)
  PROVE  EngineInv'
<1>1. PICK rec : rec = Range(Head(records))
  OBVIOUS
<1>2. PICK gets, gone : /\ gets = {r \in rec : ~Skips(r)}
                        /\ gone = {r \in rec : req[r].is_retracted /\ req[r].state # "done"}
  OBVIOUS
<1>3. PICK out : out = [r \in gets |-> Append(req[r].output_ids, toks[r])]
  OBVIOUS
<1>4. PICK ends : ends = {r \in gets : IsEos(r, toks[r]) \/ Len(out[r]) >= MaxTokens}
  OBVIOUS
<1>5. PICK old : old = [r \in gets |-> IF r \in DOMAIN states THEN states[r] ELSE NewState]
  OBVIOUS
<1>6. PICK new : new = [r \in gets |->
                          IF streaming THEN AfterToken(old[r], r, toks[r], r \in ends)
                          ELSE IF r \in ends THEN Flushed(old[r], Text(old[r].token_ids))
                          ELSE old[r]]
  OBVIOUS
<1>7. PICK known : known = DOMAIN states \cup (IF streaming THEN gets ELSE {})
  OBVIOUS
<1>8. /\ records' = Tail(records)
      /\ req' = [r \in Requests |->
           IF r \in gets THEN [req[r] EXCEPT !.output_ids = out[r],
                                 !.state = IF r \in ends THEN "done" ELSE @]
           ELSE IF r \in gone THEN [req[r] EXCEPT !.is_retracted = FALSE]
           ELSE req[r]]
      /\ states' = [r \in known \ (ends \cup gone) |-> IF r \in gets THEN new[r] ELSE states[r]]
      /\ delivered' = [r \in Requests |->
           IF r \in gets THEN delivered[r] \o Delta(old[r], new[r]) ELSE delivered[r]]
      /\ undecoded' = (IF streaming THEN undecoded ELSE undecoded \cup gets)
      /\ UNCHANGED <<ignore_eos, caller, streaming>>
  BY <1>1, <1>2, <1>3, <1>4, <1>5, <1>6, <1>7 DEF ProcessStepResult, CleanedUp
<1>9. /\ ignore_eos \subseteq Requests /\ undecoded \subseteq Requests
      /\ caller \in {"none", "stream", "generate"} /\ streaming \in BOOLEAN
      /\ req \in [Requests -> ReqRecord] /\ DOMAIN delivered = Requests
      /\ DOMAIN states \subseteq Live /\ RecordsInv
      /\ \A r \in Requests :
           Standing(req[r], StateNow(r), delivered[r], r \in ignore_eos, r \notin undecoded)
  BY DEF EngineInv
<1>10. rec \subseteq Live \cup Done /\ Live \cup Done \subseteq Requests
  <2>1. Head(records) = records[1] /\ 1 \in 1..Len(records)
    BY <1>9 DEF RecordsInv
  <2>2. Range(records[1]) \subseteq Live \cup Done
    BY <1>9, <2>1 DEF RecordsInv
  <2> QED BY <1>1, <2>1, <2>2 DEF Live, Done
<1>11. /\ gets \subseteq rec /\ gets \subseteq Live /\ gets \subseteq Requests
       /\ \A r \in gets : ~req[r].is_retracted /\ req[r].state = "live" /\ toks[r] \in TokenIds
       /\ ends \subseteq gets /\ gone \cap gets = {} /\ gone \subseteq Live
  BY <1>1, <1>2, <1>4, <1>10 DEF Skips, Live, Done
<1>12. ASSUME NEW r \in Requests
       PROVE  /\ Standing(req'[r], StateNow(r)', delivered'[r], (r \in ignore_eos)', (r \notin undecoded)')
              /\ req[r].state = "done" => req'[r].state = "done"
              /\ req[r].state = "live" => req'[r].state = IF r \in ends THEN "done" ELSE "live"
  <2>1. PICK q, st, o, ignores, seen, next :
          /\ q = req[r] /\ st = StateNow(r) /\ o = delivered[r] /\ ignores = (r \in ignore_eos)
          /\ seen = (r \notin undecoded) /\ next = req'[r]
    OBVIOUS
  <2>2. Standing(q, st, o, ignores, seen)
    BY <1>9, <2>1
  <2>3. ignores = (r \in ignore_eos)'
    BY <1>8, <2>1
  <2>4. CASE r \in gets
    <3>1. PICK t, ids, fin : t = toks[r] /\ ids = out[r] /\ fin = (r \in ends)
      OBVIOUS
    <3>2. Gets(q, st, o, ignores, seen, t, ids, fin, next)
      <4>1. q.state = "live" /\ ~q.is_retracted /\ t \in TokenIds
        BY <1>11, <2>1, <2>4, <3>1
      <4>2. q \in ReqRecord /\ Unfinished(q, st, o, ignores, seen)
        BY <2>2, <4>1 DEF Standing, Ended
      <4>3. ids = Append(q.output_ids, t)
        BY <1>3, <2>1, <2>4, <3>1
      <4>4. fin = ((t = "eos" /\ ~ignores) \/ Len(ids) >= MaxTokens)
        <5>1. r \in ends <=> IsEos(r, toks[r]) \/ Len(out[r]) >= MaxTokens
          BY <1>4, <2>4
        <5>2. IsEos(r, toks[r]) <=> t = "eos" /\ ~ignores
          BY <2>1, <3>1 DEF IsEos
        <5>3. (r \in ends) = ((t = "eos" /\ ~ignores) \/ Len(out[r]) >= MaxTokens)
          BY ONLY <5>1, <5>2
        <5> QED BY <3>1, <5>3
      <4>5. next = [q EXCEPT !.output_ids = ids, !.state = IF fin THEN "done" ELSE @]
        BY <1>8, <2>1, <2>4, <3>1
      <4> QED BY ONLY <4>1, <4>2, <4>3, <4>4, <4>5 DEF Gets
    <3>3. next.state = IF fin THEN "done" ELSE "live"
      BY ONLY <3>2, GetsIs
    <3>4. old[r] = st
      BY <1>5, <2>1, <2>4 DEF StateNow
    <3>5. r \notin gone
      BY <1>11, <2>4
    <3>6. CASE streaming
      <4>1. PICK nw, left : nw = new[r] /\ left = IF fin THEN NewState ELSE nw
        OBVIOUS
      <4>2. nw = AfterToken(st, r, t, fin)
        BY <1>6, <2>4, <3>1, <3>4, <3>6, <4>1
      <4>3. left = IF fin THEN NewState ELSE nw
        BY <4>1
      <4>4. Standing(next, left, o \o Delta(st, nw), ignores, seen)
        BY ONLY <3>2, <4>2, <4>3, StreamedKeeps
      <4>5. StateNow(r)' = left
        <5>1. r \in known
          BY <1>7, <2>4, <3>6
        <5>2. DOMAIN states' = known \ (ends \cup gone)
          BY <1>8
        <5>3. r \in DOMAIN states' <=> ~fin
          BY <3>1, <3>5, <5>1, <5>2
        <5>4. ~fin => states'[r] = nw
          BY <1>8, <2>4, <4>1, <5>2, <5>3
        <5> QED BY <4>1, <5>3, <5>4 DEF StateNow, NewState
      <4>6. delivered'[r] = o \o Delta(st, nw)
        BY <1>8, <2>1, <2>4, <3>4, <4>1
      <4>7. seen = (r \notin undecoded)'
        BY <1>8, <2>1, <3>6
      <4>8. Standing(req'[r], StateNow(r)', delivered'[r], (r \in ignore_eos)', (r \notin undecoded)')
        BY <2>1, <2>3, <4>4, <4>5, <4>6, <4>7
      <4> QED BY <1>11, <2>1, <2>4, <3>1, <3>3, <4>8
    <3>7. CASE ~streaming
      <4>1. PICK left, after : left = (IF fin THEN NewState ELSE st) /\ after = delivered'[r]
        OBVIOUS
      <4>2. Standing(next, IF fin THEN NewState ELSE st, after, ignores, FALSE)
        BY ONLY <3>2, UnstreamedKeeps
      <4>3. Standing(next, left, after, ignores, FALSE)
        BY <4>1, <4>2
      <4>4. StateNow(r)' = left
        <5>1. known = DOMAIN states /\ DOMAIN states' = known \ (ends \cup gone)
          BY <1>7, <1>8, <3>7
        <5>2. CASE fin
          BY <3>1, <4>1, <5>1, <5>2 DEF StateNow, NewState
        <5>3. CASE ~fin
          <6>1. r \in DOMAIN states' <=> r \in DOMAIN states
            BY <3>1, <3>5, <5>1, <5>3
          <6>2. r \in DOMAIN states' => states'[r] = new[r]
            BY <1>8, <2>4, <5>1
          <6>3. new[r] = st
            BY <1>6, <2>4, <3>1, <3>4, <3>7, <5>3
          <6>4. left = StateNow(r)
            BY <2>1, <4>1, <5>3
          <6> QED BY <2>1, <6>1, <6>2, <6>3, <6>4 DEF StateNow, NewState
        <5> QED BY <5>2, <5>3
      <4>5. (r \notin undecoded)' = FALSE
        BY <1>8, <2>4, <3>7
      <4>6. Standing(req'[r], StateNow(r)', delivered'[r], (r \in ignore_eos)', (r \notin undecoded)')
        BY <2>1, <2>3, <4>1, <4>3, <4>4, <4>5
      <4> QED BY <1>11, <2>1, <2>4, <3>1, <3>3, <4>6
    <3> QED BY <3>6, <3>7
  <2>5. CASE r \notin gets
    <3>1. /\ delivered'[r] = o /\ seen = (r \notin undecoded)' /\ r \notin ends
          /\ r \in known <=> r \in DOMAIN states
      BY <1>7, <1>8, <1>11, <2>1, <2>5
    <3>2. CASE r \in gone
      <4>1. q.is_retracted /\ next = [q EXCEPT !.is_retracted = FALSE] /\ q.state # "done"
        BY <1>2, <1>8, <2>1, <2>5, <3>2
      <4>2. q \in ReqRecord /\ Unfinished(q, st, o, ignores, seen)
        BY <2>2, <4>1 DEF Standing, Ended
      <4>3. Standing(next, NewState, o, ignores, seen)
        BY ONLY <4>1, <4>2, GoneKeeps
      <4>4. StateNow(r)' = NewState
        <5>1. r \notin DOMAIN states'
          BY <1>8, <3>2
        <5> QED BY <5>1 DEF StateNow, NewState
      <4>5. next.state = q.state
        BY ONLY <4>1, <4>2 DEF ReqRecord
      <4> QED BY <2>1, <2>3, <3>1, <4>1, <4>3, <4>4, <4>5
    <3>3. CASE r \notin gone
      <4>1. next = q
        BY <1>8, <2>1, <2>5, <3>3
      <4>2. StateNow(r)' = st
        <5>1. r \in DOMAIN states' <=> r \in DOMAIN states
          BY <1>8, <3>1, <3>3
        <5>2. r \in DOMAIN states' => states'[r] = states[r]
          BY <1>8, <2>5
        <5> QED BY <2>1, <5>1, <5>2 DEF StateNow, NewState
      <4> QED BY <2>1, <2>2, <2>3, <3>1, <4>1, <4>2
    <3> QED BY <3>2, <3>3
  <2> QED BY <2>4, <2>5
<1>13. Live \cup Done \subseteq Live' \cup Done' /\ Live \ ends \subseteq Live'
  BY <1>12 DEF Live, Done
<1>14. DOMAIN states' \subseteq Live'
  <2>1. DOMAIN states' \subseteq known /\ DOMAIN states' \cap ends = {}
    BY <1>8
  <2>2. known \subseteq Live
    BY <1>7, <1>9, <1>11
  <2> QED BY <1>13, <2>1, <2>2
<1>15. RecordsInv'
  <2>1. records \in Seq(Batches) /\ Len(records) \in Nat /\ Len(records) >= 1 /\ Len(records) <= 2
    BY <1>9 DEF RecordsInv
  <2>2. /\ records' \in Seq(Batches) /\ Len(records') = Len(records) - 1
        /\ \A i \in 1..(Len(records) - 1) : records'[i] = records[i + 1]
    BY <1>8, <2>1, HeadTailProperties
  <2>3. ASSUME NEW i \in 1..Len(records') PROVE Range(records'[i]) \subseteq Live' \cup Done'
    <3>1. i + 1 \in 1..Len(records) /\ records'[i] = records[i + 1]
      BY <2>1, <2>2
    <3>2. PICK j : j = i + 1
      OBVIOUS
    <3>3. Range(records[j]) \subseteq Live \cup Done
      BY <1>9, <3>1, <3>2 DEF RecordsInv
    <3> QED BY <1>13, <3>1, <3>2, <3>3
  <2>4. Len(records') <= 2
    BY <2>1, <2>2
  <2> QED BY <2>2, <2>3, <2>4 DEF RecordsInv
<1>16. req' \in [Requests -> ReqRecord] /\ DOMAIN delivered' = Requests
  <2>1. \A r \in Requests : req'[r] \in ReqRecord
    BY <1>12 DEF Standing
  <2> QED BY <1>8, <2>1
<1>17. /\ ignore_eos' \subseteq Requests /\ undecoded' \subseteq Requests
       /\ caller' \in {"none", "stream", "generate"} /\ streaming' \in BOOLEAN
  BY <1>8, <1>9, <1>11
<1> QED BY <1>12, <1>14, <1>15, <1>16, <1>17 DEF EngineInv

LEMMA StreamingNextKeeps ==
  ASSUME EngineInv, StreamingNext
  PROVE  EngineInv'
<1>1. CASE \E R \in SUBSET Requests : StreamGenerate(R) \/ Generate(R)
  BY <1>1, StartKeeps DEF StreamGenerate, Generate
<1>2. CASE Return
  BY <1>2, ReturnKeeps
<1>3. CASE \E R \in SUBSET Requests : \E b \in SetToSeqs(R) : Launch(b)
  BY <1>3, LaunchKeeps
<1>4. CASE \E r \in Requests : Retract(r)
  BY <1>4, RetractKeeps
<1>5. CASE records # << >> /\ \E toks \in [Range(Head(records)) -> TokenIds] : ProcessStepResult(toks)
  BY <1>5, ProcessKeeps
<1> QED BY <1>1, <1>2, <1>3, <1>4, <1>5 DEF StreamingNext

LEMMA EngineStutters ==
  ASSUME EngineInv, UNCHANGED svars
  PROVE  EngineInv'
<1>1. /\ ignore_eos' = ignore_eos /\ caller' = caller /\ streaming' = streaming /\ req' = req
      /\ records' = records /\ states' = states /\ delivered' = delivered /\ undecoded' = undecoded
  BY DEF svars
<1>2. \A r \in Requests : StateNow(r)' = StateNow(r)
  BY <1>1 DEF StateNow
<1>3. Live' = Live /\ Done' = Done
  BY <1>1 DEF Live, Done
<1> QED BY <1>1, <1>2, <1>3 DEF EngineInv, RecordsInv

\* In the engine's part; in the other two no request is ever added.
PartsInv ==
  /\ part \in {"tokenizer", "decoder", "engine"}
  /\ part = "engine" => EngineInv
  /\ part # "engine" => req = [r \in Requests |-> Idle]

LEMMA PartsInvariance == Spec => []PartsInv
<1>1. Init => PartsInv
  BY EngineInitIs DEF Init, PartsInv, StreamingInit
<1>2. ASSUME PartsInv, [Next]_vars PROVE PartsInv'
  <2>1. part' = part /\ part \in {"tokenizer", "decoder", "engine"}
    BY <1>2 DEF Next, vars, PartsInv
  <2>2. CASE part = "engine"
    <3>1. EngineInv /\ (StreamingNext \/ UNCHANGED vars)
      BY <1>2, <2>2 DEF Next, vars, PartsInv
    <3>2. CASE StreamingNext
      BY <2>1, <2>2, <3>1, <3>2, StreamingNextKeeps DEF PartsInv
    <3>3. CASE UNCHANGED vars
      <4>1. UNCHANGED svars
        BY <3>3 DEF vars
      <4> QED BY <2>1, <2>2, <3>1, <4>1, EngineStutters DEF PartsInv
    <3> QED BY <3>1, <3>2, <3>3
  <2>3. CASE part # "engine"
    <3>1. req' = req
      BY <1>2, <2>3 DEF Next, vars, svars
    <3> QED BY <1>2, <2>1, <2>3, <3>1 DEF PartsInv
  <2> QED BY <2>2, <2>3
<1> QED BY <1>1, <1>2, PTL DEF Spec

\* The text _process_step_result streams for a request that ended and was never
\* retracted is the decode of its output: its deltas lose no character, repeat none
\* and take none back - unless it went on behind an EOS it ignores.
THEOREM StreamedIsOutputTheorem == Spec => []StreamedIsOutput
<1>1. PartsInv => StreamedIsOutput
  <2> SUFFICES ASSUME PartsInv, NEW r \in Done \ undecoded,
                      ~req[r].ever_retracted, ~IgnoredEos(r)
               PROVE  delivered[r] = Text(req[r].output_ids)
    BY DEF StreamedIsOutput
  <2>1. r \in Requests /\ req[r].state = "done"
    BY DEF Done
  <2>2. part = "engine"
    <3> SUFFICES ASSUME part # "engine" PROVE FALSE
      OBVIOUS
    <3>1. req[r].state = "new"
      BY <2>1 DEF PartsInv, Idle
    <3> QED BY <2>1, <3>1
  <2>3. PICK q, st, out, ignores, seen :
          /\ q = req[r] /\ st = StateNow(r) /\ out = delivered[r] /\ ignores = (r \in ignore_eos)
          /\ seen = (r \notin undecoded)
    OBVIOUS
  <2>4. Standing(q, st, out, ignores, seen)
    BY <2>1, <2>2, <2>3 DEF PartsInv, EngineInv
  <2>5. Ended(q, out, ignores, seen)
    BY <2>1, <2>3, <2>4 DEF Standing, Unfinished
  <2>6. ~(ignores /\ "eos" \in Range(Front(q.output_ids)))
    BY <2>3 DEF IgnoredEos
  <2> QED BY <2>3, <2>5, <2>6 DEF Ended
<1> QED BY <1>1, PartsInvariance, PTL

\* No decoder state is left behind by a request that ended, by a result that came
\* late or by the output a retraction dropped: a state belongs to an unfinished
\* request and has seen exactly its output.
THEOREM StatesCurrentTheorem == Spec => []StatesCurrent
<1>1. ASSUME EngineInv PROVE StreamingTypeOK
  <2>1. ASSUME NEW r \in Requests
        PROVE  /\ req[r].output_ids \in Seq(TokenIds) /\ Len(req[r].output_ids) <= MaxTokens
               /\ r \in DOMAIN states => states[r].token_ids \in Seq(TokenIds)
    <3>1. PICK q, st, out, ignores, seen :
            /\ q = req[r] /\ st = StateNow(r) /\ out = delivered[r]
            /\ ignores = (r \in ignore_eos) /\ seen = (r \notin undecoded)
      OBVIOUS
    <3>2. Standing(q, st, out, ignores, seen)
      BY <1>1, <3>1 DEF EngineInv
    <3>3. q.output_ids \in Seq(TokenIds) /\ Len(q.output_ids) \in Nat
      BY <3>2 DEF Standing, ReqRecord
    <3>4. Len(q.output_ids) <= MaxTokens
      BY <3>2, <3>3, StreamingAssumption DEF Standing, Unfinished, Ended
    <3>5. r \in DOMAIN states => states[r].token_ids \in Seq(TokenIds)
      <4>1. ASSUME r \in DOMAIN states PROVE st = states[r] /\ q.state = "live"
        BY <1>1, <3>1, <4>1 DEF EngineInv, Live, StateNow
      <4>2. q.state = "live" => Sound(st)
        BY <3>2 DEF Standing, Unfinished, Ended
      <4> QED BY <4>1, <4>2 DEF Sound, DecodeState
    <3> QED BY <3>1, <3>3, <3>4, <3>5
  <2>2. ASSUME NEW i \in DOMAIN records PROVE IsInjective(records[i])
    <3>1. records[i] \in Batches
      BY <1>1, <2>2 DEF EngineInv, RecordsInv
    <3>2. PICK R : records[i] \in SetToSeqs(R)
      BY <3>1 DEF Batches
    <3> QED BY <3>2 DEF SetToSeqs, IsInjective
  <2>3. \A r \in DOMAIN states : r \in Requests
    BY <1>1 DEF EngineInv, Live
  <2> QED BY <1>1, <2>1, <2>2, <2>3 DEF StreamingTypeOK, EngineInv, RecordsInv
<1>2. ASSUME EngineInv PROVE StatesAreCurrent
  <2> SUFFICES ASSUME NEW r \in DOMAIN states
               PROVE  /\ r \in Live
                      /\ ~req[r].is_retracted /\ r \notin undecoded /\ ~IgnoredEos(r)
                           /\ ~states[r].finished => states[r].token_ids = req[r].output_ids
    BY DEF StatesAreCurrent
  <2>1. PICK q, st, out, ignores, seen :
          /\ q = req[r] /\ st = StateNow(r) /\ out = delivered[r] /\ ignores = (r \in ignore_eos)
          /\ seen = (r \notin undecoded)
    OBVIOUS
  <2>2. r \in Live /\ r \in Requests /\ q.state = "live" /\ st = states[r]
    BY <1>2, <2>1 DEF EngineInv, Live, StateNow
  <2>3. Standing(q, st, out, ignores, seen)
    BY <1>2, <2>1, <2>2 DEF EngineInv
  <2>4. Unfinished(q, st, out, ignores, seen)
    BY <2>2, <2>3 DEF Standing, Ended
  <2> QED BY <2>1, <2>2, <2>4 DEF Unfinished
<1>3. PartsInv => StatesCurrent
  BY <1>1, <1>2 DEF PartsInv, StatesCurrent
<1> QED BY <1>3, PartsInvariance, PTL

---------------------------------------------------------------------------
(* The prompt tokenizer.                                                    *)

\* The k-th element of a sequence moved to its end.
ToEnd(s, k) == Append(RemoveAt(s, k), s[k])

\* Where its j-th element, of n, was before.
Before(k, n, j) == IF j < k THEN j ELSE IF j < n THEN j + 1 ELSE k

LEMMA RemoveAtIs ==
  ASSUME NEW S, NEW s \in Seq(S), NEW k \in 1..Len(s), NEW f, f = RemoveAt(s, k)
  PROVE  /\ f \in Seq(S) /\ Len(f) = Len(s) - 1
         /\ \A j \in 1..(Len(s) - 1) : f[j] = s[IF j < k THEN j ELSE j + 1]
<1>1. PICK n, m, a, b : n = Len(s) /\ m = k - 1 /\ a = SubSeq(s, 1, k - 1) /\ b = SubSeq(s, k + 1, Len(s))
  OBVIOUS
<1>2. n \in Nat /\ k \in 1..n /\ m \in 0..n /\ m = k - 1 /\ k + 1 \in 1..(n + 1)
  BY <1>1
<1>3. a \in Seq(S) /\ Len(a) = m /\ \A j \in 1..m : a[j] = s[j]
  <2>1. a = Upto(s, m) /\ m \in 0..Len(s)
    BY <1>1, <1>2 DEF Upto
  <2> QED BY <2>1, UptoIs
<1>4. b \in Seq(S) /\ Len(b) = n - k /\ \A j \in 1..(n - k) : b[j] = s[k + j]
  <2>1. PICK x : x = k + 1
    OBVIOUS
  <2>2. b = SubSeq(s, x, n) /\ x \in Int /\ n \in Int /\ \A j \in x..n : s[j] \in S
    BY <1>1, <1>2, <2>1
  <2>3. /\ b \in Seq(S) /\ Len(b) = (IF x <= n THEN n - x + 1 ELSE 0)
        /\ \A j \in 1..(n - x + 1) : b[j] = s[x + j - 1]
    BY ONLY <2>2, SubSeqProperties
  <2>4. Len(b) = n - k /\ n - x + 1 = n - k
    BY <1>2, <2>1, <2>3
  <2>5. \A j \in 1..(n - k) : b[j] = s[k + j]
    <3> TAKE j \in 1..(n - k)
    <3>1. b[j] = s[x + j - 1] /\ x + j - 1 = k + j
      BY <1>2, <2>1, <2>3, <2>4
    <3> QED BY <3>1
  <2> QED BY <2>3, <2>4, <2>5
<1>5. f = a \o b
  BY <1>1 DEF RemoveAt
<1>6. /\ f \in Seq(S) /\ Len(f) = Len(a) + Len(b)
      /\ \A j \in 1..(Len(a) + Len(b)) : f[j] = IF j <= Len(a) THEN a[j] ELSE b[j - Len(a)]
  BY ONLY <1>3, <1>4, <1>5, ConcatProperties
<1>7. Len(f) = n - 1
  <2>1. Len(a) = m /\ Len(b) = n - k /\ Len(f) = Len(a) + Len(b)
    BY <1>3, <1>4, <1>6
  <2> QED BY ONLY <1>2, <2>1
<1>8. ASSUME NEW j \in 1..(n - 1) PROVE f[j] = s[IF j < k THEN j ELSE j + 1]
  <2>1. f[j] = IF j <= m THEN a[j] ELSE b[j - m]
    <3>0. Len(a) = m /\ Len(b) = n - k
      BY <1>3, <1>4
    <3>1. Len(a) = m /\ Len(a) + Len(b) = n - 1
      BY ONLY <1>2, <3>0
    <3> QED BY ONLY <1>6, <3>1, j \in 1..(n - 1)
  <2>2. CASE j < k
    BY <1>1, <1>2, <1>3, <2>1, <2>2
  <2>3. CASE ~(j < k)
    <3>1. ~(j <= m) /\ j - m \in 1..(n - k) /\ k + (j - m) = j + 1
      BY <1>1, <1>2, <2>3
    <3>2. PICK x : x = j - m
      OBVIOUS
    <3>3. b[x] = s[k + x] /\ k + x = j + 1
      BY <1>4, <3>1, <3>2
    <3> QED BY <2>1, <2>3, <3>1, <3>2, <3>3
  <2> QED BY <2>2, <2>3
<1> QED BY <1>1, <1>6, <1>7, <1>8

LEMMA ToEndIs ==
  ASSUME NEW S, NEW s \in Seq(S), NEW k \in 1..Len(s), NEW f, f = ToEnd(s, k)
  PROVE  /\ f \in Seq(S) /\ Len(f) = Len(s)
         /\ \A j \in 1..Len(s) : f[j] = s[Before(k, Len(s), j)]
<1>1. PICK n, r, e : n = Len(s) /\ r = RemoveAt(s, k) /\ e = s[k]
  OBVIOUS
<1>2. n \in Nat /\ k \in 1..n /\ e \in S
  BY <1>1
<1>3. r \in Seq(S) /\ Len(r) = n - 1 /\ \A j \in 1..(n - 1) : r[j] = s[IF j < k THEN j ELSE j + 1]
  BY <1>1, RemoveAtIs
<1>4. f = Append(r, e)
  BY <1>1 DEF ToEnd
<1>5. f \in Seq(S) /\ Len(f) = n /\ f[n] = e /\ \A j \in 1..(n - 1) : f[j] = r[j]
  BY ONLY <1>2, <1>3, <1>4
<1>6. ASSUME NEW j \in 1..n PROVE f[j] = s[Before(k, n, j)]
  <2>1. CASE j = n
    <3>1. Before(k, n, n) = k
      BY <1>2 DEF Before
    <3> QED BY <1>1, <1>5, <2>1, <3>1
  <2>2. CASE j # n
    <3>1. j \in 1..(n - 1) /\ Before(k, n, j) = IF j < k THEN j ELSE j + 1
      BY <1>2, <2>2 DEF Before
    <3> QED BY <1>3, <1>5, <3>1
  <2> QED BY <2>1, <2>2
<1> QED BY <1>1, <1>5, <1>6

\* Before is a permutation.
LEMMA BeforeIs ==
  ASSUME NEW n \in Nat, NEW k \in 1..n
  PROVE  /\ \A j \in 1..n : Before(k, n, j) \in 1..n
         /\ \A i, j \in 1..n : Before(k, n, i) = Before(k, n, j) => i = j
         /\ \A i \in 1..n : \E j \in 1..n : Before(k, n, j) = i
<1>1. \A j \in 1..n : Before(k, n, j) \in 1..n
  BY DEF Before
<1>2. \A i, j \in 1..n : Before(k, n, i) = Before(k, n, j) => i = j
  BY DEF Before
<1>3. ASSUME NEW i \in 1..n PROVE \E j \in 1..n : Before(k, n, j) = i
  <2>1. CASE i < k
    <3>1. Before(k, n, i) = i
      BY <2>1 DEF Before
    <3> QED BY <3>1
  <2>2. CASE i = k
    <3>1. n \in 1..n /\ Before(k, n, n) = i
      BY <2>2 DEF Before
    <3> QED BY <3>1
  <2>3. CASE i > k
    <3>1. i - 1 \in 1..n /\ Before(k, n, i - 1) = i
      BY <2>3 DEF Before
    <3> QED BY <3>1
  <2> QED BY <2>1, <2>2, <2>3
<1> QED BY <1>1, <1>2, <1>3

EntryOf(p) == [key |-> p, ids |-> Encode(p)]
Entries == {EntryOf(p) : p \in Prompts}

Distinct(rec) == \A i, j \in 1..Len(rec) : rec[i] = rec[j] => i = j

\* The cache holds the prompts used last, in the order of their last use, and for each
\* its ids.
Sync(c, rec) ==
  /\ c \in Seq(Entries) /\ rec \in Seq(Prompts) /\ Distinct(rec)
  /\ Len(c) <= Len(rec)
  /\ \A i \in 1..Len(c) : c[i] = EntryOf(rec[(Len(rec) - Len(c)) + i])

\* It holds all of them, or as many as its size allows.
Full(c, rec) == Len(c) = Len(rec) \/ Len(c) >= LruSize

\* The same, with n entries and d prompts that are not cached any more.
InStep(c, rec, n, d) ==
  /\ n \in Nat /\ d \in Nat /\ Len(c) = n /\ Len(rec) = d + n
  /\ DOMAIN c = 1..n /\ DOMAIN rec = 1..(d + n)
  /\ \A i \in 1..n : /\ d + i \in 1..(d + n) /\ rec[d + i] \in Prompts
                     /\ c[i] = EntryOf(rec[d + i]) /\ c[i].key = rec[d + i]

LEMMA SyncIs ==
  ASSUME NEW c, NEW rec, Sync(c, rec), NEW n, n = Len(c), NEW d, d = Len(rec) - Len(c)
  PROVE  InStep(c, rec, n, d)
<1>1. n \in Nat /\ d \in Nat /\ Len(rec) = d + n /\ DOMAIN c = 1..n /\ DOMAIN rec = 1..(d + n)
  BY DEF Sync
<1>2. ASSUME NEW i \in 1..n
      PROVE  /\ d + i \in 1..(d + n) /\ rec[d + i] \in Prompts
             /\ c[i] = EntryOf(rec[d + i]) /\ c[i].key = rec[d + i]
  <2>1. d + i \in 1..(d + n) /\ d + i \in 1..Len(rec)
    BY <1>1
  <2>2. rec[d + i] \in Prompts
    BY <2>1 DEF Sync
  <2>3. c[i] = EntryOf(rec[d + i])
    BY DEF Sync
  <2> QED BY <2>1, <2>2, <2>3 DEF EntryOf
<1> QED BY <1>1, <1>2 DEF InStep

\* A hit, and where it is.
LEMMA HitIs ==
  ASSUME NEW c, NEW rec, Sync(c, rec), NEW p
  PROVE  /\ Hit(c, p) <=> \E i \in 1..Len(c) : c[i].key = p
         /\ Hit(c, p) => /\ At(c, p) \in 1..Len(c) /\ c[At(c, p)] = EntryOf(p)
                         /\ (Len(rec) - Len(c)) + At(c, p) \in 1..Len(rec)
                         /\ rec[(Len(rec) - Len(c)) + At(c, p)] = p
<1>1. PICK n, d : n = Len(c) /\ d = Len(rec) - Len(c)
  OBVIOUS
<1>2. /\ n \in Nat /\ d \in Nat /\ Len(rec) = d + n /\ DOMAIN c = 1..n
      /\ \A i \in 1..n : /\ d + i \in 1..Len(rec)
                         /\ c[i] = EntryOf(rec[d + i]) /\ c[i].key = rec[d + i]
  <2>1. InStep(c, rec, n, d)
    BY <1>1, SyncIs
  <2> QED BY ONLY <2>1 DEF InStep
<1>3. Hit(c, p) <=> \E i \in 1..n : c[i].key = p
  BY <1>2 DEF Hit, Keys, Range
<1>4. ASSUME Hit(c, p)
      PROVE  At(c, p) \in 1..n /\ c[At(c, p)].key = p
  <2>1. At(c, p) = CHOOSE i \in 1..n : c[i].key = p
    BY <1>2 DEF At
  <2> QED BY <1>3, <1>4, <2>1
<1>5. ASSUME Hit(c, p)
      PROVE  c[At(c, p)] = EntryOf(p) /\ d + At(c, p) \in 1..Len(rec) /\ rec[d + At(c, p)] = p
  BY <1>2, <1>4, <1>5
<1> QED BY <1>1, <1>3, <1>4, <1>5

LEMMA UseIs ==
  ASSUME NEW rec \in Seq(Prompts), Distinct(rec), NEW p
  PROVE  /\ \A k \in 1..Len(rec) : rec[k] = p => Use(rec, p) = ToEnd(rec, k)
         /\ (\A k \in 1..Len(rec) : rec[k] # p) => Use(rec, p) = Append(rec, p)
<1>1. DOMAIN rec = 1..Len(rec)
  OBVIOUS
<1>2. ASSUME NEW k \in 1..Len(rec), rec[k] = p PROVE Use(rec, p) = ToEnd(rec, k)
  <2>1. PICK x : x = CHOOSE i \in DOMAIN rec : rec[i] = p
    OBVIOUS
  <2>2. x \in 1..Len(rec) /\ rec[x] = p
    BY <1>1, <1>2, <2>1
  <2>3. x = k
    BY <1>2, <2>2 DEF Distinct
  <2>4. p \in Range(rec)
    BY <1>1, <1>2 DEF Range
  <2> QED BY <1>2, <2>1, <2>3, <2>4 DEF Use, ToEnd
<1>3. ASSUME \A k \in 1..Len(rec) : rec[k] # p PROVE Use(rec, p) = Append(rec, p)
  <2>1. p \notin Range(rec)
    BY <1>1, <1>3 DEF Range
  <2> QED BY <2>1 DEF Use
<1> QED BY <1>2, <1>3

\* An entry and its prompt go to the end together.
Together(c, rec, a, b) ==
  /\ Sync(a, b) /\ Len(a) = Len(c) /\ Len(b) = Len(rec)
  /\ \A p : (\E j \in 1..Len(c) : a[j].key = p) <=> (\E j \in 1..Len(c) : c[j].key = p)

LEMMA SyncToEnd ==
  ASSUME NEW c, NEW rec, Sync(c, rec), NEW i \in 1..Len(c), NEW d, d = Len(rec) - Len(c),
         NEW a, a = ToEnd(c, i), NEW b, b = ToEnd(rec, d + i)
  PROVE  Together(c, rec, a, b)
<1>1. PICK n, m : n = Len(c) /\ m = Len(rec)
  OBVIOUS
<1>2. /\ n \in Nat /\ d \in Nat /\ m \in Nat /\ m = d + n /\ i \in 1..n /\ d + i \in 1..m
      /\ \A j \in 1..n : c[j] = EntryOf(rec[d + j])
  <2>1. InStep(c, rec, n, d)
    BY <1>1, SyncIs
  <2> QED BY <1>1, <2>1 DEF InStep
<1>3. c \in Seq(Entries) /\ rec \in Seq(Prompts) /\ Distinct(rec)
  BY DEF Sync
<1>4. a \in Seq(Entries) /\ Len(a) = n /\ \A j \in 1..n : a[j] = c[Before(i, n, j)]
  BY <1>1, <1>2, <1>3, ToEndIs
<1>5. PICK k : k = d + i
  OBVIOUS
<1>6. b \in Seq(Prompts) /\ Len(b) = m /\ \A j \in 1..m : b[j] = rec[Before(k, m, j)]
  <2>1. rec \in Seq(Prompts) /\ k \in 1..Len(rec) /\ b = ToEnd(rec, k)
    BY <1>1, <1>2, <1>3, <1>5
  <2>2. b \in Seq(Prompts) /\ Len(b) = Len(rec) /\ \A j \in 1..Len(rec) : b[j] = rec[Before(k, Len(rec), j)]
    BY ONLY <2>1, ToEndIs
  <2> QED BY <1>1, <2>2
<1>7. /\ \A j \in 1..n : Before(i, n, j) \in 1..n
      /\ \A x \in 1..n : \E j \in 1..n : Before(i, n, j) = x
  BY <1>2, BeforeIs
<1>8. /\ \A j \in 1..m : Before(k, m, j) \in 1..m
      /\ \A x, j \in 1..m : Before(k, m, x) = Before(k, m, j) => x = j
  <2>1. m \in Nat /\ k \in 1..m
    BY <1>2, <1>5
  <2> QED BY ONLY <2>1, BeforeIs
<1>9. Distinct(b)
  <2>1. ASSUME NEW x \in 1..m, NEW j \in 1..m, b[x] = b[j] PROVE x = j
    <3>1. PICK y, z : y = Before(k, m, x) /\ z = Before(k, m, j)
      OBVIOUS
    <3>2. y \in 1..m /\ z \in 1..m /\ rec[y] = rec[z]
      BY <1>6, <1>8, <2>1, <3>1
    <3>3. y = z
      BY <1>1, <1>3, <3>2 DEF Distinct
    <3> QED BY <1>8, <3>1, <3>3
  <2> QED BY <1>6, <2>1 DEF Distinct
<1>10. ASSUME NEW j \in 1..n PROVE a[j] = EntryOf(b[d + j])
  <2>1. d + j \in 1..m /\ Before(k, m, d + j) = d + Before(i, n, j)
    BY <1>2, <1>5 DEF Before
  <2>2. PICK x : x = Before(i, n, j)
    OBVIOUS
  <2>3. x \in 1..n /\ a[j] = c[x] /\ b[d + j] = rec[d + x]
    <3>1. x \in 1..n /\ a[j] = c[x]
      BY <1>4, <1>7, <2>2
    <3>2. b[d + j] = rec[Before(k, m, d + j)]
      BY ONLY <1>6, <2>1
    <3> QED BY <2>1, <2>2, <3>1, <3>2
  <2> QED BY <1>2, <2>3
<1>11. Sync(a, b)
  <2>1. Len(a) <= Len(b) /\ Len(b) - Len(a) = d
    BY <1>2, <1>4, <1>6
  <2> QED BY <1>4, <1>6, <1>9, <1>10, <2>1 DEF Sync
<1>12. ASSUME NEW p
       PROVE  (\E j \in 1..n : a[j].key = p) <=> (\E j \in 1..n : c[j].key = p)
  <2>1. ASSUME NEW j \in 1..n, a[j].key = p PROVE \E x \in 1..n : c[x].key = p
    BY <1>4, <1>7, <2>1
  <2>2. ASSUME NEW x \in 1..n, c[x].key = p PROVE \E j \in 1..n : a[j].key = p
    <3>1. PICK j \in 1..n : Before(i, n, j) = x
      BY <1>7
    <3>2. a[j] = c[x]
      BY <1>4, <3>1
    <3> QED BY <2>2, <3>2
  <2> QED BY <2>1, <2>2
<1> QED BY <1>1, <1>4, <1>6, <1>11, <1>12 DEF Together

\* After a hit.
Touched(c, rec, e, used) ==
  /\ Sync(e, used) /\ Len(e) = Len(c) /\ Len(used) = Len(rec)
  /\ \A q : Hit(e, q) <=> Hit(c, q)

LEMMA SyncTouch ==
  ASSUME NEW c, NEW rec, Sync(c, rec), NEW p, Hit(c, p)
  PROVE  Touched(c, rec, Touch(c, p), Use(rec, p))
<1>1. PICK n, d, i, k : n = Len(c) /\ d = Len(rec) - Len(c) /\ i = At(c, p) /\ k = d + i
  OBVIOUS
<1>2. i \in 1..Len(c) /\ c[i] = EntryOf(p) /\ k \in 1..Len(rec) /\ rec[k] = p
  BY <1>1, HitIs
<1>3. rec \in Seq(Prompts) /\ Distinct(rec)
  BY DEF Sync
<1>4. Touch(c, p) = ToEnd(c, i) /\ Use(rec, p) = ToEnd(rec, k)
  BY <1>1, <1>2, <1>3, UseIs DEF Touch, ToEnd
<1>5. PICK e, used : e = Touch(c, p) /\ used = Use(rec, p)
  OBVIOUS
<1>6. /\ Sync(e, used) /\ Len(e) = Len(c) /\ Len(used) = Len(rec)
      /\ \A q : (\E j \in 1..Len(c) : e[j].key = q) <=> (\E j \in 1..Len(c) : c[j].key = q)
  <2>1. d = Len(rec) - Len(c) /\ e = ToEnd(c, i) /\ used = ToEnd(rec, d + i)
    BY <1>1, <1>4, <1>5
  <2>2. Together(c, rec, e, used)
    BY <1>2, <2>1, SyncToEnd
  <2> QED BY <2>2 DEF Together
<1>7. \A q : Hit(e, q) <=> Hit(c, q)
  <2> TAKE q
  <2>1. Hit(e, q) <=> \E j \in 1..Len(e) : e[j].key = q
    BY <1>6, HitIs
  <2>2. Hit(c, q) <=> \E j \in 1..Len(c) : c[j].key = q
    BY HitIs
  <2> QED BY <1>6, <2>1, <2>2
<1> QED BY <1>5, <1>6, <1>7 DEF Touched

LEMMA SyncPut ==
  ASSUME NEW c, NEW rec, Sync(c, rec), Full(c, rec), NEW p \in Prompts, NEW e, NEW used,
         e = Put(c, p, Encode(p)), used = Use(rec, p)
  PROVE  Sync(e, used) /\ Full(e, used)
<1>1. PICK n, d : n = Len(c) /\ d = Len(rec) - Len(c)
  OBVIOUS
<1>2. /\ n \in Nat /\ d \in Nat /\ Len(rec) = d + n
      /\ \A i \in 1..n : d + i \in 1..Len(rec) /\ c[i] = EntryOf(rec[d + i]) /\ c[i].key = rec[d + i]
  <2>1. InStep(c, rec, n, d)
    BY <1>1, SyncIs
  <2> QED BY <2>1 DEF InStep
<1>3. c \in Seq(Entries) /\ rec \in Seq(Prompts) /\ Distinct(rec)
  BY DEF Sync
<1>4. CASE Hit(c, p)
  <2>1. c[At(c, p)] = EntryOf(p)
    BY <1>4, HitIs
  <2>2. e = Touch(c, p)
    BY <1>4, <2>1 DEF Put, Touch, EntryOf
  <2>3. Touched(c, rec, e, used)
    BY <1>4, <2>2, SyncTouch
  <2> QED BY <2>3 DEF Touched, Full
<1>5. CASE ~Hit(c, p)
  <2>1. PICK x : x = EntryOf(p)
    OBVIOUS
  <2>2. e = Append(c, x) /\ x \in Entries
    BY <1>5, <2>1 DEF Put, EntryOf, Entries
  <2>3. e \in Seq(Entries) /\ Len(e) = n + 1 /\ e[n + 1] = x /\ \A i \in 1..n : e[i] = c[i]
    BY <1>1, <1>2, <1>3, <2>2
  <2>4. \A i \in 1..n : rec[d + i] # p
    BY <1>1, <1>2, <1>5, HitIs
  <2>5. CASE \A k \in 1..Len(rec) : rec[k] # p
    <3>1. used = Append(rec, p)
      BY <1>3, <2>5, UseIs
    <3>2. /\ used \in Seq(Prompts) /\ Len(used) = d + n + 1 /\ used[d + n + 1] = p
          /\ \A k \in 1..(d + n) : used[k] = rec[k]
      BY <1>2, <1>3, <3>1
    <3>3. Distinct(used)
      <4>1. \A i \in 1..(d + n + 1) : i = d + n + 1 \/ (i \in 1..(d + n) /\ i \in 1..Len(rec))
        BY <1>2
      <4>2. ASSUME NEW i \in 1..(d + n + 1), NEW j \in 1..(d + n + 1), used[i] = used[j] PROVE i = j
        <5>1. CASE i \in 1..(d + n) /\ j \in 1..(d + n)
          <6>1. i \in 1..Len(rec) /\ j \in 1..Len(rec) /\ rec[i] = rec[j]
            BY <1>2, <3>2, <4>2, <5>1
          <6> QED BY <1>3, <6>1 DEF Distinct
        <5>2. CASE i = d + n + 1 /\ j \in 1..(d + n)
          BY <2>5, <3>2, <4>1, <4>2, <5>2
        <5>3. CASE i \in 1..(d + n) /\ j = d + n + 1
          BY <2>5, <3>2, <4>1, <4>2, <5>3
        <5> QED BY <4>1, <5>1, <5>2, <5>3
      <4> QED BY <3>2, <4>2 DEF Distinct
    <3>4. ASSUME NEW i \in 1..(n + 1) PROVE e[i] = EntryOf(used[d + i])
      <4>1. CASE i \in 1..n
        <5>1. d + i \in 1..(d + n)
          BY <1>2, <4>1
        <5> QED BY <1>2, <2>3, <3>2, <4>1, <5>1
      <4>2. CASE i = n + 1
        BY <1>2, <2>1, <2>3, <3>2, <4>2
      <4>3. i \in 1..n \/ i = n + 1
        BY <1>2
      <4> QED BY <4>1, <4>2, <4>3
    <3>5. Len(e) <= Len(used) /\ Len(used) - Len(e) = d
      BY <1>2, <2>3, <3>2
    <3>6. Sync(e, used)
      BY <2>3, <3>2, <3>3, <3>4, <3>5 DEF Sync
    <3>7. Full(e, used)
      BY <1>1, <1>2, <2>3, <3>2, TokenizerAssumption DEF Full
    <3> QED BY <3>6, <3>7
  <2>6. CASE \E k \in 1..Len(rec) : rec[k] = p
    <3>1. PICK k \in 1..Len(rec) : rec[k] = p
      BY <2>6
    <3>2. PICK m : m = Len(rec)
      OBVIOUS
    <3>3. k \in 1..d /\ k \in 1..m /\ m = d + n /\ m \in Nat /\ d >= 1
      <4>1. k \in 1..(d + n)
        BY <1>2, <3>1
      <4>2. k > d => k - d \in 1..n /\ d + (k - d) = k
        BY <1>2, <4>1
      <4>3. ~(k > d)
        <5> SUFFICES ASSUME k > d PROVE FALSE
          OBVIOUS
        <5>1. PICK i : i = k - d
          OBVIOUS
        <5> QED BY <2>4, <3>1, <4>2, <5>1
      <4> QED BY <1>2, <3>2, <4>1, <4>3
    <3>4. used = ToEnd(rec, k)
      BY <1>3, <3>1, UseIs
    <3>5. used \in Seq(Prompts) /\ Len(used) = m /\ \A j \in 1..m : used[j] = rec[Before(k, m, j)]
      <4>1. /\ used \in Seq(Prompts) /\ Len(used) = Len(rec)
            /\ \A j \in 1..Len(rec) : used[j] = rec[Before(k, Len(rec), j)]
        BY ONLY <1>3, <3>1, <3>4, ToEndIs
      <4> QED BY <3>2, <4>1
    <3>6. /\ \A j \in 1..m : Before(k, m, j) \in 1..m
          /\ \A i, j \in 1..m : Before(k, m, i) = Before(k, m, j) => i = j
      <4>1. m \in Nat /\ k \in 1..m
        BY <3>3
      <4> QED BY ONLY <4>1, BeforeIs
    <3>7. Distinct(used)
      <4>1. ASSUME NEW i \in 1..m, NEW j \in 1..m, used[i] = used[j] PROVE i = j
        <5>1. PICK y, z : y = Before(k, m, i) /\ z = Before(k, m, j)
          OBVIOUS
        <5>2. y \in 1..Len(rec) /\ z \in 1..Len(rec) /\ rec[y] = rec[z]
          BY <3>2, <3>5, <3>6, <4>1, <5>1
        <5>3. y = z
          BY <1>3, <5>2 DEF Distinct
        <5> QED BY <3>6, <5>1, <5>3
      <4> QED BY <3>5, <4>1 DEF Distinct
    <3>8. PICK b : b = d - 1
      OBVIOUS
    <3>9. ASSUME NEW i \in 1..(n + 1) PROVE e[i] = EntryOf(used[b + i])
      <4>1. CASE i \in 1..n
        <5>1. b + i \in 1..m /\ Before(k, m, b + i) = d + i
          BY <1>2, <3>3, <3>8, <4>1 DEF Before
        <5>2. used[b + i] = rec[d + i]
          BY <3>5, <5>1
        <5> QED BY <1>2, <2>3, <4>1, <5>2
      <4>2. CASE i = n + 1
        <5>1. b + i = m /\ m \in 1..m /\ Before(k, m, m) = k
          BY <1>2, <3>3, <3>8, <4>2 DEF Before
        <5>2. used[b + i] = p
          BY <3>1, <3>5, <5>1
        <5> QED BY <2>1, <2>3, <4>2, <5>2
      <4>3. i \in 1..n \/ i = n + 1
        BY <1>2
      <4> QED BY <4>1, <4>2, <4>3
    <3>10. Len(e) <= Len(used) /\ Len(used) - Len(e) = b
      BY <1>2, <2>3, <3>3, <3>5, <3>8
    <3>11. Sync(e, used)
      BY <2>3, <3>5, <3>7, <3>9, <3>10 DEF Sync
    <3>12. Full(e, used)
      <4>1. n >= LruSize
        BY <1>1, <1>2, <3>3 DEF Full
      <4> QED BY <1>2, <2>3, <4>1, TokenizerAssumption DEF Full
    <3> QED BY <3>11, <3>12
  <2> QED BY <2>5, <2>6
<1> QED BY <1>4, <1>5

LEMMA SyncEvict ==
  ASSUME NEW c, NEW rec, Sync(c, rec), Full(c, rec), NEW e, e = Evict(c)
  PROVE  Sync(e, rec) /\ Full(e, rec) /\ Len(e) <= LruSize
<1>1. PICK n, d, m : n = Len(c) /\ d = Len(rec) - Len(c) /\ m = Len(rec)
  OBVIOUS
<1>2. /\ n \in Nat /\ d \in Nat /\ m = d + n /\ LruSize \in Nat
      /\ \A i \in 1..n : c[i] = EntryOf(rec[d + i])
  <2>1. InStep(c, rec, n, d)
    BY <1>1, SyncIs
  <2> QED BY <1>1, <2>1, TokenizerAssumption DEF InStep
<1>3. c \in Seq(Entries) /\ rec \in Seq(Prompts) /\ Distinct(rec)
  BY DEF Sync
<1>4. CASE n > LruSize
  <2>1. PICK k : k = n - LruSize + 1
    OBVIOUS
  <2>2. e = SubSeq(c, k, n) /\ k \in Int /\ n \in Int /\ \A i \in k..n : c[i] \in Entries
    <3>1. e = SubSeq(c, k, n)
      BY <1>1, <1>4, <2>1 DEF Evict
    <3>2. \A i \in k..n : i \in 1..Len(c)
      BY <1>1, <1>2, <1>4, <2>1
    <3> QED BY <1>2, <1>3, <2>1, <3>1, <3>2
  <2>3. /\ e \in Seq(Entries) /\ Len(e) = (IF k <= n THEN n - k + 1 ELSE 0)
        /\ \A i \in 1..(n - k + 1) : e[i] = c[k + i - 1]
    BY ONLY <2>2, SubSeqProperties
  <2>4. Len(e) = LruSize /\ n - k + 1 = LruSize
    BY <1>2, <1>4, <2>1, <2>3
  <2>5. PICK b : b = m - LruSize
    OBVIOUS
  <2>6. ASSUME NEW i \in 1..LruSize PROVE e[i] = EntryOf(rec[b + i])
    <3>1. PICK j : j = k + i - 1
      OBVIOUS
    <3>2. j \in 1..n /\ d + j = b + i
      BY <1>2, <1>4, <2>1, <2>5, <3>1
    <3>3. e[i] = c[j]
      BY <2>3, <2>4, <3>1
    <3> QED BY <1>2, <3>2, <3>3
  <2>7. Len(e) <= Len(rec) /\ Len(rec) - Len(e) = b
    BY <1>1, <1>2, <1>4, <2>4, <2>5
  <2>8. Sync(e, rec)
    BY <1>3, <2>3, <2>4, <2>6, <2>7 DEF Sync
  <2> QED BY <1>2, <2>4, <2>8 DEF Full
<1>5. CASE ~(n > LruSize)
  <2>1. e = c
    BY <1>1, <1>5 DEF Evict
  <2> QED BY <1>1, <1>2, <1>5, <2>1
<1> QED BY <1>4, <1>5

TokenizerInv ==
  /\ Sync(lru, recency) /\ Full(lru, recency) /\ Len(lru) <= LruSize
  /\ AnswersInOrder

LEMMA SyncNothing ==
  ASSUME NEW c, NEW rec, Sync(c, rec)
  PROVE  Sync(<< >>, rec)
<1>1. Len(<< >>) = 0 /\ << >> \in Seq(Entries)
  OBVIOUS
<1>2. rec \in Seq(Prompts) /\ Distinct(rec) /\ Len(rec) \in Nat
  BY DEF Sync
<1> QED BY <1>1, <1>2 DEF Sync

LEMMA TokenizerInitIs ==
  ASSUME TokenizerInit
  PROVE  TokenizerInv
<1>1. lru = << >> /\ recency = << >> /\ answer = [prompts |-> << >>, ids |-> << >>]
  BY DEF TokenizerInit
<1>2. Len(lru) = 0 /\ Len(recency) = 0 /\ lru \in Seq(Entries) /\ recency \in Seq(Prompts)
  BY <1>1
<1>3. Sync(lru, recency) /\ Full(lru, recency) /\ Len(lru) <= LruSize
  BY <1>2, TokenizerAssumption DEF Sync, Distinct, Full
<1>4. AnswersInOrder
  <2>1. answer.ids = << >> /\ answer.prompts = << >> /\ DOMAIN answer.prompts = {}
    BY <1>1
  <2>2. << >> = [i \in {} |-> Encode(answer.prompts[i])]
    <3>1. DOMAIN << >> = {} /\ << >> \in Seq(Entries)
      OBVIOUS
    <3> QED BY <3>1
  <2> QED BY <2>1, <2>2 DEF AnswersInOrder
<1> QED BY <1>3, <1>4 DEF TokenizerInv

\* What the cache has for a prompt.
LEMMA CachedIds ==
  ASSUME Sync(lru, recency), NEW p, Hit(lru, p)
  PROVE  lru[At(lru, p)].ids = Encode(p)
<1>1. lru[At(lru, p)] = EntryOf(p)
  BY HitIs
<1> QED BY <1>1 DEF EntryOf

LEMMA EncodeOneKeeps ==
  ASSUME TokenizerInv, NEW p \in Prompts, EncodeOne(p)
  PROVE  TokenizerInv'
<1>1. Sync(lru, recency) /\ Full(lru, recency) /\ Len(lru) <= LruSize /\ LruSize \in Nat
  BY TokenizerAssumption DEF TokenizerInv
<1>2. /\ lru' = (IF LruSize = 0 THEN << >>
                 ELSE IF Hit(lru, p) THEN Touch(lru, p)
                 ELSE Evict(Put(lru, p, Encode(p))))
      /\ answer' = [prompts |-> <<p>>,
                    ids |-> <<IF Hit(lru, p) THEN lru[At(lru, p)].ids ELSE Encode(p)>>]
      /\ recency' = Use(recency, p)
  BY DEF EncodeOne
<1>3. PICK used, put : used = Use(recency, p) /\ put = Put(lru, p, Encode(p))
  OBVIOUS
<1>4. Sync(put, used) /\ Full(put, used)
  BY <1>1, <1>3, SyncPut
<1>5. Sync(lru', used) /\ Full(lru', used) /\ Len(lru') <= LruSize
  <2>1. CASE LruSize = 0
    <3>1. lru' = << >> /\ Len(<< >>) = 0
      BY <1>2, <2>1
    <3>2. Sync(<< >>, used)
      BY <1>4, SyncNothing
    <3> QED BY <1>1, <2>1, <3>1, <3>2 DEF Full
  <2>2. CASE LruSize # 0 /\ Hit(lru, p)
    <3>1. lru' = Touch(lru, p)
      BY <1>2, <2>2
    <3>2. Touched(lru, recency, lru', used)
      BY <1>1, <1>3, <2>2, <3>1, SyncTouch
    <3> QED BY <1>1, <3>2 DEF Touched, Full
  <2>3. CASE LruSize # 0 /\ ~Hit(lru, p)
    <3>1. lru' = Evict(put)
      BY <1>2, <1>3, <2>3
    <3> QED BY <1>4, <3>1, SyncEvict
  <2> QED BY <2>1, <2>2, <2>3
<1>6. AnswersInOrder'
  <2>1. (IF Hit(lru, p) THEN lru[At(lru, p)].ids ELSE Encode(p)) = Encode(p)
    BY <1>1, CachedIds
  <2>2. answer'.prompts = <<p>> /\ answer'.ids = <<Encode(p)>>
    BY <1>2, <2>1
  <2>3. PICK e : e = Encode(p)
    OBVIOUS
  <2>4. <<e>> = [i \in DOMAIN <<p>> |-> Encode(<<p>>[i])]
    <3>1. PICK f : f = [i \in {1} |-> Encode(<<p>>[i])]
      OBVIOUS
    <3>2. DOMAIN <<p>> = {1} /\ DOMAIN <<e>> = {1} /\ <<e>>[1] = e /\ <<p>>[1] = p
      OBVIOUS
    <3>3. <<e>> = [i \in {1} |-> <<e>>[i]]
      BY <3>2
    <3>4. \A i \in {1} : <<e>>[i] = Encode(<<p>>[i])
      BY <2>3, <3>2
    <3> QED BY <3>2, <3>3, <3>4
  <2> QED BY <2>2, <2>3, <2>4 DEF AnswersInOrder
<1> QED BY <1>2, <1>3, <1>5, <1>6 DEF TokenizerInv

\* The loops of encode_batch for n prompts; x is what they work on.
Looks(x, n) ==
  /\ x \in [cache : Seq(Entries), recency : Seq(Prompts), missing : Seq(1..n)]
  /\ Sync(x.cache, x.recency) /\ Full(x.cache, x.recency)

\* The first loop changes no hit.
SameHits(x) == \A q : Hit(x.cache, q) <=> Hit(lru, q)

LEMMA LookUpIs ==
  ASSUME NEW n \in Nat, NEW ps \in [1..n -> Prompts], NEW i \in 1..n, NEW x, Looks(x, n), SameHits(x),
         NEW y, y = LookUp(x, ps, i)
  PROVE  /\ Looks(y, n) /\ SameHits(y) /\ Range(x.missing) \subseteq Range(y.missing)
         /\ ~Hit(lru, ps[i]) => i \in Range(y.missing)
<1>1. PICK p, c, rec, m : p = ps[i] /\ c = x.cache /\ rec = x.recency /\ m = x.missing
  OBVIOUS
<1>2. /\ p \in Prompts /\ Sync(c, rec) /\ Full(c, rec) /\ m \in Seq(1..n)
      /\ x \in [cache : Seq(Entries), recency : Seq(Prompts), missing : Seq(1..n)]
  BY <1>1 DEF Looks
<1>3. \A q : Hit(c, q) <=> Hit(lru, q)
  BY <1>1 DEF SameHits
<1>4. CASE ~Hit(c, p)
  <2>1. PICK w : w = Append(m, i)
    OBVIOUS
  <2>2. w \in Seq(1..n) /\ Range(w) = Range(m) \cup {i}
    <3>1. PICK S : S = 1..n
      OBVIOUS
    <3>2. m \in Seq(S) /\ i \in S
      BY <1>2, <3>1
    <3>3. Append(m, i) \in Seq(S) /\ Range(Append(m, i)) = Range(m) \cup {i}
      BY ONLY <3>2, RangeAppend
    <3> QED BY <2>1, <3>1, <3>3
  <2>3. y = [x EXCEPT !.missing = w]
    BY <1>1, <1>4, <2>1 DEF LookUp, IsMissing
  <2>4. y.cache = c /\ y.recency = rec /\ y.missing = w
        /\ y \in [cache : Seq(Entries), recency : Seq(Prompts), missing : Seq(1..n)]
    BY ONLY <1>1, <1>2, <2>2, <2>3
  <2> QED BY <1>1, <1>2, <1>3, <2>2, <2>4 DEF Looks, SameHits
<1>5. CASE Hit(c, p)
  <2>1. PICK e, used : e = Touch(c, p) /\ used = Use(rec, p)
    OBVIOUS
  <2>2. y = [x EXCEPT !.cache = e, !.recency = used]
    BY <1>1, <1>2, <1>5, <2>1 DEF LookUp, IsMissing
  <2>3. Touched(c, rec, e, used)
    BY <1>2, <1>5, <2>1, SyncTouch
  <2>4. Sync(e, used) /\ Full(e, used) /\ \A q : Hit(e, q) <=> Hit(c, q)
    BY <1>2, <2>3 DEF Touched, Full
  <2>5. e \in Seq(Entries) /\ used \in Seq(Prompts)
    BY <2>4 DEF Sync
  <2>6. y.cache = e /\ y.recency = used /\ y.missing = m
        /\ y \in [cache : Seq(Entries), recency : Seq(Prompts), missing : Seq(1..n)]
    BY ONLY <1>1, <1>2, <2>2, <2>5
  <2>7. ~Hit(lru, ps[i]) => i \in Range(y.missing)
    BY <1>1, <1>3, <1>5
  <2> QED BY <1>1, <1>3, <2>4, <2>6, <2>7 DEF Looks, SameHits
<1> QED BY <1>4, <1>5

LEMMA FillIs ==
  ASSUME NEW n \in Nat, NEW x, Looks(x, n), NEW p \in Prompts, NEW y, y = Fill(x, p, Encode(p))
  PROVE  Looks(y, n) /\ y.missing = x.missing
<1>1. PICK c, rec, e, used : /\ c = x.cache /\ rec = x.recency
                             /\ e = Put(c, p, Encode(p)) /\ used = Use(rec, p)
  OBVIOUS
<1>2. /\ Sync(c, rec) /\ Full(c, rec)
      /\ x \in [cache : Seq(Entries), recency : Seq(Prompts), missing : Seq(1..n)]
  BY <1>1 DEF Looks
<1>3. y = [x EXCEPT !.cache = e, !.recency = used]
  BY <1>1, <1>2 DEF Fill
<1>4. Sync(e, used) /\ Full(e, used)
  BY <1>1, <1>2, SyncPut
<1>5. e \in Seq(Entries) /\ used \in Seq(Prompts)
  BY <1>4 DEF Sync
<1>6. y.cache = e /\ y.recency = used /\ y.missing = x.missing
      /\ y \in [cache : Seq(Entries), recency : Seq(Prompts), missing : Seq(1..n)]
  BY ONLY <1>2, <1>3, <1>5
<1> QED BY <1>4, <1>6 DEF Looks

\* A run of steps in S is what a recursion with these steps yields.
Goes(S, b, n, op, d) ==
  /\ d[0] = b /\ d[0] \in S
  /\ \A i \in 1..n : i - 1 \in 0..n /\ d[i - 1] \in S /\ d[i] = op[<<d[i - 1], i>>] /\ d[i] \in S

LEMMA RunGoes ==
  ASSUME NEW S, NEW b, NEW n, NEW op, Steps(S, b, n, op), NEW d, Run(S, b, n, op, d)
  PROVE  Goes(S, b, n, op, d)
<1>1. n \in Nat /\ d \in [0..n -> S] /\ d[0] = b /\ \A i \in 1..n : d[i] = op[<<d[i - 1], i>>]
  BY DEF Steps, Run
<1>2. 0 \in 0..n /\ \A i \in 1..n : i - 1 \in 0..n /\ i \in 0..n
  BY <1>1
<1> QED BY <1>1, <1>2 DEF Goes

LEMMA LookedUpIs ==
  ASSUME Sync(lru, recency), Full(lru, recency),
         NEW n \in Nat, NEW ps \in [1..n -> Prompts], Len(ps) = n, NEW x, x = LookedUp(ps)
  PROVE  Looks(x, n) /\ \A i \in 1..n : ~Hit(lru, ps[i]) => i \in Range(x.missing)
<1> DEFINE b == [cache |-> lru, recency |-> recency, missing |-> << >>]
           S == {y \in [cache : Seq(Entries), recency : Seq(Prompts), missing : Seq(1..n)] :
                   Looks(y, n) /\ SameHits(y)}
           op == [z \in S \X (1..n) |-> LookUp(z[1], ps, z[2])]
           Runs(f) == f = [i \in 0..n |-> IF i = 0 THEN b ELSE LookUp(f[i - 1], ps, i)]
           d == CHOOSE f : Runs(f)
<1>1. b \in S
  <2>1. << >> \in Seq(1..n) /\ lru \in Seq(Entries) /\ recency \in Seq(Prompts)
    BY DEF Sync
  <2>2. b \in [cache : Seq(Entries), recency : Seq(Prompts), missing : Seq(1..n)]
    BY <2>1
  <2> QED BY <2>2 DEF Looks, SameHits
<1>2. ASSUME NEW y \in S, NEW i \in 1..n
      PROVE  /\ LookUp(y, ps, i) \in S /\ Range(y.missing) \subseteq Range(LookUp(y, ps, i).missing)
             /\ ~Hit(lru, ps[i]) => i \in Range(LookUp(y, ps, i).missing)
  <2>1. PICK z : z = LookUp(y, ps, i)
    OBVIOUS
  <2>2. Looks(y, n) /\ SameHits(y)
    OBVIOUS
  <2>3. /\ Looks(z, n) /\ SameHits(z) /\ Range(y.missing) \subseteq Range(z.missing)
        /\ ~Hit(lru, ps[i]) => i \in Range(z.missing)
    BY <2>1, <2>2, LookUpIs
  <2>4. z \in S
    BY <2>3 DEF Looks
  <2> HIDE DEF S
  <2> QED BY <2>1, <2>3, <2>4
<1> HIDE DEF S, b
<1>3. op \in [S \X (1..n) -> S] /\ \A y \in S, i \in 1..n : op[<<y, i>>] = LookUp(y, ps, i)
  BY <1>2
<1>4. Steps(S, b, n, op)
  BY <1>1, <1>3 DEF Steps
<1> HIDE DEF op
<1>5. PICK g : Run(S, b, n, op, g)
  BY <1>4, Iterates
<1>6. Goes(S, b, n, op, g) /\ g \in [0..n -> S]
  BY <1>4, <1>5, RunGoes DEF Run
<1>7. Runs(g)
  <2> SUFFICES ASSUME NEW i \in 0..n PROVE g[i] = IF i = 0 THEN b ELSE LookUp(g[i - 1], ps, i)
    BY <1>6
  <2>1. i = 0 \/ i \in 1..n
    OBVIOUS
  <2> QED BY <1>3, <1>6, <2>1 DEF Goes
<1>8. Runs(d)
  <2> HIDE DEF Runs
  <2> QED BY <1>7
<1>9. x = d[n]
  BY DEF LookedUp, b
<1> HIDE DEF d
<1>10. d[0] = b /\ \A i \in 1..n : d[i] = LookUp(d[i - 1], ps, i)
  BY <1>8
<1> HIDE DEF Runs
<1> DEFINE Seen(i) == \A j \in 1..n : j <= i /\ ~Hit(lru, ps[j]) => j \in Range(d[i].missing)
           G == {i \in 0..n : d[i] \in S /\ Seen(i)}
<1>11. 0 \in G
  BY <1>1, <1>10
<1>12. ASSUME NEW i \in 1..n, i - 1 \in G PROVE i \in G
  <2>1. PICK y : y = d[i - 1]
    OBVIOUS
  <2>2. y \in S /\ d[i] = LookUp(y, ps, i) /\ i \in 0..n
    BY <1>10, <1>12, <2>1
  <2>3. /\ d[i] \in S /\ Range(y.missing) \subseteq Range(d[i].missing)
        /\ ~Hit(lru, ps[i]) => i \in Range(d[i].missing)
    BY <1>2, <2>2
  <2>4. ASSUME NEW j \in 1..n, j <= i, ~Hit(lru, ps[j]) PROVE j \in Range(d[i].missing)
    <3>1. j = i \/ j <= i - 1
      BY <2>4
    <3>2. j <= i - 1 => j \in Range(y.missing)
      BY <1>12, <2>1, <2>4
    <3> QED BY <2>3, <2>4, <3>1, <3>2
  <2> QED BY <2>2, <2>3, <2>4
<1> HIDE DEF G
<1>13. 0..n \subseteq G
  BY <1>11, <1>12, Climb
<1>14. x \in S /\ \A i \in 1..n : ~Hit(lru, ps[i]) => i \in Range(x.missing)
  <2>1. n \in G
    BY <1>13
  <2>2. d[n] \in S /\ Seen(n)
    BY <2>1 DEF G
  <2> QED BY <1>9, <2>2
<1> QED BY <1>14 DEF S

LEMMA FilledIs ==
  ASSUME NEW n \in Nat, NEW ps \in [1..n -> Prompts], NEW x, Looks(x, n), NEW batch,
         batch = [k \in DOMAIN x.missing |-> Encode(ps[x.missing[k]])],
         NEW y, y = Filled(x, ps, batch)
  PROVE  Looks(y, n)
<1> DEFINE m == Len(x.missing)
           S == {z \in [cache : Seq(Entries), recency : Seq(Prompts), missing : Seq(1..n)] :
                   Looks(z, n)}
           op == [z \in S \X (1..m) |-> Fill(z[1], ps[x.missing[z[2]]], batch[z[2]])]
           Runs(f) == f = [k \in 0..m |->
                             IF k = 0 THEN x ELSE Fill(f[k - 1], ps[x.missing[k]], batch[k])]
           d == CHOOSE f : Runs(f)
<1>1. x \in S /\ x.missing \in Seq(1..n)
  BY DEF Looks
<1>2. m \in Nat /\ DOMAIN x.missing = 1..m /\ \A k \in 1..m : x.missing[k] \in 1..n
  BY <1>1
<1> HIDE DEF m
<1>3. \A k \in 1..m : ps[x.missing[k]] \in Prompts /\ batch[k] = Encode(ps[x.missing[k]])
  BY <1>2
<1>4. ASSUME NEW z \in S, NEW k \in 1..m
      PROVE  Fill(z, ps[x.missing[k]], batch[k]) \in S
  <2>1. PICK p, w : p = ps[x.missing[k]] /\ w = Fill(z, p, Encode(p))
    OBVIOUS
  <2>2. p \in Prompts /\ w = Fill(z, ps[x.missing[k]], batch[k]) /\ Looks(z, n)
    BY <1>3, <2>1
  <2>3. Looks(w, n)
    BY <2>1, <2>2, FillIs
  <2>4. w \in S
    BY <2>3 DEF Looks
  <2> HIDE DEF S
  <2> QED BY <2>2, <2>4
<1> HIDE DEF S
<1>5. op \in [S \X (1..m) -> S]
      /\ \A z \in S, k \in 1..m : op[<<z, k>>] = Fill(z, ps[x.missing[k]], batch[k])
  BY <1>4
<1>6. Steps(S, x, m, op)
  BY <1>1, <1>2, <1>5 DEF Steps
<1> HIDE DEF op
<1>7. PICK g : Run(S, x, m, op, g)
  BY <1>6, Iterates
<1>8. Goes(S, x, m, op, g) /\ g \in [0..m -> S]
  BY <1>6, <1>7, RunGoes DEF Run
<1>9. Runs(g)
  <2> SUFFICES ASSUME NEW k \in 0..m
               PROVE  g[k] = IF k = 0 THEN x ELSE Fill(g[k - 1], ps[x.missing[k]], batch[k])
    BY <1>8
  <2>1. k = 0 \/ k \in 1..m
    BY <1>2
  <2> QED BY <1>5, <1>8, <2>1 DEF Goes
<1>10. Runs(d)
  <2> HIDE DEF Runs
  <2> QED BY <1>9
<1>11. y = d[m]
  BY DEF Filled, m
<1> HIDE DEF d
<1>12. d[0] = x /\ \A k \in 1..m : d[k] = Fill(d[k - 1], ps[x.missing[k]], batch[k])
  <2>1. \A k \in 0..m : d[k] = IF k = 0 THEN x ELSE Fill(d[k - 1], ps[x.missing[k]], batch[k])
    BY <1>10
  <2>2. 0 \in 0..m /\ \A k \in 1..m : k \in 0..m /\ k # 0
    BY <1>2
  <2> QED BY ONLY <2>1, <2>2
<1> HIDE DEF Runs
<1> DEFINE G == {k \in 0..m : d[k] \in S}
<1>13. 0 \in G
  BY <1>1, <1>2, <1>12
<1>14. ASSUME NEW k \in 1..m, k - 1 \in G PROVE k \in G
  BY <1>2, <1>4, <1>12, <1>14
<1> HIDE DEF G
<1>15. 0..m \subseteq G
  BY <1>2, <1>13, <1>14, Climb
<1>16. y \in S
  BY <1>2, <1>11, <1>15 DEF G
<1> QED BY <1>16 DEF S

LEMMA EncodeBatchKeeps ==
  ASSUME TokenizerInv, NEW n \in 1..BatchSize, NEW ps \in [1..n -> Prompts], EncodeBatch(ps)
  PROVE  TokenizerInv'
<1>1. Sync(lru, recency) /\ Full(lru, recency) /\ LruSize \in Nat /\ n \in Nat
  BY TokenizerAssumption DEF TokenizerInv
<1>2. Len(ps) = n /\ DOMAIN ps = 1..n
  BY <1>1
<1>3. PICK looked, missing : looked = LookedUp(ps) /\ missing = looked.missing
  OBVIOUS
<1>4. PICK batch : batch = [k \in DOMAIN missing |-> Encode(ps[missing[k]])]
  OBVIOUS
<1>5. PICK filled : filled = Filled(looked, ps, batch)
  OBVIOUS
<1>6. /\ lru' = (IF LruSize = 0 THEN << >> ELSE Evict(filled.cache))
      /\ answer' = [prompts |-> ps,
           ids |-> [i \in DOMAIN ps |->
              IF Hit(lru, ps[i]) THEN lru[At(lru, ps[i])].ids
              ELSE IF \E k \in DOMAIN missing : missing[k] = i
                THEN batch[CHOOSE k \in DOMAIN missing : missing[k] = i]
              ELSE << >>]]
      /\ recency' = filled.recency
  BY <1>3, <1>4, <1>5 DEF EncodeBatch
<1>7. Looks(looked, n) /\ \A i \in 1..n : ~Hit(lru, ps[i]) => i \in Range(missing)
  BY <1>1, <1>2, <1>3, LookedUpIs
<1>8. Looks(filled, n)
  BY <1>1, <1>3, <1>4, <1>5, <1>7, FilledIs
<1>9. Sync(filled.cache, filled.recency) /\ Full(filled.cache, filled.recency)
  BY <1>8 DEF Looks
<1>10. Sync(lru', recency') /\ Full(lru', recency') /\ Len(lru') <= LruSize
  <2>1. CASE LruSize = 0
    <3>1. lru' = << >> /\ Len(<< >>) = 0
      BY <1>6, <2>1
    <3>2. Sync(<< >>, filled.recency)
      BY <1>9, SyncNothing
    <3> QED BY <1>6, <2>1, <3>1, <3>2 DEF Full
  <2>2. CASE LruSize # 0
    <3>1. PICK c, rec : c = filled.cache /\ rec = filled.recency
      OBVIOUS
    <3>2. lru' = Evict(c) /\ recency' = rec
      BY <1>6, <2>2, <3>1
    <3> QED BY <1>9, <3>1, <3>2, SyncEvict
  <2> QED BY <2>1, <2>2
<1>11. ASSUME NEW i \in 1..n
       PROVE  (IF Hit(lru, ps[i]) THEN lru[At(lru, ps[i])].ids
               ELSE IF \E k \in DOMAIN missing : missing[k] = i
                 THEN batch[CHOOSE k \in DOMAIN missing : missing[k] = i]
               ELSE << >>) = Encode(ps[i])
  <2>1. CASE Hit(lru, ps[i])
    BY <1>1, <2>1, CachedIds
  <2>2. CASE ~Hit(lru, ps[i])
    <3>1. \E k \in DOMAIN missing : missing[k] = i
      BY <1>7, <2>2 DEF Range
    <3>2. PICK k : k = CHOOSE z \in DOMAIN missing : missing[z] = i
      OBVIOUS
    <3>3. k \in DOMAIN missing /\ missing[k] = i
      BY <3>1, <3>2
    <3>4. batch[k] = Encode(ps[i])
      BY <1>4, <3>3
    <3> QED BY <2>2, <3>1, <3>2, <3>4
  <2> QED BY <2>1, <2>2
<1>12. AnswersInOrder'
  <2>1. answer'.prompts = ps
    BY <1>6
  <2>2. answer'.ids = [i \in 1..n |-> Encode(ps[i])]
    BY <1>2, <1>6, <1>11
  <2> QED BY <1>2, <2>1, <2>2 DEF AnswersInOrder
<1> QED BY <1>10, <1>12 DEF TokenizerInv

\* The tokenizer's variables do not change in the other two parts.
LEMMA TokenizerInvariance == Spec => []TokenizerInv
<1>1. Init => TokenizerInv
  BY TokenizerInitIs DEF Init
<1>2. ASSUME TokenizerInv, [Next]_vars PROVE TokenizerInv'
  <2>1. CASE \E p \in Prompts : EncodeOne(p)
    BY <1>2, <2>1, EncodeOneKeeps
  <2>2. CASE \E n \in 1..BatchSize : \E ps \in [1..n -> Prompts] : EncodeBatch(ps)
    BY <1>2, <2>2, EncodeBatchKeeps
  <2>3. CASE lru' = lru /\ answer' = answer /\ recency' = recency
    BY <1>2, <2>3 DEF TokenizerInv, AnswersInOrder
  <2>4. TokenizerNext \/ (lru' = lru /\ answer' = answer /\ recency' = recency)
    BY <1>2 DEF Next, vars
  <2> QED BY <2>1, <2>2, <2>3, <2>4 DEF TokenizerNext
<1> QED BY <1>1, <1>2, PTL DEF Spec

\* encode_one and encode_batch give every prompt its own ids, in the order of the
\* prompts, whichever of them were cached and however often one is repeated; and the
\* cache holds exactly the prompts used last.
THEOREM PromptsAnsweredTheorem == Spec => []PromptsAnswered
<1>1. ASSUME TokenizerInv PROVE LeastRecentlyUsed
  <2>1. PICK n, m, s : n = Len(lru) /\ m = Len(recency) /\ s = Keys(lru)
    OBVIOUS
  <2>2. PICK d : d = m - n
    OBVIOUS
  <2>3. /\ n \in Nat /\ d \in Nat /\ m = d + n /\ DOMAIN lru = 1..n
        /\ \A i \in 1..n : d + i \in 1..m /\ recency[d + i] \in Prompts /\ lru[i].key = recency[d + i]
    <3>1. InStep(lru, recency, n, d)
      BY <1>1, <2>1, <2>2, SyncIs DEF TokenizerInv
    <3> QED BY <2>1, <3>1 DEF InStep
  <2>4. recency \in Seq(Prompts)
    BY <1>1 DEF TokenizerInv, Sync
  <2>5. s = [i \in 1..n |-> lru[i].key]
    BY <2>1, <2>3 DEF Keys
  <2>6. s \in [1..n -> Prompts]
    BY <2>3, <2>5
  <2>7. s \in Seq(Prompts) /\ Len(s) = n /\ \A i \in 1..n : s[i] = recency[d + i]
    BY <2>3, <2>5, <2>6
  <2>8. PICK k, f : k = m - n + 1 /\ f = SubSeq(recency, k, m)
    OBVIOUS
  <2>9. k \in Int /\ m \in Int /\ k = d + 1 /\ \A i \in k..m : recency[i] \in Prompts
    BY <2>1, <2>3, <2>4, <2>8
  <2>10. /\ f \in Seq(Prompts) /\ Len(f) = (IF k <= m THEN m - k + 1 ELSE 0)
         /\ \A i \in 1..(m - k + 1) : f[i] = recency[k + i - 1]
    BY ONLY <2>8, <2>9, SubSeqProperties
  <2>11. Len(f) = n /\ m - k + 1 = n
    BY <2>3, <2>9, <2>10
  <2>12. \A i \in 1..n : s[i] = f[i]
    <3> TAKE i \in 1..n
    <3>1. f[i] = recency[k + i - 1] /\ k + i - 1 = d + i
      BY <2>3, <2>9, <2>10, <2>11
    <3> QED BY <2>7, <3>1
  <2>13. s = f
    BY <2>7, <2>10, <2>11, <2>12, SameSeq
  <2>14. n = IF m < LruSize THEN m ELSE LruSize
    BY <1>1, <2>1, <2>3, TokenizerAssumption DEF TokenizerInv, Full
  <2> QED BY <2>1, <2>8, <2>13, <2>14 DEF LeastRecentlyUsed
<1>2. TokenizerInv => PromptsAnswered
  BY <1>1 DEF TokenizerInv, PromptsAnswered
<1> QED BY <1>2, TokenizerInvariance, PTL
=============================================================================
