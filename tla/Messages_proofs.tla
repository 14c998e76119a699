-------------------------- MODULE Messages_proofs --------------------------
(***************************************************************************)
(* The writer and the reader of words are exact, for all messages.  The    *)
(* invariants are about the scratch: it holds less than a word, and what is *)
(* stored or fetched is whole words, so that an array that begins anywhere *)
(* in a word finds its scratch empty before words are copied past it.      *)
(***************************************************************************)
EXTENDS Messages, SequenceTheorems, TLAPS

Bytes == Seq(Byte)

Whole(n) == n % 4 = 0

Exact(w, t) ==
  /\ w = [memory |-> w.memory, scratch |-> w.scratch, written |-> w.written]
  /\ w.memory \in Bytes /\ w.scratch \in Bytes
  /\ t = w.memory \o w.scratch
  /\ w.written = Len(w.memory) + Len(w.scratch)
  /\ Whole(Len(w.memory))
  /\ Len(w.scratch) <= 3

-----------------------------------------------------------------------------
(***************************************************************************)
(* Strings of bytes.                                                       *)
(***************************************************************************)
LEMMA Lengths == \A s \in Bytes : Len(s) \in Nat
BY LenProperties DEF Bytes

LEMMA Concat ==
  \A s, t \in Bytes : s \o t \in Bytes /\ Len(s \o t) = Len(s) + Len(t)
BY DEF Bytes

LEMMA Assoc ==
  \A s, t, u \in Bytes : (s \o t) \o u = s \o (t \o u)
BY ConcatAssociative DEF Bytes

\* A string is its beginning and what follows it.
LEMMA Cut ==
  \A s \in Bytes : \A k \in Nat : k <= Len(s) =>
    /\ SubSeq(s, 1, k) \in Bytes /\ Len(SubSeq(s, 1, k)) = k
    /\ SubSeq(s, k + 1, Len(s)) \in Bytes
    /\ Len(SubSeq(s, k + 1, Len(s))) = Len(s) - k
    /\ SubSeq(s, 1, k) \o SubSeq(s, k + 1, Len(s)) = s
<1> SUFFICES ASSUME NEW s \in Seq(Byte), NEW k \in Nat, k <= Len(s)
             PROVE  /\ SubSeq(s, 1, k) \in Seq(Byte) /\ Len(SubSeq(s, 1, k)) = k
                    /\ SubSeq(s, k + 1, Len(s)) \in Seq(Byte)
                    /\ Len(SubSeq(s, k + 1, Len(s))) = Len(s) - k
                    /\ SubSeq(s, 1, k) \o SubSeq(s, k + 1, Len(s)) = s
  BY DEF Bytes
<1>1. SubSeq(s, 1, k) \in Seq(Byte) /\ Len(SubSeq(s, 1, k)) = k
  OBVIOUS
<1>2. SubSeq(s, k + 1, Len(s)) \in Seq(Byte) /\ Len(SubSeq(s, k + 1, Len(s))) = Len(s) - k
  OBVIOUS
<1>3. SubSeq(s, 1, k) \o SubSeq(s, k + 1, Len(s)) = SubSeq(s, 1, Len(s))
  <2>1. Len(s) \in Nat
    OBVIOUS
  <2>2. 1 \in 1 .. Len(s) + 1 /\ k \in 1 - 1 .. Len(s) /\ Len(s) \in k .. Len(s)
    BY <2>1
  <2> QED
    BY <2>2, ConcatAdjacentSubSeq
<1>4. SubSeq(s, 1, Len(s)) = s
  BY SubSeqFull
<1> QED
  BY <1>1, <1>2, <1>3, <1>4

LEMMA Empty == << >> \in Bytes /\ Len(<< >>) = 0 /\ \A s \in Bytes : << >> \o s = s /\ s \o << >> = s
BY EmptySeq, ConcatEmptySeq DEF Bytes

\* Another word is stored.
LEMMA WholeAgain == Whole(0) /\ \A n \in Nat : Whole(n) => Whole(n + 0) /\ Whole(n + 4)
BY DEF Whole

-----------------------------------------------------------------------------
(***************************************************************************)
(* The operations of the writer.                                           *)
(***************************************************************************)
\* A new writer has been given nothing.
LEMMA NewWriterExact == Exact(NewWriter, << >>)
<1> DEFINE e == << >>
<1>1. e \in Bytes /\ Len(e) = 0 /\ e \o e = e
  BY Empty, Zenon
<1>2. NewWriter = [memory |-> e, scratch |-> e, written |-> 0]
  BY DEF NewWriter
<1> HIDE DEF e
<1>3. Whole(0)
  BY DEF Whole
<1>4. Exact(NewWriter, e)
  BY <1>1, <1>2, <1>3 DEF Exact
<1> QED
  BY <1>4 DEF e

\* WriteBits appends, and the scratch overflows by a word at most.
LEMMA WriteBitsExact ==
  ASSUME NEW w, NEW t, Exact(w, t), NEW b \in Bytes, Len(b) <= 4
  PROVE  /\ Exact(WriteBits(w, b), t \o b)
         /\ Len(w.scratch) + Len(b) >= 4
             => Len(WriteBits(w, b).scratch) = Len(w.scratch) + Len(b) - 4
         /\ ~(Len(w.scratch) + Len(b) >= 4)
             => Len(WriteBits(w, b).scratch) = Len(w.scratch) + Len(b)
<1> DEFINE m == w.memory
           c == w.scratch
           n == w.written
           p == c \o b
           k == IF Len(p) >= 4 THEN 4 ELSE 0
           x == SubSeq(p, 1, k)
           y == SubSeq(p, k + 1, Len(p))
           r == WriteBits(w, b)
<1>1. /\ m \in Bytes /\ c \in Bytes /\ Len(c) <= 3 /\ Whole(Len(m))
      /\ n = Len(m) + Len(c)
      /\ t = m \o c
  BY DEF Exact
<1>2. r = [memory |-> m \o x, scratch |-> y, written |-> n + Len(b)]
  BY DEF WriteBits, WordBytes
<1>3. k \in Nat /\ (Len(p) >= 4 => k = 4) /\ (~(Len(p) >= 4) => k = 0)
  OBVIOUS
<1>4. p \in Bytes /\ Len(p) = Len(c) + Len(b)
  BY <1>1, Concat, Zenon
<1>5. Len(m) \in Nat /\ Len(c) \in Nat /\ Len(b) \in Nat /\ Len(p) \in Nat
  BY <1>1, <1>4, Lengths, Zenon
<1> HIDE DEF m, c, n, r, k
<1>6. /\ k <= Len(p) /\ Whole(Len(m) + k)
      /\ (Len(m) + k) + (Len(p) - k) = (Len(m) + Len(c)) + Len(b)
      /\ Len(p) - k <= 3
      /\ Len(c) + Len(b) >= 4 => Len(p) - k = Len(c) + Len(b) - 4
      /\ ~(Len(c) + Len(b) >= 4) => Len(p) - k = Len(c) + Len(b)
  <2> DEFINE lm == Len(m)
             lc == Len(c)
             lb == Len(b)
             lp == Len(p)
  <2>1. /\ lm \in Nat /\ lc \in Nat /\ lb \in Nat /\ lp \in Nat
        /\ Whole(lm) /\ lc <= 3 /\ lb <= 4 /\ lp = lc + lb
        /\ (lp >= 4 => k = 4) /\ (~(lp >= 4) => k = 0) /\ k \in Nat
    BY <1>1, <1>3, <1>4, <1>5, Zenon
  <2> HIDE DEF lm, lc, lb, lp
  <2>2. /\ k <= lp
        /\ (lm + k) + (lp - k) = (lm + lc) + lb
        /\ lp - k <= 3
        /\ lc + lb >= 4 => lp - k = lc + lb - 4
        /\ ~(lc + lb >= 4) => lp - k = lc + lb
    BY <2>1
  <2>3. Whole(lm + k)
    BY <2>1, WholeAgain, Zenon
  <2> QED
    BY <2>2, <2>3, Zenon DEF lm, lc, lb, lp
<1>7. /\ x \in Bytes /\ Len(x) = k /\ y \in Bytes /\ Len(y) = Len(p) - k
      /\ x \o y = p
  BY <1>3, <1>4, <1>6, Cut, Zenon
<1>8. m \o x \in Bytes /\ Len(m \o x) = Len(m) + k
  <2>1. m \in Bytes /\ x \in Bytes /\ Len(x) = k
    BY <1>1, <1>7, Zenon
  <2> HIDE DEF x
  <2>2. m \o x \in Bytes /\ Len(m \o x) = Len(m) + Len(x)
    BY <2>1, Concat, Zenon
  <2> QED BY <2>1, <2>2, Zenon
<1>9. (m \o x) \o y = t \o b
  <2>1. m \in Bytes /\ c \in Bytes /\ x \in Bytes /\ y \in Bytes
    BY <1>1, <1>7, Zenon
  <2>2. x \o y = c \o b /\ t = m \o c
    BY <1>1, <1>7, Zenon
  <2> HIDE DEF x, y, p
  <2>3. (m \o x) \o y = m \o (x \o y)
    BY <2>1, Assoc, Zenon
  <2>4. (m \o c) \o b = m \o (c \o b)
    BY <2>1, Assoc, Zenon
  <2> QED BY <2>2, <2>3, <2>4, Zenon
<1> HIDE DEF x, y
<1>10. /\ r.memory = m \o x /\ r.scratch = y /\ r.written = n + Len(b)
       /\ r = [memory |-> r.memory, scratch |-> r.scratch, written |-> r.written]
  <2> DEFINE z == m \o x
             u == n + Len(b)
  <2>1. r = [memory |-> z, scratch |-> y, written |-> u]
    BY <1>2, Zenon
  <2> HIDE DEF z, u
  <2>2. /\ r.memory = z /\ r.scratch = y /\ r.written = u
        /\ r = [memory |-> r.memory, scratch |-> r.scratch, written |-> r.written]
    BY <2>1
  <2> QED BY <2>2, Zenon DEF z, u
<1>11. r.written = Len(r.memory) + Len(r.scratch)
  BY <1>1, <1>6, <1>7, <1>8, <1>10, Zenon
<1>12. Exact(r, t \o b)
  BY <1>6, <1>7, <1>8, <1>9, <1>10, <1>11, Zenon DEF Exact
<1> QED
  BY <1>6, <1>7, <1>10, <1>12, Zenon DEF r, c

\* There is nothing to flush between head and body.
LEMMA NoFlush ==
  ASSUME NEW w, w.scratch \in Bytes, Len(w.scratch) = 0
  PROVE  FlushBits(w) = w
<1>1. w.scratch = << >>
  BY EmptySeq DEF Bytes
<1> QED BY <1>1 DEF FlushBits

\* Two fields of a writer are assigned.
LEMMA TwoFields ==
  \A w, m, c, v, z, u :
    w = [memory |-> m, scratch |-> c, written |-> v]
    => [w EXCEPT !.memory = z, !.written = u] = [memory |-> z, scratch |-> c, written |-> u]
<1> TAKE w, m, c, v, z, u
<1> HAVE w = [memory |-> m, scratch |-> c, written |-> v]
<1> DEFINE S == {m, c, v, z, u}
           R == [memory : S, scratch : S, written : S]
           x == [w EXCEPT !.memory = z, !.written = u]
           y == [memory |-> z, scratch |-> c, written |-> u]
<1>1. /\ m \in S /\ c \in S /\ v \in S /\ z \in S /\ u \in S
  OBVIOUS
<1> HIDE DEF S
<1>2. w \in R /\ y \in R
  BY <1>1
<1>3. x \in R
  BY <1>1, <1>2
<1>4. x.memory = y.memory /\ x.scratch = y.scratch /\ x.written = y.written
  BY <1>1, <1>2
<1> HIDE DEF x, y
<1>5. x = y
  BY <1>2, <1>3, <1>4
<1> QED BY <1>5 DEF x, y

\* The words of an array are copied past an empty scratch.
LEMMA CopyExact ==
  ASSUME NEW w, NEW t, Exact(w, t), Len(w.scratch) = 0,
         NEW x \in Bytes, NEW n, n = Len(x), Whole(n)
  PROVE  Exact([w EXCEPT !.memory = @ \o x, !.written = @ + n], t \o x)
<1> DEFINE m == w.memory
           c == w.scratch
           z == m \o x
           u == w.written + n
           r == [w EXCEPT !.memory = @ \o x, !.written = @ + n]
<1>1. /\ m \in Bytes /\ c \in Bytes /\ Whole(Len(m))
      /\ w.written = Len(m) + Len(c)
      /\ t = m \o c
      /\ w = [memory |-> m, scratch |-> c, written |-> w.written]
  BY DEF Exact
<1>2. c = << >> /\ Len(c) = 0
  <2>1. c \in Seq(Byte) /\ Len(c) = 0
    BY <1>1 DEF Bytes
  <2> QED BY <2>1, EmptySeq
<1>3. Len(m) \in Nat /\ Len(x) \in Nat
  BY <1>1, Lengths, Zenon
<1>4. t = m
  BY <1>1, <1>2, Empty, Zenon
<1>5. z \in Bytes /\ Len(z) = Len(m) + Len(x) /\ z \o c = t \o x
  BY <1>1, <1>2, <1>4, Concat, Empty, Zenon
<1>6. r = [memory |-> z, scratch |-> c, written |-> u]
  <2> HIDE DEF c
  <2> DEFINE v == w.written
  <2>1. w = [memory |-> m, scratch |-> c, written |-> v]
    BY <1>1, Zenon
  <2>2. r = [w EXCEPT !.memory = z, !.written = u]
    BY <2>1
  <2> HIDE DEF m, v, z, u, r
  <2> QED BY <2>1, <2>2, TwoFields, Zenon
<1>7. Whole(Len(z)) /\ u = Len(z) + Len(c) /\ Len(c) <= 3
  <2> DEFINE lm == Len(m)
             lx == Len(x)
             lz == Len(z)
             lc == Len(c)
             v == w.written
  <2>1. /\ lm \in Nat /\ lx \in Nat /\ lc = 0 /\ lz = lm + lx /\ v = lm + lc
        /\ Whole(lm) /\ Whole(lx) /\ n = lx
    BY <1>1, <1>2, <1>3, <1>5, Zenon
  <2> HIDE DEF lm, lx, lz, lc, v
  <2>2. Whole(lz) /\ v + n = lz + lc /\ lc <= 3
    BY <2>1 DEF Whole
  <2> QED BY <2>2, Zenon DEF lz, lc, v
<1> HIDE DEF m, c, z, u, r
<1>8. r.memory = z /\ r.scratch = c /\ r.written = u
  BY <1>6
<1>9. Exact(r, t \o x)
  BY <1>1, <1>5, <1>6, <1>7, <1>8, Zenon DEF Exact
<1> QED BY <1>9, Zenon DEF r

-----------------------------------------------------------------------------
(***************************************************************************)
(* Arrays.                                                                 *)
(***************************************************************************)
\* An array is its head, its body and its tail.
LEMMA CutTwice ==
  \A s \in Bytes : \A j, k \in Nat : j <= k /\ k <= Len(s) =>
    /\ SubSeq(s, 1, j) \in Bytes /\ Len(SubSeq(s, 1, j)) = j
    /\ SubSeq(s, j + 1, k) \in Bytes /\ Len(SubSeq(s, j + 1, k)) = k - j
    /\ SubSeq(s, k + 1, Len(s)) \in Bytes /\ Len(SubSeq(s, k + 1, Len(s))) = Len(s) - k
    /\ (SubSeq(s, 1, j) \o SubSeq(s, j + 1, k)) \o SubSeq(s, k + 1, Len(s)) = s
<1> TAKE s \in Bytes
<1> TAKE j, k \in Nat
<1> HAVE j <= k /\ k <= Len(s)
<1>1. /\ SubSeq(s, k + 1, Len(s)) \in Bytes /\ Len(SubSeq(s, k + 1, Len(s))) = Len(s) - k
      /\ SubSeq(s, 1, k) \o SubSeq(s, k + 1, Len(s)) = s
  BY Cut, Zenon
<1>2. s \in Seq(Byte)
  BY DEF Bytes
<1>3. SubSeq(s, 1, j) \in Seq(Byte) /\ Len(SubSeq(s, 1, j)) = j
  BY <1>2
<1>4. SubSeq(s, j + 1, k) \in Seq(Byte) /\ Len(SubSeq(s, j + 1, k)) = k - j
  BY <1>2
<1>5. SubSeq(s, 1, j) \o SubSeq(s, j + 1, k) = SubSeq(s, 1, k)
  <2>1. Len(s) \in Nat
    BY <1>2
  <2>2. 1 \in 1 .. Len(s) + 1 /\ j \in 1 - 1 .. Len(s) /\ k \in j .. Len(s)
    BY <2>1
  <2> QED
    BY <1>2, <2>2, ConcatAdjacentSubSeq
<1> QED
  BY <1>1, <1>3, <1>4, <1>5, Zenon DEF Bytes

\* The head completes the word that waits in the scratch, unless the array ends first.
LEMMA HeadArithmetic ==
  ASSUME NEW m \in Nat, NEW c \in Nat, NEW n \in Nat, Whole(m), c <= 3,
         NEW head, head = HeadBytes(m + c, n)
  PROVE  /\ head \in Nat /\ head <= n /\ head <= 3
         /\ head # n => (c + head >= 4 /\ c + head - 4 = 0) \/ (~(c + head >= 4) /\ c + head = 0)
BY DEF HeadBytes, WordBytes, Whole

\* The body is whole words, and the tail less than a word.
LEMMA BodyArithmetic ==
  ASSUME NEW p, NEW n \in Nat, NEW head \in Nat, head <= n, head = HeadBytes(p, n),
         NEW body, body = BodyBytes(p, n)
  PROVE  /\ body \in Nat /\ Whole(body) /\ head + body <= n
         /\ n - (head + body) <= 3 /\ head <= head + body
BY DEF BodyBytes, WordBytes, Whole

\* WriteBytes appends: its head leaves an empty scratch or is all there is.
LEMMA WriteBytesExact ==
  ASSUME NEW w, NEW t, Exact(w, t), NEW d \in Bytes
  PROVE  Exact(WriteBytes(w, d), t \o d)
<1> DEFINE n == Len(d)
           head == HeadBytes(w.written, n)
           body == BodyBytes(w.written, n)
           a == SubSeq(d, 1, head)
           e == SubSeq(d, head + 1, head + body)
           z == SubSeq(d, head + body + 1, n)
           w1 == WriteBits(w, a)
           w2 == FlushBits(w1)
           w3 == [w2 EXCEPT !.memory = @ \o e, !.written = @ + body]
<1>1. WriteBytes(w, d) = IF head = n THEN w1 ELSE WriteBits(w3, z)
  BY DEF WriteBytes
<1>2. /\ n \in Nat /\ Len(w.memory) \in Nat /\ Len(w.scratch) \in Nat
      /\ Whole(Len(w.memory)) /\ Len(w.scratch) <= 3
      /\ w.written = Len(w.memory) + Len(w.scratch)
      /\ w.memory \in Bytes /\ w.scratch \in Bytes /\ t = w.memory \o w.scratch
  BY Lengths, Zenon DEF Exact
<1>3. t \in Bytes
  BY <1>2, Concat, Zenon
<1>4. /\ head \in Nat /\ head <= n /\ head <= 3
      /\ head # n => \/ Len(w.scratch) + head >= 4 /\ Len(w.scratch) + head - 4 = 0
                     \/ ~(Len(w.scratch) + head >= 4) /\ Len(w.scratch) + head = 0
  <2> DEFINE lm == Len(w.memory)
             lc == Len(w.scratch)
  <2>1. lm \in Nat /\ lc \in Nat /\ n \in Nat /\ Whole(lm) /\ lc <= 3 /\ head = HeadBytes(lm + lc, n)
    BY <1>2, Zenon
  <2> HIDE DEF lm, lc, n, head
  <2>2. /\ head \in Nat /\ head <= n /\ head <= 3
        /\ head # n => (lc + head >= 4 /\ lc + head - 4 = 0) \/ (~(lc + head >= 4) /\ lc + head = 0)
    BY <2>1, HeadArithmetic
  <2> QED BY <2>2, Zenon DEF lc
<1>5. /\ body \in Nat /\ Whole(body) /\ head + body <= n
      /\ n - (head + body) <= 3 /\ head <= head + body /\ head + body \in Nat
  <2>1. n \in Nat /\ head \in Nat /\ head <= n /\ head = HeadBytes(w.written, n)
        /\ body = BodyBytes(w.written, n)
    BY <1>2, <1>4, Zenon
  <2> HIDE DEF n, head, body
  <2>2. /\ body \in Nat /\ Whole(body) /\ head + body <= n
        /\ n - (head + body) <= 3 /\ head <= head + body
    BY <2>1, BodyArithmetic, Zenon
  <2> QED BY <2>1, <2>2
<1>6. /\ a \in Bytes /\ Len(a) = head
      /\ e \in Bytes /\ Len(e) = (head + body) - head
      /\ z \in Bytes /\ Len(z) = n - (head + body)
      /\ (a \o e) \o z = d
  <2> HIDE DEF head, body
  <2> QED BY <1>4, <1>5, CutTwice, Zenon
<1>7. Len(a) <= 4 /\ Len(e) = body /\ Len(z) <= 4
  <2> DEFINE la == Len(a)
             le == Len(e)
             lz == Len(z)
  <2>1. la = head /\ le = (head + body) - head /\ lz = n - (head + body)
        /\ head \in Nat /\ head <= 3 /\ body \in Nat /\ n \in Nat /\ n - (head + body) <= 3
    BY <1>2, <1>4, <1>5, <1>6, Zenon
  <2> HIDE DEF la, le, lz, n, head, body
  <2>2. la <= 4 /\ le = body /\ lz <= 4
    BY <2>1
  <2> QED BY <2>2, Zenon DEF la, le, lz
<1> HIDE DEF n, head, body, a, e, z
<1>8. /\ Exact(w1, t \o a)
      /\ Len(w.scratch) + head >= 4 => Len(w1.scratch) = Len(w.scratch) + head - 4
      /\ ~(Len(w.scratch) + head >= 4) => Len(w1.scratch) = Len(w.scratch) + head
  <2>1. /\ Exact(w1, t \o a)
        /\ Len(w.scratch) + Len(a) >= 4 => Len(w1.scratch) = Len(w.scratch) + Len(a) - 4
        /\ ~(Len(w.scratch) + Len(a) >= 4) => Len(w1.scratch) = Len(w.scratch) + Len(a)
    BY <1>6, <1>7, WriteBitsExact, Zenon
  <2> HIDE DEF w1
  <2> QED BY <1>6, <2>1, Zenon
<1>9. CASE head = n
  <2>1. body = 0 /\ Len(e) = 0 /\ Len(z) = 0
    <3> DEFINE le == Len(e)
               lz == Len(z)
    <3>1. /\ n \in Nat /\ body \in Nat /\ head + body <= n /\ head = n /\ le = body
          /\ lz = n - (head + body)
      BY <1>2, <1>5, <1>6, <1>7, <1>9, Zenon
    <3> HIDE DEF le, lz
    <3>2. body = 0 /\ le = 0 /\ lz = 0
      BY <3>1
    <3> QED BY <3>2, Zenon DEF le, lz
  <2>2. e = << >> /\ z = << >>
    <3>1. e \in Seq(Byte) /\ z \in Seq(Byte)
      BY <1>6, Zenon DEF Bytes
    <3> QED BY <2>1, <3>1, EmptySeq
  <2>3. a = d
    BY <1>6, <2>2, Empty, Zenon
  <2> HIDE DEF w1
  <2> QED BY <1>1, <1>8, <1>9, <2>3, Zenon
<1>10. CASE head # n
  <2> HIDE DEF w1
  <2>1. Len(w1.scratch) = 0 /\ w1.scratch \in Bytes
    BY <1>4, <1>8, <1>10, Zenon DEF Exact
  <2>2. w2 = w1
    BY <2>1, NoFlush, Zenon
  <2> HIDE DEF w2
  <2>3. w3 = [w1 EXCEPT !.memory = @ \o e, !.written = @ + body]
    BY <2>2, Zenon
  <2>4. Exact(w3, (t \o a) \o e)
    BY <1>5, <1>6, <1>7, <1>8, <2>1, <2>3, CopyExact, Zenon
  <2> HIDE DEF w3
  <2>5. Exact(WriteBits(w3, z), ((t \o a) \o e) \o z)
    BY <1>6, <1>7, <2>4, WriteBitsExact, Zenon
  <2>6. ((t \o a) \o e) \o z = t \o d
    <3>1. a \o e \in Bytes
      BY <1>6, Concat, Zenon
    <3>2. (t \o a) \o e = t \o (a \o e)
      BY <1>3, <1>6, Assoc, Zenon
    <3>3. (t \o (a \o e)) \o z = t \o ((a \o e) \o z)
      <4> DEFINE ae == a \o e
      <4>1. ae \in Bytes
        BY <3>1, Zenon
      <4>2. t \in Bytes /\ z \in Bytes
        BY <1>3, <1>6, Zenon
      <4> HIDE DEF ae
      <4>3. (t \o ae) \o z = t \o (ae \o z)
        BY <4>1, <4>2, Assoc, Zenon
      <4> QED BY <4>3, Zenon DEF ae
    <3> QED BY <1>6, <3>2, <3>3, Zenon
  <2> QED BY <1>1, <1>10, <2>5, <2>6, Zenon
<1> QED
  BY <1>9, <1>10, Zenon

-----------------------------------------------------------------------------
(***************************************************************************)
(* The last word.                                                          *)
(***************************************************************************)
\* What follows a string does not change it.
LEMMA Before == \A s, r \in Bytes : SubSeq(s \o r, 1, Len(s)) = s
<1> SUFFICES ASSUME NEW s \in Seq(Byte), NEW r \in Seq(Byte)
             PROVE  SubSeq(s \o r, 1, Len(s)) = s
  BY DEF Bytes
<1>1. s \o r \in Seq(Byte) /\ Len(s) \in Nat /\ Len(s) <= Len(s \o r) /\ Len(s \o r) \in Nat
      /\ \A i \in 1 .. Len(s) : (s \o r)[i] = s[i]
  OBVIOUS
<1>2. /\ SubSeq(s \o r, 1, Len(s)) \in Seq(Byte)
      /\ Len(SubSeq(s \o r, 1, Len(s))) = Len(s)
      /\ \A i \in 1 .. Len(s) : SubSeq(s \o r, 1, Len(s))[i] = s[i]
  <2> DEFINE x == s \o r
  <2> HIDE DEF x
  <2>1. x \in Seq(Byte) /\ Len(s) \in Nat /\ Len(s) <= Len(x) /\ \A i \in 1 .. Len(s) : x[i] = s[i]
    BY <1>1 DEF x
  <2>2. /\ SubSeq(x, 1, Len(s)) \in Seq(Byte)
        /\ Len(SubSeq(x, 1, Len(s))) = Len(s)
        /\ \A i \in 1 .. Len(s) : SubSeq(x, 1, Len(s))[i] = s[i]
    BY <2>1
  <2> QED BY <2>2 DEF x
<1> QED
  BY <1>2, SeqEqual

\* What is computed byte by byte is a string.
LEMMA OfFunction == \A n \in Nat : \A f \in [1..n -> Byte] : f \in Bytes /\ Len(f) = n
<1> TAKE n \in Nat
<1> TAKE f \in [1..n -> Byte]
<1>1. f \in Seq(Byte)
  BY SeqDef
<1>2. DOMAIN f = 1..n /\ DOMAIN f = 1..Len(f) /\ Len(f) \in Nat
  BY <1>1, LenProperties
<1>3. Len(f) = n
  <2> DEFINE l == Len(f)
  <2>1. l \in Nat /\ 1..l = 1..n
    BY <1>2
  <2> HIDE DEF l
  <2>2. (n >= 1 => n \in 1..l) /\ (l >= 1 => l \in 1..n)
    BY <2>1
  <2>3. l = n
    BY <2>1, <2>2
  <2> QED BY <2>3 DEF l
<1> QED BY <1>1, <1>3 DEF Bytes

\* A string that is filled up to a word begins with the string.
LEMMA Filled ==
  ASSUME NEW c \in Seq(Byte), Len(c) <= 3,
         NEW f, f = [i \in 1..4 |-> IF i <= Len(c) THEN c[i] ELSE 0]
  PROVE  \E r \in Seq(Byte) : f = c \o r
<1> DEFINE l == Len(c)
<1>1. l \in Nat /\ l <= 3 /\ \A i \in 1..l : c[i] \in Byte
  OBVIOUS
<1>2. f \in Seq(Byte) /\ Len(f) = 4 /\ \A i \in 1..l : f[i] = c[i]
  <2>1. 0 \in Byte
    BY DEF Byte
  <2> HIDE DEF l
  <2>2. f = [i \in 1..4 |-> IF i <= l THEN c[i] ELSE 0]
    BY DEF l
  <2>3. \A i \in 1..4 : f[i] \in Byte
    BY <1>1, <2>1, <2>2
  <2>4. f \in [1..4 -> Byte]
    BY <2>2, <2>3
  <2>5. \A i \in 1..l : f[i] = c[i]
    BY <1>1, <2>2
  <2>6. f \in Seq(Byte) /\ Len(f) = 4
    BY <2>4, OfFunction, Zenon DEF Bytes
  <2> QED BY <2>5, <2>6, Zenon
<1>3. SubSeq(f, 1, l) = c
  <2>1. /\ SubSeq(f, 1, l) \in Seq(Byte) /\ Len(SubSeq(f, 1, l)) = l
        /\ \A i \in 1..l : SubSeq(f, 1, l)[i] = c[i]
    <3> HIDE DEF l
    <3> QED BY <1>1, <1>2
  <2> QED BY <2>1, SeqEqual
<1>4. SubSeq(f, l + 1, 4) \in Seq(Byte) /\ SubSeq(f, 1, l) \o SubSeq(f, l + 1, 4) = SubSeq(f, 1, 4)
  <2> HIDE DEF l
  <2>1. 1 \in 1 .. Len(f) + 1 /\ l \in 1 - 1 .. Len(f) /\ 4 \in l .. Len(f)
    BY <1>1, <1>2
  <2>2. SubSeq(f, 1, l) \o SubSeq(f, l + 1, 4) = SubSeq(f, 1, 4)
    BY <1>2, <2>1, ConcatAdjacentSubSeq
  <2>3. SubSeq(f, l + 1, 4) \in Seq(Byte)
    BY <1>1, <1>2
  <2> QED BY <2>2, <2>3
<1>5. SubSeq(f, 1, 4) = f
  BY <1>2, SubSeqFull
<1> QED
  BY <1>3, <1>4, <1>5

\* FlushBits stores everything.
LEMMA FlushExact ==
  ASSUME NEW w, NEW t, Exact(w, t)
  PROVE  /\ FlushBits(w).written = Len(t)
         /\ SubSeq(FlushBits(w).memory, 1, FlushBits(w).written) = t
<1> DEFINE m == w.memory
           c == w.scratch
           f == [i \in 1..4 |-> IF i <= Len(c) THEN c[i] ELSE 0]
<1>1. /\ m \in Bytes /\ c \in Bytes /\ t = m \o c
      /\ w.written = Len(m) + Len(c) /\ Len(c) <= 3
      /\ w = [memory |-> m, scratch |-> c, written |-> w.written]
  BY DEF Exact
<1>2. t \in Bytes /\ w.written = Len(t)
  BY <1>1, Concat, Zenon
<1>3. CASE c = << >>
  <2>1. FlushBits(w) = w
    BY <1>3 DEF FlushBits
  <2>2. m = t
    BY <1>1, <1>3, Empty, Zenon
  <2>3. SubSeq(t, 1, Len(t)) = t
    BY <1>2, SubSeqFull DEF Bytes
  <2> QED BY <1>2, <2>1, <2>2, <2>3, Zenon
<1>4. CASE c # << >>
  <2>1. PICK r \in Bytes : f = c \o r
    <3>1. c \in Seq(Byte) /\ Len(c) <= 3
      BY <1>1 DEF Bytes
    <3> HIDE DEF c
    <3> QED BY <3>1, Filled, Zenon DEF Bytes
  <2>2. FlushBits(w) = [w EXCEPT !.memory = m \o f, !.scratch = << >>]
    BY <1>4, Zenon DEF FlushBits, WordBytes
  <2>3. m \o f = t \o r
    <3> HIDE DEF m, c, f
    <3> QED BY <1>1, <2>1, Assoc, Zenon
  <2>4. FlushBits(w).memory = m \o f /\ FlushBits(w).written = w.written
    <3> DEFINE z == m \o f
               v == w.written
    <3>1. w = [memory |-> m, scratch |-> c, written |-> v]
      BY <1>1, Zenon
    <3>2. FlushBits(w) = [w EXCEPT !.memory = z, !.scratch = << >>]
      BY <2>2, Zenon
    <3> HIDE DEF m, c, f, z
    <3>3. FlushBits(w).memory = z /\ FlushBits(w).written = w.written
      BY <3>1, <3>2
    <3> QED BY <3>3, Zenon DEF z
  <2>5. SubSeq(t \o r, 1, Len(t)) = t
    BY <1>2, Before, Zenon
  <2> QED BY <1>2, <2>3, <2>4, <2>5, Zenon
<1> QED BY <1>3, <1>4, Zenon

-----------------------------------------------------------------------------
(***************************************************************************)
(* Fields.                                                                 *)
(***************************************************************************)
LEMMA Bytes32Typed == \A n \in Nat : Bytes32(n) \in Bytes /\ Len(Bytes32(n)) <= 4
<1> TAKE n \in Nat
<1> DEFINE a == n % 256
           b == (n \div 256) % 256
           c == (n \div 65536) % 256
           d == (n \div 16777216) % 256
<1>1. a \in Byte /\ b \in Byte /\ c \in Byte /\ d \in Byte
  BY DEF Byte
<1>2. Bytes32(n) = <<a, b, c, d>>
  BY DEF Bytes32
<1> HIDE DEF a, b, c, d
<1>3. <<a, b, c, d>> \in Seq(Byte) /\ Len(<<a, b, c, d>>) = 4
  BY <1>1
<1> QED BY <1>2, <1>3 DEF Bytes

LEMMA ZerosTyped == /\ \A n \in Nat : Zeros(n) \in Bytes
                    /\ Zeros(0) = << >>
                    /\ \A n \in Nat : Padding(n) \in Nat
<1>1. \A n \in Nat : Zeros(n) \in Bytes /\ Len(Zeros(n)) = n
  <2> TAKE n \in Nat
  <2>1. Zeros(n) \in [1..n -> Byte]
    BY DEF Zeros, Byte
  <2> QED BY <2>1, OfFunction, Zenon
<1>2. Zeros(0) = << >>
  <2>1. Zeros(0) \in Bytes /\ Len(Zeros(0)) = 0
    BY <1>1
  <2> QED BY <2>1, EmptySeq DEF Bytes
<1>3. \A n \in Nat : Padding(n) \in Nat
  BY DEF Padding
<1> QED BY <1>1, <1>2, <1>3, Zenon

\* A size and an array.
LEMMA WriteVectorExact ==
  ASSUME NEW w, NEW t, Exact(w, t), NEW d \in Bytes
  PROVE  Exact(WriteVector(w, d), t \o (Bytes32(Len(d)) \o d))
<1> DEFINE b == Bytes32(Len(d))
           sized == WriteBits(w, b)
<1>1. b \in Bytes /\ Len(b) <= 4
  BY Lengths, Bytes32Typed, Zenon
<1>2. t \in Bytes
  BY Concat, Zenon DEF Exact
<1>3. WriteVector(w, d) = IF d = << >> THEN sized ELSE WriteBytes(sized, d)
  BY DEF WriteVector
<1> HIDE DEF b
<1>4. Exact(sized, t \o b)
  BY <1>1, WriteBitsExact, Zenon
<1> HIDE DEF sized
<1>5. Exact(WriteBytes(sized, d), (t \o b) \o d)
  BY <1>4, WriteBytesExact, Zenon
<1>6. (t \o b) \o d = t \o (b \o d)
  BY <1>1, <1>2, Assoc, Zenon
<1>7. d = << >> => b \o d = b
  BY <1>1, Empty, Zenon
<1>8. Exact(WriteVector(w, d), t \o (b \o d))
  BY <1>3, <1>4, <1>5, <1>6, <1>7, Zenon
<1> QED BY <1>8, Zenon DEF b

\* A string has a header, its size, its bytes and a padding.
LEMMA WriteStringExact ==
  ASSUME NEW w, NEW t, Exact(w, t), NEW d \in Bytes
  PROVE  Exact(WriteString(w, d), t \o FieldText("string", d))
<1> DEFINE h == Bytes32(4)
           b == Bytes32(Len(d))
           p == Padding(Len(d))
           z == Zeros(p)
           w1 == WriteBits(w, h)
           w2 == WriteVector(w1, d)
           v == b \o d
<1>1. Len(d) \in Nat
  BY Lengths, Zenon
<1>2. h \in Bytes /\ Len(h) <= 4
  BY Bytes32Typed
<1>3. b \in Bytes /\ p \in Nat /\ z \in Bytes /\ (p = 0 => z = << >>)
  BY <1>1, Bytes32Typed, ZerosTyped, Zenon
<1>4. WriteString(w, d) = IF p = 0 THEN w2 ELSE WriteBytes(w2, z)
  BY DEF WriteString
<1>5. FieldText("string", d) = ((h \o b) \o d) \o z
  BY DEF FieldText
<1>6. t \in Bytes
  BY Concat, Zenon DEF Exact
<1> HIDE DEF h, p, z
<1>7. Exact(w1, t \o h)
  BY <1>2, WriteBitsExact, Zenon
<1> HIDE DEF w1
<1>8. Exact(w2, (t \o h) \o v)
  BY <1>7, WriteVectorExact, Zenon
<1> HIDE DEF w2, b
<1>9. v \in Bytes
  BY <1>3, Concat, Zenon
<1>10. (h \o b) \o d = h \o v
  BY <1>2, <1>3, Assoc, Zenon
<1> HIDE DEF v
<1>11. (t \o h) \o v \in Bytes /\ h \o v \in Bytes
  BY <1>2, <1>6, <1>9, Concat, Zenon
<1>12. ((t \o h) \o v) \o z = t \o ((h \o v) \o z)
  <2> DEFINE x == h \o v
  <2>1. (t \o h) \o v = t \o x
    BY <1>2, <1>6, <1>9, Assoc, Zenon
  <2>2. x \in Bytes
    BY <1>11
  <2> HIDE DEF x
  <2>3. (t \o x) \o z = t \o (x \o z)
    BY <1>3, <1>6, <2>2, Assoc, Zenon
  <2>4. ((t \o h) \o v) \o z = t \o (x \o z)
    BY <2>1, <2>3, Zenon
  <2> QED BY <2>4, Zenon DEF x
<1>13. Exact(WriteBytes(w2, z), ((t \o h) \o v) \o z)
  BY <1>3, <1>8, WriteBytesExact, Zenon
<1>14. p = 0 => ((t \o h) \o v) \o z = (t \o h) \o v
  BY <1>3, <1>11, Empty, Zenon
<1> QED
  BY <1>4, <1>5, <1>8, <1>10, <1>12, <1>13, <1>14, Zenon

-----------------------------------------------------------------------------
(***************************************************************************)
(* Messages.                                                               *)
(***************************************************************************)
Kinds == {"string", "vector", "uint8", "uint16", "uint32"}

\* The structs have strings, arrays and numbers of a word at most.
LEMMA FormatKinds == \A s \in DOMAIN Format : \A i \in DOMAIN Format[s] : Format[s][i] \in Kinds
BY DEF Format, Kinds

LEMMA ContentsTyped ==
  \A kind \in Kinds : \A x \in Contents(kind) :
    x \in Bytes /\ (kind \notin {"string", "vector"} => Len(x) <= 4)
<1> TAKE kind \in Kinds
<1> TAKE x \in Contents(kind)
<1>1. DOMAIN Width = {"uint8", "uint16", "uint32"} /\ Width["uint8"] = 1
      /\ Width["uint16"] = 2 /\ Width["uint32"] = 4
  BY DEF Width
<1>2. CASE kind \in {"string", "vector"}
  <2>1. kind \notin DOMAIN Width
    BY <1>1, <1>2
  <2>2. x \in Payloads
    BY <2>1 DEF Contents
  <2> QED BY <1>2, <2>2, MessagesAssumption DEF Bytes
<1>3. CASE kind \in {"uint8", "uint16", "uint32"}
  <2>1. kind \in DOMAIN Width
    BY <1>1, <1>3
  <2>2. x \in Numbers /\ Len(x) = Width[kind]
    BY <2>1 DEF Contents
  <2>3. x \in Bytes
    BY <2>2, MessagesAssumption DEF Bytes
  <2>4. Len(x) = 1 \/ Len(x) = 2 \/ Len(x) = 4
    BY <1>1, <1>3, <2>2, Zenon
  <2>5. Len(x) <= 4
    <3> DEFINE l == Len(x)
    <3>1. l = 1 \/ l = 2 \/ l = 4
      BY <2>4
    <3> HIDE DEF l
    <3>2. l <= 4
      BY <3>1
    <3> QED BY <3>2, Zenon DEF l
  <2> QED BY <2>3, <2>5
<1> QED BY <1>2, <1>3 DEF Kinds

\* Whatever is sent has a struct of Format and a type that is a byte.
LEMMA SentTyped ==
  \A m \in Sent : m.struct \in DOMAIN Format /\ m.type \in DOMAIN MessageType
BY DEF Sent, Format, MessageType, Requests, Notices, Settings, RPCs, Packets

LEMMA TypeIsByte == \A type \in DOMAIN MessageType : MessageType[type] \in Byte
BY DEF MessageType, Byte

\* A field of any kind is appended.
LEMMA WriteFieldExact ==
  ASSUME NEW w, NEW t, Exact(w, t), NEW kind \in Kinds, NEW x \in Contents(kind)
  PROVE  Exact(WriteField(w, kind, x), t \o FieldText(kind, x))
<1>1. x \in Bytes /\ (kind \notin {"string", "vector"} => Len(x) <= 4)
  BY ContentsTyped, Zenon
<1>2. CASE kind = "string"
  <2>1. Exact(WriteString(w, x), t \o FieldText("string", x))
    BY <1>1, WriteStringExact, Zenon
  <2>2. WriteField(w, "string", x) = WriteString(w, x)
    BY DEF WriteField
  <2> QED BY <1>2, <2>1, <2>2, Zenon
<1>3. CASE kind = "vector"
  <2>1. Exact(WriteVector(w, x), t \o (Bytes32(Len(x)) \o x))
    BY <1>1, WriteVectorExact, Zenon
  <2>2. WriteField(w, "vector", x) = WriteVector(w, x)
    BY DEF WriteField
  <2>3. FieldText("vector", x) = Bytes32(Len(x)) \o x
    BY DEF FieldText
  <2> QED BY <1>3, <2>1, <2>2, <2>3, Zenon
<1>4. CASE kind \notin {"string", "vector"}
  <2>1. Exact(WriteBits(w, x), t \o x)
    BY <1>1, <1>4, WriteBitsExact, Zenon
  <2>2. WriteField(w, kind, x) = WriteBits(w, x) /\ FieldText(kind, x) = x
    BY <1>4 DEF WriteField, FieldText
  <2> QED BY <2>1, <2>2, Zenon
<1> QED BY <1>2, <1>3, <1>4

-----------------------------------------------------------------------------
\* The fields of the message are what its struct says.
Formatted ==
  /\ message.struct \in DOMAIN Format
  /\ DOMAIN message.fields = DOMAIN Format[message.struct]
  /\ \A i \in DOMAIN message.fields : message.fields[i] \in Contents(Format[message.struct][i])

\* The writer of a message that is begun is exact; one that is flushed has
\* stored everything, and nobody writes to it.
IInv ==
  /\ phase \in {"idle", "write", "send", "read"}
  /\ phase = "write" => Exact(writer, text) /\ Formatted
  /\ phase # "write" => /\ writer.written = Len(text)
                        /\ SubSeq(writer.memory, 1, writer.written) = text

\* The invariant is WriterExact and more.
LEMMA IInvIsExact == IInv => WriterExact
<1> SUFFICES ASSUME IInv PROVE WriterExact
  OBVIOUS
<1>1. CASE phase = "write"
  <2>1. Exact(writer, text)
    BY <1>1 DEF IInv
  <2>2. writer.memory \o writer.scratch = text /\ writer.written = Len(text)
    BY <2>1, Concat, Zenon DEF Exact
  <2> QED BY <1>1, <2>2, Zenon DEF WriterExact
<1>2. CASE phase # "write"
  BY <1>2, Zenon DEF IInv, WriterExact
<1> QED BY <1>1, <1>2

LEMMA NothingStored ==
  NewWriter.written = Len(<< >>) /\ SubSeq(NewWriter.memory, 1, NewWriter.written) = << >>
<1>1. NewWriter.written = 0 /\ NewWriter.memory = << >>
  BY DEF NewWriter
<1>2. SubSeq(<< >>, 1, 0) = << >>
  BY SubSeqEmpty
<1> QED BY <1>1, <1>2, Empty, Zenon

LEMMA InitExact == Init => IInv
BY NothingStored, Zenon DEF Init, IInv

LEMMA NextExact == IInv /\ [Next]_vars => IInv'
<1> SUFFICES ASSUME IInv, [Next]_vars PROVE IInv'
  OBVIOUS
<1>1. CASE Begin
  <2>0. PICK m \in Sent :
          \E fields \in [DOMAIN Format[m.struct] -> Numbers \cup Payloads] :
            /\ \A i \in DOMAIN fields : fields[i] \in Contents(Format[m.struct][i])
            /\ message' = [to |-> m.to, type |-> m.type, struct |-> m.struct, fields |-> fields]
            /\ writer' = WriteBits(NewWriter, <<MessageType[m.type]>>)
            /\ text' = <<MessageType[m.type]>>
    BY <1>1, Zenon DEF Begin
  <2>1. PICK fields \in [DOMAIN Format[m.struct] -> Numbers \cup Payloads] :
            /\ \A i \in DOMAIN fields : fields[i] \in Contents(Format[m.struct][i])
            /\ message' = [to |-> m.to, type |-> m.type, struct |-> m.struct, fields |-> fields]
            /\ writer' = WriteBits(NewWriter, <<MessageType[m.type]>>)
            /\ text' = <<MessageType[m.type]>>
    BY <2>0, Zenon
  <2>2. phase' = "write"
    BY <1>1, Zenon DEF Begin
  <2>3. m.struct \in DOMAIN Format /\ MessageType[m.type] \in Byte
    BY SentTyped, TypeIsByte, Zenon
  <2>4. Exact(writer', text')
    <3> DEFINE b == <<MessageType[m.type]>>
    <3>1. b \in Bytes /\ Len(b) <= 4
      <4> DEFINE e == MessageType[m.type]
      <4>1. e \in Byte
        BY <2>3, Zenon
      <4> HIDE DEF e
      <4>2. <<e>> \in Bytes /\ Len(<<e>>) <= 4
        BY <4>1 DEF Bytes
      <4> QED BY <4>2, Zenon DEF e
    <3> HIDE DEF b
    <3>2. Exact(WriteBits(NewWriter, b), << >> \o b)
      BY <3>1, NewWriterExact, WriteBitsExact, Zenon
    <3>3. << >> \o b = b
      BY <3>1, Empty, Zenon
    <3>4. writer' = WriteBits(NewWriter, b) /\ text' = b
      BY <2>1, Zenon DEF b
    <3> QED BY <3>2, <3>3, <3>4, Zenon
  <2>5. Formatted'
    <3>1. message'.struct = m.struct /\ message'.fields = fields
      BY <2>1
    <3>2. DOMAIN fields = DOMAIN Format[m.struct]
      BY Zenon
    <3> QED BY <2>1, <2>3, <3>1, <3>2, Zenon DEF Formatted
  <2> QED BY <2>2, <2>4, <2>5, Zenon DEF IInv
<1>2. CASE Write
  <2> DEFINE kind == Format[message.struct][at]
             x == message.fields[at]
  <2>1. /\ phase = "write" /\ at \in DOMAIN message.fields
        /\ writer' = WriteField(writer, kind, x)
        /\ text' = text \o FieldText(kind, x)
        /\ phase' = phase /\ message' = message
    BY <1>2, Zenon DEF Write
  <2>2. Exact(writer, text) /\ Formatted
    BY <2>1, Zenon DEF IInv
  <2>3. kind \in Kinds /\ x \in Contents(kind)
    BY <2>1, <2>2, FormatKinds, Zenon DEF Formatted
  <2> HIDE DEF kind, x
  <2>4. Exact(writer', text')
    BY <2>1, <2>2, <2>3, WriteFieldExact, Zenon
  <2>5. Formatted'
    BY <2>1, <2>2, Zenon DEF Formatted
  <2> QED BY <2>1, <2>4, <2>5, Zenon DEF IInv
<1>3. CASE Flush
  <2>1. /\ phase = "write" /\ phase' = "send"
        /\ writer' = FlushBits(writer) /\ text' = text
    BY <1>3, Zenon DEF Flush
  <2>2. Exact(writer, text)
    BY <2>1, Zenon DEF IInv
  <2>3. writer'.written = Len(text') /\ SubSeq(writer'.memory, 1, writer'.written) = text'
    BY <2>1, <2>2, FlushExact, Zenon
  <2> QED BY <2>1, <2>3, Zenon DEF IInv
<1>4. CASE Arrive
  <2>1. phase # "write" /\ phase' = "read" /\ writer' = writer /\ text' = text
    BY <1>4, Zenon DEF Arrive
  <2> QED BY <2>1, Zenon DEF IInv
<1>5. CASE Read
  <2>1. phase = "read" /\ phase' = "read" /\ writer' = writer /\ text' = text
    BY <1>5, Zenon DEF Read
  <2> QED BY <2>1, Zenon DEF IInv
<1>6. CASE Handle
  <2>1. phase' = "idle" /\ writer' = NewWriter /\ text' = << >>
    BY <1>6, Zenon DEF Handle
  <2> QED BY <2>1, NothingStored, Zenon DEF IInv
<1>7. CASE UNCHANGED vars
  <2>1. phase' = phase /\ message' = message /\ writer' = writer /\ text' = text
    BY <1>7, Zenon DEF vars
  <2> QED BY <2>1, Zenon DEF IInv, Formatted
<1> QED
  BY <1>1, <1>2, <1>3, <1>4, <1>5, <1>6, <1>7 DEF Next

\* Whatever is sent - any type, any number of strings and arrays of any length,
\* wherever they fall in the words of the buffer - the writer has the bytes it
\* was given, in their order, and after the flush nothing is missing.
THEOREM WriterAlwaysExact == Spec => []WriterExact
<1>1. Spec => []IInv
  BY InitExact, NextExact, PTL DEF Spec
<1> QED
  BY <1>1, IInvIsExact, PTL

-----------------------------------------------------------------------------
(***************************************************************************)
(* The reader.  Its scratch holds the bytes between what was read and the  *)
(* end of the last word that was fetched; the last word of a packet is     *)
(* fetched with what follows it.                                           *)
(***************************************************************************)
ByteAt(P, i) == IF i <= Len(P) THEN P[i] ELSE Junk

ReaderExact(P, r) ==
  /\ r = [scratch |-> r.scratch, index |-> r.index, read |-> r.read]
  /\ r.scratch \in Bytes /\ r.index \in Nat /\ r.read \in Nat
  /\ r.read + Len(r.scratch) = 4 * r.index
  /\ Len(r.scratch) <= 3
  /\ \A i \in 1 .. Len(r.scratch) : r.scratch[i] = ByteAt(P, r.read + i)

\* s is what there is at the position of the reader.
IsAt(P, n, s) == \A i \in 1 .. Len(s) : s[i] = ByteAt(P, n + i)

LEMMA Joined ==
  \A s, t \in Bytes :
    /\ s \o t \in Bytes /\ Len(s \o t) = Len(s) + Len(t)
    /\ \A i \in 1 .. Len(s) + Len(t) : (s \o t)[i] = IF i <= Len(s) THEN s[i] ELSE t[i - Len(s)]
<1> TAKE s, t \in Bytes
<1>1. s \in Seq(Byte) /\ t \in Seq(Byte)
  BY DEF Bytes
<1> QED BY <1>1, ConcatProperties DEF Bytes

LEMMA ByteAtType == \A P \in Bytes : \A i \in Nat \ {0} : ByteAt(P, i) \in Byte
<1> TAKE P \in Bytes
<1> TAKE i \in Nat \ {0}
<1>1. P \in Seq(Byte) /\ Len(P) \in Nat
  BY Lengths DEF Bytes
<1>2. i <= Len(P) => P[i] \in Byte
  BY <1>1
<1> QED BY <1>2, JunkAssumption DEF ByteAt

LEMMA NewReaderExact == \A P : ReaderExact(P, NewReader)
<1> TAKE P
<1>1. << >> \in Bytes /\ Len(<< >>) = 0
  BY Empty
<1> QED BY <1>1 DEF ReaderExact, NewReader

\* A word is fetched.
LEMMA WordBytesOf ==
  ASSUME NEW P \in Bytes, NEW index \in Nat
  PROVE  /\ Word(P, index) \in Bytes /\ Len(Word(P, index)) = 4
         /\ \A i \in 1 .. 4 : Word(P, index)[i] = ByteAt(P, 4 * index + i)
<1>1. Word(P, index) = [i \in 1 .. 4 |-> ByteAt(P, index * 4 + i)]
  BY DEF Word, WordBytes, ByteAt
<1>2. \A i \in 1 .. 4 : index * 4 + i = 4 * index + i /\ index * 4 + i \in Nat \ {0}
  OBVIOUS
<1>3. \A i \in 1 .. 4 : ByteAt(P, index * 4 + i) \in Byte
  BY <1>2, ByteAtType
<1> PICK f : f = Word(P, index)
  OBVIOUS
<1>4. f \in [1 .. 4 -> Byte] /\ \A i \in 1 .. 4 : f[i] = ByteAt(P, 4 * index + i)
  BY <1>1, <1>2, <1>3
<1> QED BY <1>4, OfFunction

\* A read of a word at most.
LEMMA ReadBitsExact ==
  ASSUME NEW P \in Bytes, NEW r, ReaderExact(P, r), NEW count \in 0 .. 4
  PROVE  LET read == ReadBits(P, r, count)
         IN /\ ReaderExact(P, read.reader)
            /\ read.reader.read = r.read + count
            /\ read.value \in Bytes /\ Len(read.value) = count
            /\ IsAt(P, r.read, read.value)
<1>c. PICK c : c = r.scratch
  OBVIOUS
<1>n. PICK n : n = r.read
  OBVIOUS
<1>w. PICK w : w = Word(P, r.index)
  OBVIOUS
<1>l. PICK l : l = Len(c)
  OBVIOUS
<1>s. PICK s : s = IF l < count THEN c \o w ELSE c
  OBVIOUS
<1>i. PICK index : index = IF l < count THEN r.index + 1 ELSE r.index
  OBVIOUS
<1>k. PICK k : k = Len(s)
  OBVIOUS
<1>1. /\ c \in Seq(Byte) /\ n \in Nat /\ r.index \in Nat /\ l \in Nat /\ l <= 3
      /\ n + l = 4 * r.index /\ count \in Nat /\ count <= 4
      /\ \A i \in 1 .. l : c[i] = ByteAt(P, n + i)
  BY <1>c, <1>n, <1>l, Lengths DEF ReaderExact, Bytes
<1>2. /\ w \in Seq(Byte) /\ Len(w) = 4
      /\ \A i \in 1 .. 4 : w[i] = ByteAt(P, (n + l) + i)
  <2>1. /\ w \in Bytes /\ Len(w) = 4
        /\ \A i \in 1 .. 4 : w[i] = ByteAt(P, 4 * r.index + i)
    BY <1>1, <1>w, WordBytesOf
  <2> QED BY <1>1, <2>1 DEF Bytes
<1>3. /\ s \in Seq(Byte) /\ k = (IF l < count THEN l + 4 ELSE l)
      /\ \A i \in 1 .. k : s[i] = ByteAt(P, n + i)
  <2>1. CASE l < count
    <3>1. s = c \o w
      BY <1>s, <2>1
    <3>2. /\ s \in Seq(Byte) /\ k = l + 4
          /\ \A i \in 1 .. l + 4 : s[i] = IF i <= l THEN c[i] ELSE w[i - l]
      <4>1. c \in Bytes /\ w \in Bytes
        BY <1>1, <1>2 DEF Bytes
      <4>2. /\ c \o w \in Bytes /\ Len(c \o w) = Len(c) + Len(w)
            /\ \A i \in 1 .. Len(c) + Len(w) :
                 (c \o w)[i] = IF i <= Len(c) THEN c[i] ELSE w[i - Len(c)]
        BY <4>1, Joined, Zenon
      <4> QED BY <1>2, <1>k, <1>l, <3>1, <4>2 DEF Bytes
    <3>3. ASSUME NEW i \in 1 .. l + 4
          PROVE  s[i] = ByteAt(P, n + i)
      <4>1. CASE i <= l
        BY <1>1, <3>2, <4>1
      <4>2. CASE ~(i <= l)
        <5>1. i - l \in 1 .. 4 /\ (n + l) + (i - l) = n + i
          BY <1>1, <4>2
        <5> QED BY <1>2, <3>2, <4>2, <5>1
      <4> QED BY <4>1, <4>2
    <3> QED BY <2>1, <3>2, <3>3
  <2>2. CASE ~(l < count)
    BY <1>1, <1>s, <1>k, <1>l, <2>2
  <2> QED BY <2>1, <2>2
<1>4. /\ index \in Nat /\ k \in Nat /\ count <= k /\ k - count <= 3
      /\ (n + count) + (k - count) = 4 * index
  <2>1. k = IF l < count THEN l + 4 ELSE l
    BY <1>3
  <2>2. CASE l < count
    BY <1>1, <1>i, <2>1, <2>2
  <2>3. CASE ~(l < count)
    BY <1>1, <1>i, <2>1, <2>3
  <2> QED BY <2>2, <2>3
<1>v. PICK v : v = SubSeq(s, 1, count)
  OBVIOUS
<1>d. PICK d : d = SubSeq(s, count + 1, k)
  OBVIOUS
<1>5. /\ v \in Seq(Byte) /\ Len(v) = count /\ \A i \in 1 .. count : v[i] = s[i]
  BY <1>1, <1>3, <1>4, <1>k, <1>v, SubSeqProperties
<1>6. /\ d \in Seq(Byte) /\ Len(d) = k - count
      /\ \A i \in 1 .. k - count : d[i] = s[count + i]
  BY <1>1, <1>3, <1>4, <1>k, <1>d, SubSeqProperties
<1>7. \A i \in 1 .. k - count : d[i] = ByteAt(P, (n + count) + i)
  <2> TAKE i \in 1 .. k - count
  <2>1. count + i \in 1 .. k /\ n + (count + i) = (n + count) + i
    BY <1>1, <1>4
  <2> QED BY <1>3, <1>6, <2>1
<1>8. \A i \in 1 .. count : v[i] = ByteAt(P, n + i)
  BY <1>3, <1>4, <1>5
<1>r. PICK taken : taken = [scratch |-> d, index |-> index, read |-> n + count]
  OBVIOUS
<1>9. ReadBits(P, r, count) = [value |-> v, reader |-> taken]
  BY <1>c, <1>n, <1>w, <1>l, <1>s, <1>i, <1>k, <1>v, <1>d, <1>r DEF ReadBits
<1>10. ReaderExact(P, taken)
  <2>1. taken.scratch = d /\ taken.index = index /\ taken.read = n + count
    BY <1>r
  <2>2. taken = [scratch |-> taken.scratch, index |-> taken.index, read |-> taken.read]
    BY <1>r, <2>1
  <2>3. n + count \in Nat
    BY <1>1
  <2>4. \A i \in 1 .. Len(d) : d[i] = ByteAt(P, (n + count) + i)
    BY <1>6, <1>7
  <2> QED BY <1>4, <1>6, <2>1, <2>2, <2>3, <2>4 DEF ReaderExact, Bytes
<1> QED BY <1>n, <1>r, <1>5, <1>8, <1>9, <1>10 DEF IsAt, Bytes

LEMMA IsAtJoined ==
  ASSUME NEW P, NEW n \in Nat, NEW s \in Bytes, NEW t \in Bytes
  PROVE  IsAt(P, n, s \o t) <=> IsAt(P, n, s) /\ IsAt(P, n + Len(s), t)
<1>j. PICK j : j = s \o t
  OBVIOUS
<1>k. PICK k : k = Len(s)
  OBVIOUS
<1>l. PICK l : l = Len(t)
  OBVIOUS
<1>1. /\ k \in Nat /\ l \in Nat /\ Len(j) = k + l
      /\ \A i \in 1 .. k + l : j[i] = IF i <= k THEN s[i] ELSE t[i - k]
  BY <1>j, <1>k, <1>l, Joined, Lengths
<1>2. ASSUME IsAt(P, n, j)
      PROVE  IsAt(P, n, s) /\ IsAt(P, n + k, t)
  <2>1. ASSUME NEW i \in 1 .. k
        PROVE  s[i] = ByteAt(P, n + i)
    <3>1. i \in 1 .. k + l
      BY <1>1
    <3> QED BY <1>1, <1>2, <3>1 DEF IsAt
  <2>2. ASSUME NEW i \in 1 .. l
        PROVE  t[i] = ByteAt(P, (n + k) + i)
    <3>1. i + k \in 1 .. k + l /\ (i + k) - k = i /\ n + (i + k) = (n + k) + i /\ ~(i + k <= k)
      BY <1>1
    <3> QED BY <1>1, <1>2, <3>1 DEF IsAt
  <2> QED BY <1>k, <1>l, <2>1, <2>2 DEF IsAt
<1>3. ASSUME IsAt(P, n, s), IsAt(P, n + k, t)
      PROVE  IsAt(P, n, j)
  <2>1. ASSUME NEW i \in 1 .. k + l
        PROVE  j[i] = ByteAt(P, n + i)
    <3>1. CASE i <= k
      <4>1. i \in 1 .. k
        BY <1>1, <3>1
      <4> QED BY <1>1, <1>3, <1>k, <3>1, <4>1 DEF IsAt
    <3>2. CASE ~(i <= k)
      <4>1. i - k \in 1 .. l /\ (n + k) + (i - k) = n + i
        BY <1>1, <3>2
      <4> QED BY <1>1, <1>3, <1>l, <3>2, <4>1 DEF IsAt
    <3> QED BY <3>1, <3>2
  <2> QED BY <1>1, <2>1 DEF IsAt
<1> QED BY <1>2, <1>3, <1>j, <1>k

\* What a read returns.
ReadsOn(P, r, count, read) ==
  /\ ReaderExact(P, read.reader) /\ read.reader.read = r.read + count
  /\ read.value \in Bytes /\ Len(read.value) = count
  /\ IsAt(P, r.read, read.value)

LEMMA HeadAligns ==
  ASSUME NEW n \in Nat, NEW count \in Nat, NEW head, head = HeadBytes(n, count)
  PROVE  /\ head \in Nat /\ head <= 3 /\ head <= count
         /\ head # count => Whole(n + head)
BY DEF HeadBytes, WordBytes, Whole

\* What is copied past the scratch.
Copied(P, index, body) ==
  [i \in 1 .. body |-> Word(P, (index * 4 + i - 1) \div 4)[((i - 1) % 4) + 1]]

LEMMA WordsCopied ==
  ASSUME NEW P \in Bytes, NEW index \in Nat, NEW body \in Nat,
         NEW mid, mid = Copied(P, index, body)
  PROVE  mid \in Bytes /\ Len(mid) = body /\ IsAt(P, 4 * index, mid)
<1>1. ASSUME NEW i \in 1 .. body
      PROVE  mid[i] = ByteAt(P, 4 * index + i) /\ mid[i] \in Byte
  <2>k. PICK k : k = (i - 1) \div 4
    OBVIOUS
  <2>j. PICK j : j = ((i - 1) % 4) + 1
    OBVIOUS
  <2>1. /\ (index * 4 + i - 1) \div 4 = index + k /\ index + k \in Nat
        /\ j \in 1 .. 4 /\ 4 * (index + k) + j = 4 * index + i
        /\ 4 * index + i \in Nat \ {0}
    <3>1. k \in Nat /\ j \in 1 .. 4 /\ i = 4 * k + j
      <4>m. PICK m : m = i - 1
        OBVIOUS
      <4>1. m \in Nat /\ i = m + 1
        BY <4>m
      <4>2. m \div 4 \in Nat /\ m % 4 \in 0 .. 3 /\ m = 4 * (m \div 4) + (m % 4)
        BY <4>1
      <4> QED BY <4>m, <4>1, <4>2, <2>k, <2>j
    <3>2. index * 4 + i - 1 = 4 * (index + k) + (j - 1)
      BY <3>1
    <3>3. (4 * (index + k) + (j - 1)) \div 4 = index + k
      BY <3>1
    <3> QED BY <3>1, <3>2, <3>3
  <2>2. mid[i] = Word(P, index + k)[j]
    BY <2>1, <2>j DEF Copied
  <2>3. Word(P, index + k)[j] = ByteAt(P, 4 * (index + k) + j)
    BY <2>1, WordBytesOf
  <2> QED BY <2>1, <2>2, <2>3, ByteAtType
<1>2. mid \in [1 .. body -> Byte]
  BY <1>1 DEF Copied
<1>3. mid \in Bytes /\ Len(mid) = body
  BY <1>2, OfFunction
<1> QED BY <1>1, <1>3 DEF IsAt

\* Whole words are passed, when the scratch is empty.
Past(r, body) == [r EXCEPT !.index = @ + body \div 4, !.read = @ + body]

LEMMA WordsPassed ==
  ASSUME NEW P, NEW r, ReaderExact(P, r), Whole(r.read), NEW body \in Nat, Whole(body),
         NEW past, past = Past(r, body)
  PROVE  /\ r.read = 4 * r.index /\ ReaderExact(P, past) /\ past.read = r.read + body
<1>1. /\ r.index \in Nat /\ r.read \in Nat /\ Len(r.scratch) \in Nat
      /\ r.read + Len(r.scratch) = 4 * r.index /\ Len(r.scratch) <= 3
      /\ r.scratch \in Bytes
      /\ r = [scratch |-> r.scratch, index |-> r.index, read |-> r.read]
  BY Lengths DEF ReaderExact
<1>2. Len(r.scratch) = 0 /\ r.read = 4 * r.index
  <2>l. PICK l : l = Len(r.scratch)
    OBVIOUS
  <2>1. l \in Nat /\ r.read + l = 4 * r.index /\ l <= 3 /\ r.read % 4 = 0
    BY <1>1, <2>l DEF Whole
  <2>2. l = 0
    BY <1>1, <2>1
  <2> QED BY <1>1, <2>1, <2>2, <2>l
<1>3. past = [scratch |-> r.scratch, index |-> r.index + body \div 4, read |-> r.read + body]
  BY <1>1 DEF Past
<1>4. /\ body \div 4 \in Nat /\ body = 4 * (body \div 4)
  BY DEF Whole
<1>5. /\ past.scratch = r.scratch /\ past.index = r.index + body \div 4
      /\ past.read = r.read + body
  BY <1>3
<1>6. past.read + Len(past.scratch) = 4 * past.index
  BY <1>1, <1>2, <1>4, <1>5
<1>7. past = [scratch |-> past.scratch, index |-> past.index, read |-> past.read]
  BY <1>3, <1>5
<1>8. past.index \in Nat /\ past.read \in Nat
  BY <1>1, <1>4, <1>5
<1>9. Len(past.scratch) = 0 /\ past.scratch \in Bytes
  BY <1>1, <1>2, <1>5
<1> QED BY <1>2, <1>5, <1>6, <1>7, <1>8, <1>9 DEF ReaderExact

LEMMA ReadBytesExact ==
  ASSUME NEW P \in Bytes, NEW r, ReaderExact(P, r), NEW count \in Nat
  PROVE  ReadsOn(P, r, count, ReadBytes(P, r, count))
<1>head. PICK head : head = HeadBytes(r.read, count)
  OBVIOUS
<1>body. PICK body : body = BodyBytes(r.read, count)
  OBVIOUS
<1>h. PICK h : h = ReadBits(P, r, head)
  OBVIOUS
<1>past. PICK past : past = Past(h.reader, body)
  OBVIOUS
<1>t. PICK t : t = ReadBits(P, past, count - head - body)
  OBVIOUS
<1>mid. PICK mid : mid = Copied(P, h.reader.index, body)
  OBVIOUS
<1>1. ReadBytes(P, r, count) =
        IF head = count THEN h ELSE [value |-> h.value \o mid \o t.value, reader |-> t.reader]
  BY <1>head, <1>body, <1>h, <1>past, <1>t, <1>mid DEF ReadBytes, WordBytes, Past, Copied
<1>2. /\ r.read \in Nat /\ head \in Nat /\ head <= 3 /\ head <= count
      /\ head # count => Whole(r.read + head)
  BY <1>head, HeadAligns DEF ReaderExact
<1>3. /\ body \in Nat /\ Whole(body) /\ count - head - body \in 0 .. 4
  <2>1. /\ body \in Nat /\ Whole(body) /\ head + body <= count
        /\ count - (head + body) <= 3
    BY <1>head, <1>body, <1>2, BodyArithmetic
  <2> QED BY <1>2, <2>1
<1>4. ReadsOn(P, r, head, h)
  <2>1. head \in 0 .. 4
    BY <1>2
  <2> QED BY <2>1, <1>h, ReadBitsExact DEF ReadsOn
<1>5. CASE head = count
  BY <1>1, <1>4, <1>5
<1>6. CASE head # count
  <2>1. /\ h.reader.read = 4 * h.reader.index /\ h.reader.index \in Nat
        /\ h.reader.read = r.read + head
        /\ ReaderExact(P, past) /\ past.read = (r.read + head) + body
    <3>1. /\ ReaderExact(P, h.reader) /\ h.reader.read = r.read + head
          /\ Whole(h.reader.read)
      BY <1>2, <1>4, <1>6 DEF ReadsOn
    <3>2. /\ h.reader.read = 4 * h.reader.index /\ ReaderExact(P, past)
          /\ past.read = h.reader.read + body
      <4>x. PICK x : x = h.reader
        OBVIOUS
      <4>1. ReaderExact(P, x) /\ Whole(x.read)
        BY <3>1, <4>x
      <4>2. past = Past(x, body)
        BY <1>past, <4>x
      <4>3. x.read = 4 * x.index /\ ReaderExact(P, past) /\ past.read = x.read + body
        BY <1>3, <4>1, <4>2, WordsPassed, Zenon
      <4> QED BY <4>x, <4>3
    <3>3. h.reader.index \in Nat
      BY <3>1 DEF ReaderExact
    <3> QED BY <3>1, <3>2, <3>3
  <2>2. mid \in Bytes /\ Len(mid) = body /\ IsAt(P, r.read + head, mid)
    <3>x. PICK x : x = h.reader.index
      OBVIOUS
    <3>1. x \in Nat /\ r.read + head = 4 * x
      BY <2>1, <3>x
    <3>2. mid = Copied(P, x, body)
      BY <1>mid, <3>x
    <3>3. mid \in Bytes /\ Len(mid) = body /\ IsAt(P, 4 * x, mid)
      BY <1>3, <3>1, <3>2, WordsCopied, Zenon
    <3> QED BY <3>1, <3>3
  <2>3. ReadsOn(P, past, count - head - body, t)
    BY <1>3, <1>t, <2>1, ReadBitsExact DEF ReadsOn
  <2>v. PICK v : v = h.value
    OBVIOUS
  <2>u. PICK u : u = t.value
    OBVIOUS
  <2>4. /\ v \in Bytes /\ Len(v) = head /\ IsAt(P, r.read, v)
        /\ u \in Bytes /\ Len(u) = count - head - body
        /\ IsAt(P, (r.read + head) + body, u)
    BY <1>4, <2>1, <2>3, <2>u, <2>v DEF ReadsOn
  <2>5. v \o mid \in Bytes /\ Len(v \o mid) = head + body /\ IsAt(P, r.read, v \o mid)
    BY <1>2, <2>2, <2>4, Joined, IsAtJoined
  <2>w. PICK w : w = v \o mid
    OBVIOUS
  <2>6. /\ w \in Bytes /\ Len(w) = head + body /\ IsAt(P, r.read, w)
        /\ r.read + (head + body) = (r.read + head) + body
    <3>1. w \in Bytes /\ Len(w) = head + body /\ IsAt(P, r.read, w)
      BY <2>5, <2>w
    <3>2. r.read + (head + body) = (r.read + head) + body
      BY <1>2, <1>3
    <3> QED BY <3>1, <3>2
  <2>7. w \o u \in Bytes /\ Len(w \o u) = Len(w) + Len(u)
    BY <2>4, <2>6, Joined
  <2>8. IsAt(P, r.read, w \o u)
    BY <1>2, <2>4, <2>6, IsAtJoined
  <2>9. Len(w \o u) = count
    BY <1>2, <1>3, <2>4, <2>6, <2>7
  <2>10. ReaderExact(P, t.reader) /\ t.reader.read = r.read + count
    <3>1. ReaderExact(P, t.reader) /\ t.reader.read = past.read + (count - head - body)
      BY <2>3 DEF ReadsOn
    <3>2. ((r.read + head) + body) + (count - head - body) = r.read + count
      <4>n. PICK n : n = r.read
        OBVIOUS
      <4>1. n \in Nat /\ head \in Nat /\ body \in Nat
        BY <1>2, <1>3, <4>n
      <4>2. ((n + head) + body) + (count - head - body) = n + count
        BY <4>1
      <4> QED BY <4>n, <4>2
    <3> QED BY <2>1, <3>1, <3>2
  <2>11. ReadBytes(P, r, count) = [value |-> w \o u, reader |-> t.reader]
    BY <1>1, <1>6, <2>u, <2>v, <2>w
  <2>12. /\ ReadBytes(P, r, count).value = w \o u /\ ReadBytes(P, r, count).reader = t.reader
    BY <2>11
  <2> QED BY <2>7, <2>8, <2>9, <2>10, <2>12 DEF ReadsOn
<1> QED BY <1>5, <1>6

-----------------------------------------------------------------------------
(***************************************************************************)
(* Reads, and what they are refused.                                       *)
(***************************************************************************)
\* The packet P goes on with s behind position n, as far as it goes.
Comes(P, n, s) == \A i \in 1 .. Len(s) : n + i <= Len(P) => P[n + i] = s[i]

\* res is what a read from P of the value x returns that is written as the bytes s.
Reads(P, r, s, x, res) ==
  IF r.read + Len(s) <= Len(P)
    THEN /\ res = [value |-> x, reader |-> res.reader, ok |-> TRUE]
         /\ ReaderExact(P, res.reader)
         /\ res.reader.read = r.read + Len(s)
    ELSE res = Refused

LEMMA ReadsOk ==
  ASSUME NEW P, NEW r, NEW s, NEW x, NEW res, Reads(P, r, s, x, res)
  PROVE  /\ res.ok \in BOOLEAN
         /\ res.ok <=> r.read + Len(s) <= Len(P)
         /\ res.ok => /\ res.value = x /\ ReaderExact(P, res.reader)
                      /\ res.reader.read = r.read + Len(s)
                      /\ res = [value |-> x, reader |-> res.reader, ok |-> TRUE]
         /\ ~res.ok => res = Refused
<1>1. CASE r.read + Len(s) <= Len(P)
  <2>1. /\ res = [value |-> x, reader |-> res.reader, ok |-> TRUE]
        /\ ReaderExact(P, res.reader)
        /\ res.reader.read = r.read + Len(s)
    BY <1>1, Zenon DEF Reads
  <2>2. res.ok = TRUE /\ res.value = x
    BY <2>1
  <2> QED BY <1>1, <2>1, <2>2, Zenon
<1>2. CASE ~(r.read + Len(s) <= Len(P))
  <2>1. res = Refused
    BY <1>2, Zenon DEF Reads
  <2>2. Refused.ok = FALSE
    BY DEF Refused
  <2> QED BY <1>2, <2>1, <2>2, Zenon
<1> QED BY <1>1, <1>2, Zenon

\* What is at the position of the reader is what comes there.
LEMMA SameBytes ==
  ASSUME NEW P \in Bytes, NEW n \in Nat, NEW s \in Bytes, NEW v \in Bytes, Len(v) = Len(s),
         n + Len(s) <= Len(P),
         Comes(P, n, s), IsAt(P, n, v)
  PROVE  v = s
<1>1. Len(s) \in Nat /\ Len(P) \in Nat
  BY Lengths
<1>l. PICK l : l = Len(s)
  OBVIOUS
<1>k. PICK k : k = Len(P)
  OBVIOUS
<1>2. ASSUME NEW i \in 1 .. l
      PROVE  v[i] = s[i]
  <2>1. n + i <= k
    BY <1>1, <1>l, <1>k
  <2>2. P[n + i] = s[i]
    BY <1>l, <1>k, <2>1 DEF Comes
  <2>3. v[i] = ByteAt(P, n + i)
    BY <1>l DEF IsAt
  <2> QED BY <1>k, <2>1, <2>2, <2>3 DEF ByteAt
<1>3. v \in Seq(Byte) /\ s \in Seq(Byte)
  BY DEF Bytes
<1>4. Len(v) = Len(s) /\ \A i \in 1 .. Len(v) : v[i] = s[i]
  BY <1>2, <1>l
<1> QED BY <1>3, <1>4, SeqEqual

\* A read of the streams, of whatever width.
LEMMA AcceptReads ==
  ASSUME NEW P \in Bytes, NEW r, ReaderExact(P, r), NEW s \in Bytes,
         Comes(P, r.read, s), r.read + Len(s) <= Len(P),
         NEW read, ReadsOn(P, r, Len(s), read)
  PROVE  Reads(P, r, s, s, Accept(read))
<1>1. /\ ReaderExact(P, read.reader) /\ read.reader.read = r.read + Len(s)
      /\ read.value \in Bytes /\ Len(read.value) = Len(s) /\ IsAt(P, r.read, read.value)
  BY DEF ReadsOn
<1>2. r.read \in Nat
  BY DEF ReaderExact
<1>3. read.value = s
  BY <1>1, <1>2, SameBytes
<1>4. /\ Accept(read) = [value |-> s, reader |-> read.reader, ok |-> TRUE]
      /\ Accept(read).reader = read.reader
  BY <1>3 DEF Accept
<1> QED BY <1>1, <1>4 DEF Reads

LEMMA BitsRead ==
  ASSUME NEW P \in Bytes, NEW r, ReaderExact(P, r), NEW s \in Bytes, Len(s) <= 4,
         Comes(P, r.read, s)
  PROVE  Reads(P, r, s, s, SerializeBits(P, r, Len(s)))
<1>1. CASE r.read + Len(s) <= Len(P)
  <2>1. SerializeBits(P, r, Len(s)) = Accept(ReadBits(P, r, Len(s)))
    BY <1>1 DEF SerializeBits, Fits
  <2>2. Len(s) \in 0 .. 4
    <3>l. PICK l : l = Len(s)
      OBVIOUS
    <3>1. l \in Nat /\ l <= 4
      BY <3>l, Lengths
    <3>2. l \in 0 .. 4
      BY <3>1
    <3> QED BY <3>l, <3>2
  <2>3. ReadsOn(P, r, Len(s), ReadBits(P, r, Len(s)))
    BY <2>2, ReadBitsExact DEF ReadsOn
  <2> QED BY <1>1, <2>1, <2>3, AcceptReads
<1>2. CASE ~(r.read + Len(s) <= Len(P))
  BY <1>2 DEF SerializeBits, Fits, Reads
<1> QED BY <1>1, <1>2

LEMMA BytesRead ==
  ASSUME NEW P \in Bytes, NEW r, ReaderExact(P, r), NEW s \in Bytes,
         Comes(P, r.read, s)
  PROVE  Reads(P, r, s, s, SerializeBytes(P, r, Len(s)))
<1>1. CASE r.read + Len(s) <= Len(P)
  <2>1. SerializeBytes(P, r, Len(s)) = Accept(ReadBytes(P, r, Len(s)))
    BY <1>1 DEF SerializeBytes, Fits
  <2>2. Len(s) \in Nat
    BY Lengths
  <2>3. ReadsOn(P, r, Len(s), ReadBytes(P, r, Len(s)))
    BY <2>2, ReadBytesExact
  <2> QED BY <1>1, <2>1, <2>3, AcceptReads
<1>2. CASE ~(r.read + Len(s) <= Len(P))
  BY <1>2 DEF SerializeBytes, Fits, Reads
<1> QED BY <1>1, <1>2

LEMMA ComesJoined ==
  ASSUME NEW P \in Bytes, NEW n \in Nat, NEW s \in Bytes, NEW t \in Bytes, Comes(P, n, s \o t)
  PROVE  Comes(P, n, s) /\ Comes(P, n + Len(s), t)
<1>j. PICK j : j = s \o t
  OBVIOUS
<1>k. PICK k : k = Len(s)
  OBVIOUS
<1>l. PICK l : l = Len(t)
  OBVIOUS
<1>1. /\ k \in Nat /\ l \in Nat /\ Len(j) = k + l
      /\ \A i \in 1 .. k + l : j[i] = IF i <= k THEN s[i] ELSE t[i - k]
  BY <1>j, <1>k, <1>l, Joined, Lengths
<1>2. \A i \in 1 .. k + l : n + i <= Len(P) => P[n + i] = j[i]
  BY <1>1, <1>j DEF Comes
<1>3. ASSUME NEW i \in 1 .. k, n + i <= Len(P)
      PROVE  P[n + i] = s[i]
  <2>1. i \in 1 .. k + l /\ i <= k
    BY <1>1
  <2> QED BY <1>1, <1>2, <1>3, <2>1
<1>4. ASSUME NEW i \in 1 .. l, (n + k) + i <= Len(P)
      PROVE  P[(n + k) + i] = t[i]
  <2>1. i + k \in 1 .. k + l /\ ~(i + k <= k) /\ (i + k) - k = i /\ n + (i + k) = (n + k) + i
    BY <1>1
  <2> QED BY <1>1, <1>2, <1>4, <2>1
<1> QED BY <1>3, <1>4, <1>k, <1>l DEF Comes

\* One read after the other.
LEMMA ReadsThen ==
  ASSUME NEW P \in Bytes, NEW r, r.read \in Nat, NEW s \in Bytes, NEW t \in Bytes,
         NEW x, NEW y, NEW a, NEW b, NEW res,
         Reads(P, r, s, x, a), a.ok => Reads(P, a.reader, t, y, b),
         a.ok => res = b, ~a.ok => res = Refused
  PROVE  Reads(P, r, s \o t, y, res)
<1>n. PICK n : n = r.read
  OBVIOUS
<1>k. PICK k : k = Len(s)
  OBVIOUS
<1>l. PICK l : l = Len(t)
  OBVIOUS
<1>p. PICK p : p = Len(P)
  OBVIOUS
<1>1. n \in Nat /\ k \in Nat /\ l \in Nat /\ p \in Nat /\ Len(s \o t) = k + l
  BY <1>n, <1>k, <1>l, <1>p, Joined, Lengths
<1>2. CASE a.ok
  <2>1. n + k <= p /\ a.reader.read = n + k
    BY <1>2, <1>n, <1>k, <1>p, ReadsOk, Zenon
  <2>2. (n + k) + l = n + (k + l)
    BY <1>1
  <2>3. Reads(P, a.reader, t, y, res)
    BY <1>2, Zenon
  <2>4. a.reader.read + Len(t) = r.read + Len(s \o t)
    BY <1>1, <1>n, <1>l, <2>1, <2>2, Zenon
  <2> QED BY <2>3, <2>4, Zenon DEF Reads
<1>3. CASE ~a.ok
  <2>1. ~(n + k <= p)
    BY <1>3, <1>n, <1>k, <1>p, ReadsOk, Zenon
  <2>2. ~(n + (k + l) <= p)
    BY <1>1, <2>1
  <2>3. ~(r.read + Len(s \o t) <= Len(P))
    BY <1>1, <1>n, <1>p, <2>2, Zenon
  <2> QED BY <1>3, <2>3, Zenon DEF Reads
<1> QED BY <1>2, <1>3

\* What fits into the buffers.
Short(d) == Len(d) <= 65532

\* A size of two bytes is read as it was written.
LEMMA SizeOfTwo ==
  \A n \in Nat : n <= 65535 => Value32(Bytes32(n)) = n /\ Len(Bytes32(n)) = 4
<1> TAKE n \in Nat
<1> HAVE n <= 65535
<1>a. PICK a : a = n % 256
  OBVIOUS
<1>b. PICK b : b = (n \div 256) % 256
  OBVIOUS
<1>c. PICK c : c = (n \div 65536) % 256
  OBVIOUS
<1>d. PICK d : d = (n \div 16777216) % 256
  OBVIOUS
<1>1. Bytes32(n) = <<a, b, c, d>>
  BY <1>a, <1>b, <1>c, <1>d DEF Bytes32
<1>2. n = a + 256 * b
  BY <1>a, <1>b
<1>3. c = 0 /\ d = 0
  BY <1>c, <1>d
<1>4. Value32(<<a, b, c, d>>) = a + 256 * b + 65536 * c + 16777216 * d
  BY DEF Value32
<1>5. a \in Nat /\ b \in Nat
  BY <1>a, <1>b
<1>6. a + 256 * b + 65536 * c + 16777216 * d = n
  BY <1>2, <1>3, <1>5
<1>7. Len(<<a, b, c, d>>) = 4
  <2>1. c \in Nat /\ d \in Nat
    BY <1>3
  <2> QED BY <1>5, <2>1
<1> QED BY <1>1, <1>4, <1>6, <1>7

LEMMA SizeAgain ==
  /\ \A d \in Bytes : Short(d) => /\ Value32(Bytes32(Len(d))) = Len(d)
                                  /\ Len(Bytes32(Len(d))) = 4
  /\ Value32(Bytes32(4)) = 4 /\ Len(Bytes32(4)) = 4
<1>1. ASSUME NEW d \in Bytes, Short(d)
      PROVE  Value32(Bytes32(Len(d))) = Len(d) /\ Len(Bytes32(Len(d))) = 4
  <2>n. PICK n : n = Len(d)
    OBVIOUS
  <2>1. n \in Nat /\ n <= 65535
    BY <1>1, <2>n, Lengths DEF Short
  <2> QED BY <2>n, <2>1, SizeOfTwo
<1>2. Value32(Bytes32(4)) = 4 /\ Len(Bytes32(4)) = 4
  BY SizeOfTwo
<1> QED BY <1>1, <1>2

\* The value of a read is replaced.
LEMMA OneField ==
  \A a, v, x, o, z :
    a = [value |-> v, reader |-> x, ok |-> o]
    => [a EXCEPT !.value = z] = [value |-> z, reader |-> x, ok |-> o]
<1> TAKE a, v, x, o, z
<1> HAVE a = [value |-> v, reader |-> x, ok |-> o]
<1>s. PICK S : S = {v, x, o, z}
  OBVIOUS
<1>R. PICK R : R = [value : S, reader : S, ok : S]
  OBVIOUS
<1>p. PICK p : p = [a EXCEPT !.value = z]
  OBVIOUS
<1>q. PICK q : q = [value |-> z, reader |-> x, ok |-> o]
  OBVIOUS
<1>1. v \in S /\ x \in S /\ o \in S /\ z \in S
  BY <1>s
<1>2. a \in R /\ q \in R
  BY <1>1, <1>R, <1>q
<1>3. p \in R
  BY <1>1, <1>2, <1>R, <1>p
<1>4. p.value = q.value /\ p.reader = q.reader /\ p.ok = q.ok
  BY <1>1, <1>2, <1>R, <1>p, <1>q
<1>5. p = q
  BY <1>2, <1>3, <1>4, <1>R
<1> QED BY <1>5, <1>p, <1>q

\* A size and an array.
LEMMA VectorRead ==
  ASSUME NEW P \in Bytes, NEW r, ReaderExact(P, r), NEW d \in Bytes, Short(d),
         Comes(P, r.read, Bytes32(Len(d)) \o d)
  PROVE  Reads(P, r, Bytes32(Len(d)) \o d, d, ReadVector(P, r))
<1>b. PICK b : b = Bytes32(Len(d))
  OBVIOUS
<1>a. PICK a : a = SerializeBits(P, r, 4)
  OBVIOUS
<1>v. PICK v : v = ReadVector(P, r)
  OBVIOUS
<1>1. Len(d) \in Nat /\ r.read \in Nat
  BY Lengths DEF ReaderExact
<1>2. b \in Bytes /\ Len(b) = 4 /\ Value32(b) = Len(d)
  BY <1>1, <1>b, Bytes32Typed, SizeAgain
<1>3. Comes(P, r.read, b) /\ Comes(P, r.read + Len(b), d)
  <2>1. Comes(P, r.read, b \o d)
    BY <1>b, Zenon
  <2> QED BY <1>1, <1>2, <2>1, ComesJoined, Zenon
<1>4. Reads(P, r, b, b, a)
  <2>1. Len(b) <= 4
    BY <1>2
  <2> QED BY <1>2, <1>3, <1>a, <2>1, BitsRead, Zenon
<1>5. a.ok \in BOOLEAN
  BY <1>4, ReadsOk
<1>6. CASE a.ok
  <2>1. /\ a.value = b /\ ReaderExact(P, a.reader) /\ a.reader.read = r.read + Len(b)
        /\ a = [value |-> b, reader |-> a.reader, ok |-> TRUE]
        /\ r.read + Len(b) <= Len(P)
    BY <1>4, <1>6, ReadsOk
  <2>2. Comes(P, a.reader.read, d)
    BY <1>3, <2>1
  <2>3. Value32(a.value) = Len(d)
    BY <1>2, <2>1
  <2>5. CASE Len(d) = 0
    <3>1. d = << >>
      BY <2>5, EmptySeq DEF Bytes
    <3>2. v = [a EXCEPT !.value = << >>]
      BY <1>6, <1>a, <1>v, <2>3, <2>5 DEF ReadVector
    <3>x. PICK x : x = a.reader
      OBVIOUS
    <3>3. a = [value |-> b, reader |-> x, ok |-> TRUE]
      BY <2>1, <3>x
    <3>4. v = [value |-> d, reader |-> x, ok |-> TRUE]
      BY <3>1, <3>2, <3>3, OneField, Zenon
    <3>5. v.reader = a.reader
      BY <3>4, <3>x
    <3>6. a.reader.read + Len(d) = a.reader.read /\ a.reader.read <= Len(P)
      BY <1>1, <1>2, <2>1, <2>5
    <3>7. Reads(P, a.reader, d, d, v)
      BY <2>1, <3>4, <3>5, <3>6, <3>x, Zenon DEF Reads
    <3>8. Reads(P, r, b \o d, d, v)
      BY <1>1, <1>2, <1>4, <1>6, <1>v, <3>7, ReadsThen, Zenon
    <3> QED BY <1>b, <1>v, <3>8, Zenon
  <2>6. CASE Len(d) # 0
    <3>1. v = SerializeBytes(P, a.reader, Len(d))
      BY <1>1, <1>6, <1>a, <1>v, <2>3, <2>6 DEF ReadVector
    <3>2. Reads(P, a.reader, d, d, v)
      BY <2>1, <2>2, <3>1, BytesRead
    <3>3. Reads(P, r, b \o d, d, v)
      BY <1>1, <1>2, <1>4, <1>6, <1>v, <3>2, ReadsThen, Zenon
    <3> QED BY <1>b, <1>v, <3>3, Zenon
  <2> QED BY <2>5, <2>6
<1>7. CASE ~a.ok
  <2>1. v = Refused
    BY <1>7, <1>a, <1>v DEF ReadVector
  <2>2. Reads(P, r, b \o d, d, v)
    BY <1>1, <1>2, <1>4, <1>7, <2>1, ReadsThen, Zenon
  <2> QED BY <1>b, <1>v, <2>2, Zenon
<1> QED BY <1>5, <1>6, <1>7

LEMMA Revalued ==
  ASSUME NEW P, NEW r, NEW s, NEW x, NEW y, NEW a, NEW res, Reads(P, r, s, x, a),
         a.ok => res = [a EXCEPT !.value = y], ~a.ok => res = Refused
  PROVE  Reads(P, r, s, y, res)
<1>1. CASE a.ok
  <2>x. PICK o : o = a.reader
    OBVIOUS
  <2>1. /\ r.read + Len(s) <= Len(P) /\ ReaderExact(P, o) /\ o.read = r.read + Len(s)
        /\ a = [value |-> x, reader |-> o, ok |-> TRUE]
    BY <1>1, <2>x, ReadsOk, Zenon
  <2>2. res = [value |-> y, reader |-> o, ok |-> TRUE]
    BY <1>1, <2>1, OneField, Zenon
  <2>3. res.reader = o
    BY <2>2
  <2> QED BY <2>1, <2>2, <2>3, Zenon DEF Reads
<1>2. CASE ~a.ok
  <2>1. ~(r.read + Len(s) <= Len(P)) /\ res = Refused
    BY <1>2, ReadsOk, Zenon
  <2> QED BY <2>1, Zenon DEF Reads
<1> QED BY <1>1, <1>2, Zenon

\* A string: its header, its size and its bytes, its padding.
LEMMA StringRead ==
  ASSUME NEW P \in Bytes, NEW r, ReaderExact(P, r), NEW d \in Bytes, Short(d),
         Comes(P, r.read, FieldText("string", d))
  PROVE  Reads(P, r, FieldText("string", d), d, ReadString(P, r))
<1>h. PICK h : h = Bytes32(4)
  OBVIOUS
<1>b. PICK b : b = Bytes32(Len(d))
  OBVIOUS
<1>p. PICK p : p = Padding(Len(d))
  OBVIOUS
<1>z. PICK z : z = Zeros(p)
  OBVIOUS
<1>v. PICK v : v = b \o d
  OBVIOUS
<1>a. PICK a : a = SerializeBits(P, r, 4)
  OBVIOUS
<1>g. PICK g : g = ReadVector(P, a.reader)
  OBVIOUS
<1>c. PICK c : c = IF a.ok THEN g ELSE Refused
  OBVIOUS
<1>e. PICK res : res = ReadString(P, r)
  OBVIOUS
<1>1. Len(d) \in Nat /\ r.read \in Nat
  BY Lengths DEF ReaderExact
<1>2. /\ h \in Bytes /\ Len(h) = 4 /\ Value32(h) = 4
      /\ b \in Bytes /\ Len(b) = 4 /\ Value32(b) = Len(d)
  BY <1>1, <1>h, <1>b, Bytes32Typed, SizeAgain
<1>3. p \in Nat /\ z \in Bytes /\ (p = 0 => z = << >>)
  BY <1>1, <1>p, <1>z, ZerosTyped, Zenon
<1>4. Len(z) = p
  <2>1. Zeros(p) \in [1 .. p -> Byte]
    BY DEF Zeros, Byte
  <2> QED BY <1>3, <1>z, <2>1, OfFunction, Zenon
<1>5. v \in Bytes /\ h \o v \in Bytes
  BY <1>2, <1>v, Concat, Zenon
<1>f. PICK f : f = h \o v
  OBVIOUS
<1>6. FieldText("string", d) = f \o z
  <2>1. FieldText("string", d) = ((h \o b) \o d) \o z
    BY <1>h, <1>b, <1>p, <1>z DEF FieldText
  <2>2. (h \o b) \o d = f
    BY <1>2, <1>f, <1>v, Assoc, Zenon
  <2> QED BY <2>1, <2>2, Zenon
<1>7. /\ Comes(P, r.read, h) /\ Comes(P, r.read + Len(h), v)
      /\ Comes(P, r.read + Len(f), z)
  <2>1. Comes(P, r.read, f) /\ Comes(P, r.read + Len(f), z)
    <3>1. Comes(P, r.read, f \o z)
      BY <1>6, Zenon
    <3>2. f \in Bytes
      BY <1>5, <1>f, Zenon
    <3> QED BY <1>1, <1>3, <3>1, <3>2, ComesJoined, Zenon
  <2>2. Comes(P, r.read, h) /\ Comes(P, r.read + Len(h), v)
    BY <1>1, <1>2, <1>5, <1>f, <2>1, ComesJoined, Zenon
  <2> QED BY <2>1, <2>2
<1>8. Reads(P, r, h, h, a)
  <2>1. Len(h) <= 4 /\ a = SerializeBits(P, r, Len(h))
    BY <1>2, <1>a
  <2> QED BY <1>2, <1>7, <2>1, BitsRead, Zenon
<1>9. a.ok \in BOOLEAN
  BY <1>8, ReadsOk, Zenon
<1>10. ASSUME a.ok
       PROVE  Reads(P, a.reader, v, d, g) /\ Value32(a.value) = 4
  <2>1. a.value = h /\ ReaderExact(P, a.reader) /\ a.reader.read = r.read + Len(h)
    BY <1>8, <1>10, ReadsOk, Zenon
  <2>2. Comes(P, a.reader.read, Bytes32(Len(d)) \o d)
    BY <1>7, <1>b, <1>v, <2>1, Zenon
  <2>3. Reads(P, a.reader, Bytes32(Len(d)) \o d, d, ReadVector(P, a.reader))
    BY <2>1, <2>2, VectorRead, Zenon
  <2>4. Reads(P, a.reader, v, d, g)
    BY <1>b, <1>g, <1>v, <2>3, Zenon
  <2> QED BY <1>2, <2>1, <2>4
<1>11. Reads(P, r, f, d, c)
  <2>1. (a.ok => c = g) /\ (~a.ok => c = Refused)
    BY <1>c, <1>9
  <2> QED BY <1>1, <1>2, <1>5, <1>8, <1>10, <1>f, <2>1, ReadsThen, Zenon
<1>12. c.ok \in BOOLEAN /\ (c.ok => a.ok /\ c = g) /\ (a.ok => c = g) /\ (~a.ok => ~c.ok)
  <2>1. c.ok \in BOOLEAN
    BY <1>11, ReadsOk, Zenon
  <2>2. Refused.ok = FALSE
    BY DEF Refused
  <2> QED BY <1>9, <1>c, <2>1, <2>2
<1>w. PICK w : w = SerializeBytes(P, g.reader, p)
  OBVIOUS
<1>13. ASSUME ~c.ok
       PROVE  res = Refused
  <2>1. ~a.ok \/ ~g.ok
    BY <1>9, <1>12, <1>13
  <2> QED BY <1>a, <1>g, <1>e, <2>1 DEF ReadString
<1>14. ASSUME c.ok
       PROVE  /\ c.value = d
              /\ res = IF p = 0 THEN c ELSE IF w.ok THEN [w EXCEPT !.value = d] ELSE Refused
  <2>1. c.value = d
    BY <1>11, <1>14, ReadsOk, Zenon
  <2>2. a.ok /\ g = c /\ Value32(a.value) = 4 /\ g.ok /\ g.value = d
    BY <1>10, <1>12, <1>14, <2>1
  <2>3. res = IF Padding(Len(g.value)) = 0 THEN g
              ELSE IF w.ok THEN [w EXCEPT !.value = g.value] ELSE Refused
    BY <1>a, <1>g, <1>e, <1>p, <1>w, <2>2 DEF ReadString
  <2> QED BY <1>p, <2>1, <2>2, <2>3
<1>15. CASE p = 0
  <2>1. res = c
    <3>1. ASSUME ~c.ok PROVE c = Refused
      BY <1>11, <3>1 DEF Reads
    <3> QED BY <1>12, <1>13, <1>14, <1>15, <3>1
  <2>2. f \o z = f
    BY <1>3, <1>5, <1>15, <1>f, Empty, Zenon
  <2> QED BY <1>6, <1>11, <1>e, <2>1, <2>2, Zenon
<1>16. CASE p # 0
  <2>1. ASSUME c.ok
        PROVE  Reads(P, c.reader, z, d, res)
    <3>1. ReaderExact(P, c.reader) /\ c.reader.read = r.read + Len(f) /\ g = c
      BY <1>11, <1>12, <2>1, ReadsOk, Zenon
    <3>2. Comes(P, c.reader.read, z)
      BY <1>7, <3>1, Zenon
    <3>3. Reads(P, c.reader, z, z, w)
      <4>1. w = SerializeBytes(P, c.reader, Len(z))
        BY <1>4, <1>w, <3>1, Zenon
      <4> QED BY <1>3, <3>1, <3>2, <4>1, BytesRead, Zenon
    <3>4. w.ok \in BOOLEAN
      BY <3>3, ReadsOk, Zenon
    <3>5. (w.ok => res = [w EXCEPT !.value = d]) /\ (~w.ok => res = Refused)
      BY <1>14, <1>16, <2>1, <3>4
    <3> QED BY <3>3, <3>5, Revalued, Zenon
  <2>2. Reads(P, r, f \o z, d, res)
    <3>1. f \in Bytes
      BY <1>5, <1>f, Zenon
    <3> QED BY <1>1, <1>3, <1>11, <1>13, <2>1, <3>1, ReadsThen, Zenon
  <2> QED BY <1>6, <1>e, <2>2, Zenon
<1> QED BY <1>15, <1>16

\* A field of any kind is read as it was written, or refused.
LEMMA FieldRead ==
  ASSUME NEW P \in Bytes, NEW r, ReaderExact(P, r), NEW kind \in Kinds, NEW x \in Contents(kind),
         Comes(P, r.read, FieldText(kind, x))
  PROVE  Reads(P, r, FieldText(kind, x), x, ReadField(P, r, kind))
<1>1. x \in Bytes /\ (kind \notin {"string", "vector"} => Len(x) <= 4)
  BY ContentsTyped, Zenon
<1>2. /\ kind \in {"string", "vector"} => Short(x)
      /\ kind \notin {"string", "vector"} => Len(x) = Width[kind]
  <2>1. DOMAIN Width = {"uint8", "uint16", "uint32"}
    BY DEF Width
  <2>2. CASE kind \in {"string", "vector"}
    <3>1. kind \notin DOMAIN Width
      BY <2>1, <2>2
    <3>2. x \in Payloads
      BY <3>1 DEF Contents
    <3> QED BY <2>2, <3>2, MessagesAssumption DEF Short
  <2>3. CASE kind \notin {"string", "vector"}
    <3>1. kind \in DOMAIN Width
      BY <2>1, <2>3 DEF Kinds
    <3> QED BY <2>3, <3>1 DEF Contents
  <2> QED BY <2>2, <2>3
<1>3. CASE kind = "string"
  <2>1. ReadField(P, r, "string") = ReadString(P, r)
    BY DEF ReadField
  <2>2. Short(x) /\ Comes(P, r.read, FieldText("string", x))
    BY <1>2, <1>3
  <2> QED BY <1>1, <1>3, <2>1, <2>2, StringRead, Zenon
<1>4. CASE kind = "vector"
  <2>1. ReadField(P, r, "vector") = ReadVector(P, r) /\ FieldText("vector", x) = Bytes32(Len(x)) \o x
    BY DEF ReadField, FieldText
  <2>2. Short(x) /\ Comes(P, r.read, Bytes32(Len(x)) \o x)
    BY <1>2, <1>4, <2>1
  <2>3. Reads(P, r, Bytes32(Len(x)) \o x, x, ReadVector(P, r))
    BY <1>1, <2>2, VectorRead, Zenon
  <2> QED BY <1>4, <2>1, <2>3, Zenon
<1>5. CASE kind \notin {"string", "vector"}
  <2>1. ReadField(P, r, kind) = SerializeBits(P, r, Len(x)) /\ FieldText(kind, x) = x
    BY <1>2, <1>5 DEF ReadField, FieldText
  <2>2. Comes(P, r.read, x)
    BY <2>1, Zenon
  <2>3. Reads(P, r, x, x, SerializeBits(P, r, Len(x)))
    BY <1>1, <1>5, <2>2, BitsRead, Zenon
  <2> QED BY <2>1, <2>3, Zenon
<1> QED BY <1>3, <1>4, <1>5

\* The bytes of a field are bytes.
LEMMA FieldTextTyped ==
  \A kind \in Kinds : \A x \in Contents(kind) : FieldText(kind, x) \in Bytes
<1> TAKE kind \in Kinds
<1> TAKE x \in Contents(kind)
<1>1. x \in Bytes /\ Len(x) \in Nat
  BY ContentsTyped, Lengths, Zenon
<1>2. /\ Bytes32(4) \in Bytes /\ Bytes32(Len(x)) \in Bytes
      /\ Zeros(Padding(Len(x))) \in Bytes
  <2>1. 4 \in Nat
    OBVIOUS
  <2> QED BY <1>1, <2>1, Bytes32Typed, ZerosTyped, Zenon
<1>3. CASE kind = "string"
  <2>1. FieldText("string", x) = ((Bytes32(4) \o Bytes32(Len(x))) \o x) \o Zeros(Padding(Len(x)))
    BY DEF FieldText
  <2>2. Bytes32(4) \o Bytes32(Len(x)) \in Bytes
    BY <1>2, Concat, Zenon
  <2>3. (Bytes32(4) \o Bytes32(Len(x))) \o x \in Bytes
    BY <1>1, <2>2, Concat, Zenon
  <2>4. FieldText("string", x) \in Bytes
    BY <1>2, <2>1, <2>3, Concat, Zenon
  <2> QED BY <1>3, <2>4, Zenon
<1>4. CASE kind = "vector"
  <2>1. FieldText("vector", x) = Bytes32(Len(x)) \o x
    BY DEF FieldText
  <2> QED BY <1>1, <1>2, <1>4, <2>1, Concat, Zenon
<1>5. CASE kind \notin {"string", "vector"}
  BY <1>1, <1>5 DEF FieldText
<1> QED BY <1>3, <1>4, <1>5

-----------------------------------------------------------------------------
(***************************************************************************)
(* The layout of a message.                                                *)
(***************************************************************************)
Count(m) == Len(Format[m.struct])

Part(m, i) == FieldText(Format[m.struct][i], m.fields[i])

\* m is a message that somebody sends.
Composed(m) ==
  /\ \E s \in Sent : m.to = s.to /\ m.type = s.type /\ m.struct = s.struct
  /\ m.fields \in [DOMAIN Format[m.struct] -> Numbers \cup Payloads]
  /\ \A i \in DOMAIN m.fields : m.fields[i] \in Contents(Format[m.struct][i])

\* The type and the first k - 1 fields of m are the bytes t: the field i
\* comes after the first off[i] bytes.
Layout(off, k, m, t) ==
  /\ off \in [1 .. k -> Nat] /\ off[1] = 1 /\ off[k] = Len(t)
  /\ \A i \in 1 .. k : off[i] <= Len(t)
  /\ \A i \in 1 .. k - 1 :
       /\ off[i + 1] = off[i] + Len(Part(m, i))
       /\ \A j \in 1 .. Len(Part(m, i)) : t[off[i] + j] = Part(m, i)[j]

\* The packet P has the beginning of the bytes t.
Prefix(P, t) ==
  /\ P \in Bytes /\ 1 <= Len(P) /\ Len(P) <= Len(t)
  /\ \A i \in 1 .. Len(P) : P[i] = t[i]

\* The fields before the field k are read, and nothing else is.
Halfway(P, off, m, k, r, d) ==
  /\ d = [struct |-> m.struct, fields |-> [i \in 1 .. k - 1 |-> m.fields[i]]]
  /\ ReaderExact(P, r) /\ r.read = off[k] /\ off[k] <= Len(P)

\* A writer that is flushed has stored the bytes t.
Stored(w, t) ==
  /\ w.memory \in Bytes /\ w.written = Len(t) /\ Len(t) <= Len(w.memory)
  /\ \A i \in 1 .. Len(t) : w.memory[i] = t[i]

LayoutInv ==
  /\ phase \in {"idle", "write", "send", "read"}
  /\ phase # "idle" => Composed(message) /\ text \in Bytes
  /\ phase = "write" => /\ at \in 1 .. Count(message) + 1
                        /\ Exact(writer, text)
                        /\ \E off : Layout(off, at, message, text)
  /\ phase = "send" => /\ Stored(writer, text)
                       /\ \E off : Layout(off, Count(message) + 1, message, text)
  /\ phase = "read" =>
       /\ Prefix(packet, text) /\ at \in 1 .. Count(message) + 1
       /\ \E off : /\ Layout(off, Count(message) + 1, message, text)
                   /\ \/ Halfway(packet, off, message, at, reader, decoded)
                      \/ decoded = Nothing /\ Len(packet) < Len(text)

-----------------------------------------------------------------------------
LEMMA FormatCounts ==
  \A s \in DOMAIN Format : Len(Format[s]) \in Nat /\ DOMAIN Format[s] = 1 .. Len(Format[s])
BY DEF Format

\* What is sent is read into the struct it was written from, and that is what
\* the dispatcher casts it to; no such struct is empty.
LEMMA SentCast ==
  \A m \in Sent : /\ StructOf(m.type) = m.struct /\ m.struct # "BaseMessage"
                  /\ Cast(m.to, m.type) \in {"none", m.struct}
<1> TAKE m \in Sent
<1>1. CASE m.to = "server" /\ m.struct = "Message"
           /\ m.type \in (Requests \ {"ROOM_JOIN"}) \cup {"JOIN_OR_CREATE_ROOM_RANDOM"}
  BY <1>1 DEF StructOf, Cast, Requests, Notices, Settings, RPCs, Packets
<1>2. CASE m.to = "server" /\ m.struct = "RoomSettingMessage" /\ m.type \in Settings
  BY <1>2 DEF StructOf, Cast, Requests, Notices, Settings, RPCs, Packets
<1>3. CASE m.to = "server" /\ m.struct = "CreateRoomWithPasswordMessage"
           /\ m.type = "CREATE_ROOM_WITH_PASSWORD"
  BY <1>3 DEF StructOf, Cast, Requests, Notices, Settings, RPCs, Packets
<1>4. CASE m.to = "server" /\ m.struct = "JoinRoomWithPasswordMessage"
           /\ m.type \in {"JOIN_ROOM_WITH_PASSWORD", "JOIN_OR_CREATE_ROOM"}
  BY <1>4 DEF StructOf, Cast, Requests, Notices, Settings, RPCs, Packets
<1>5. CASE m.to = "server" /\ m.struct = "RPCMessage" /\ m.type \in RPCs
  BY <1>5 DEF StructOf, Cast, Requests, Notices, Settings, RPCs, Packets
<1>6. CASE m.to = "server" /\ m.struct = "PacketMessage" /\ m.type \in Packets
  BY <1>6 DEF StructOf, Cast, Requests, Notices, Settings, RPCs, Packets
<1>7. CASE m.to = "client" /\ m.struct = "ConfirmConnectionMessage"
           /\ m.type = "CONFIRM_CONNECTION"
  BY <1>7 DEF StructOf, Cast, Requests, Notices, Settings, RPCs, Packets
<1>8. CASE m.to = "client" /\ m.struct = "ConfirmRoomJoinMessage"
           /\ m.type = "CONFIRM_ROOM_JOIN"
  BY <1>8 DEF StructOf, Cast, Requests, Notices, Settings, RPCs, Packets
<1>9. CASE m.to = "client" /\ m.struct = "Message"
           /\ m.type \in Notices \cup {"CONFIRM_ROOM_CREATION", "HOST_LEFT"}
  BY <1>9 DEF StructOf, Cast, Requests, Notices, Settings, RPCs, Packets
<1>10. CASE m.to = "client" /\ m.struct = "RPCMessage" /\ m.type = "RPC_TO_CLIENTS"
  BY <1>10 DEF StructOf, Cast, Requests, Notices, Settings, RPCs, Packets
<1>11. CASE m.to = "client" /\ m.struct = "PacketMessage" /\ m.type \in Packets
  BY <1>11 DEF StructOf, Cast, Requests, Notices, Settings, RPCs, Packets
<1> QED BY <1>1, <1>2, <1>3, <1>4, <1>5, <1>6, <1>7, <1>8, <1>9, <1>10, <1>11 DEF Sent

\* The parts of a message are bytes.
LEMMA ComposedParts ==
  ASSUME NEW m, Composed(m)
  PROVE  /\ m.struct \in DOMAIN Format /\ Count(m) \in Nat
         /\ DOMAIN Format[m.struct] = 1 .. Count(m) /\ DOMAIN m.fields = 1 .. Count(m)
         /\ \A i \in 1 .. Count(m) : /\ Format[m.struct][i] \in Kinds
                                     /\ m.fields[i] \in Contents(Format[m.struct][i])
                                     /\ Part(m, i) \in Bytes
<1>1. m.struct \in DOMAIN Format
  BY SentTyped, Zenon DEF Composed
<1>2. Count(m) \in Nat /\ DOMAIN Format[m.struct] = 1 .. Count(m)
  BY <1>1, FormatCounts, Zenon DEF Count
<1>3. DOMAIN m.fields = 1 .. Count(m)
  BY <1>2, Zenon DEF Composed
<1>4. ASSUME NEW i \in 1 .. Count(m)
      PROVE  /\ Format[m.struct][i] \in Kinds
             /\ m.fields[i] \in Contents(Format[m.struct][i]) /\ Part(m, i) \in Bytes
  <2>1. Format[m.struct][i] \in Kinds
    BY <1>1, <1>2, FormatKinds, Zenon
  <2>2. m.fields[i] \in Contents(Format[m.struct][i])
    BY <1>3, Zenon DEF Composed
  <2> QED BY <2>1, <2>2, FieldTextTyped, Zenon DEF Part
<1> QED BY <1>1, <1>2, <1>3, <1>4

\* Another field is written.
LEMMA LayoutGrows ==
  ASSUME NEW m, NEW k \in Nat \ {0}, NEW t \in Bytes, NEW off, Layout(off, k, m, t),
         NEW q \in Bytes, q = Part(m, k),
         \A i \in 1 .. k - 1 : Part(m, i) \in Bytes
  PROVE  \E new : Layout(new, k + 1, m, t \o q)
<1>l. PICK l : l = Len(t)
  OBVIOUS
<1>n. PICK n : n = Len(q)
  OBVIOUS
<1>u. PICK u : u = t \o q
  OBVIOUS
<1>w. PICK new : new = [i \in 1 .. k + 1 |-> IF i <= k THEN off[i] ELSE l + n]
  OBVIOUS
<1>1. /\ l \in Nat /\ n \in Nat /\ u \in Bytes /\ Len(u) = l + n
      /\ \A i \in 1 .. l + n : u[i] = IF i <= l THEN t[i] ELSE q[i - l]
  BY <1>l, <1>n, <1>u, Joined, Lengths
<1>2. /\ off \in [1 .. k -> Nat] /\ off[1] = 1 /\ off[k] = l
      /\ \A i \in 1 .. k : off[i] <= l
      /\ \A i \in 1 .. k - 1 :
           /\ off[i + 1] = off[i] + Len(Part(m, i))
           /\ \A j \in 1 .. Len(Part(m, i)) : t[off[i] + j] = Part(m, i)[j]
  BY <1>l DEF Layout
<1>3. /\ new \in [1 .. k + 1 -> Nat] /\ new[1] = 1 /\ new[k + 1] = l + n
      /\ \A i \in 1 .. k : new[i] = off[i]
  BY <1>1, <1>2, <1>w
<1>4. \A i \in 1 .. k + 1 : new[i] <= l + n
  <2> TAKE i \in 1 .. k + 1
  <2>1. CASE i = k + 1
    BY <1>1, <1>3, <2>1
  <2>2. CASE i # k + 1
    <3>1. i \in 1 .. k
      BY <2>2
    <3>2. new[i] = off[i] /\ off[i] \in Nat /\ off[i] <= l
      BY <1>2, <1>3, <3>1
    <3> QED BY <1>1, <3>2
  <2> QED BY <2>1, <2>2
<1>5. ASSUME NEW i \in 1 .. k
      PROVE  /\ new[i + 1] = new[i] + Len(Part(m, i))
             /\ \A j \in 1 .. Len(Part(m, i)) : u[new[i] + j] = Part(m, i)[j]
  <2>1. CASE i = k
    <3>1. new[i] = l /\ new[i + 1] = l + n /\ Part(m, i) = q
      BY <1>2, <1>3, <2>1
    <3>2. \A j \in 1 .. n : u[l + j] = q[j]
      <4> TAKE j \in 1 .. n
      <4>1. l + j \in 1 .. l + n /\ ~(l + j <= l) /\ (l + j) - l = j
        BY <1>1
      <4> QED BY <1>1, <4>1
    <3> QED BY <1>n, <3>1, <3>2
  <2>2. CASE i # k
    <3>p. PICK p : p = Part(m, i)
      OBVIOUS
    <3>x. PICK x : x = Len(p)
      OBVIOUS
    <3>1. i \in 1 .. k - 1 /\ i \in 1 .. k /\ i + 1 \in 1 .. k
      BY <2>2
    <3>2. p \in Bytes /\ x \in Nat
      BY <3>1, <3>p, <3>x, Lengths
    <3>3. /\ new[i] = off[i] /\ new[i + 1] = off[i + 1] /\ off[i + 1] = off[i] + x
          /\ \A j \in 1 .. x : t[off[i] + j] = p[j]
      BY <1>2, <1>3, <3>1, <3>p, <3>x
    <3>4. \A j \in 1 .. x : u[off[i] + j] = p[j]
      <4> TAKE j \in 1 .. x
      <4>1. off[i] \in Nat /\ off[i] + x <= l
        BY <1>2, <3>1, <3>3
      <4>2. off[i] + j \in 1 .. l + n /\ off[i] + j <= l
        BY <1>1, <3>2, <4>1
      <4> QED BY <1>1, <3>3, <4>2
    <3> QED BY <3>3, <3>4, <3>p, <3>x
  <2> QED BY <2>1, <2>2
<1>6. (k + 1) - 1 = k
  OBVIOUS
<1>7. Layout(new, k + 1, m, u)
  BY <1>1, <1>3, <1>4, <1>5, <1>6 DEF Layout
<1> QED BY <1>7, <1>u

\* Another field is read.
LEMMA FieldsGrow ==
  ASSUME NEW f, NEW k \in Nat \ {0}
  PROVE  Append([i \in 1 .. k - 1 |-> f[i]], f[k]) = [i \in 1 .. k |-> f[i]]
<1>s. PICK S : S = {f[i] : i \in 1 .. k}
  OBVIOUS
<1>g. PICK g : g = [i \in 1 .. k - 1 |-> f[i]]
  OBVIOUS
<1>h. PICK h : h = [i \in 1 .. k |-> f[i]]
  OBVIOUS
<1>1. g \in Seq(S) /\ Len(g) = k - 1 /\ \A i \in 1 .. k - 1 : g[i] = f[i]
  BY <1>s, <1>g
<1>2. h \in Seq(S) /\ Len(h) = k /\ \A i \in 1 .. k : h[i] = f[i]
  BY <1>s, <1>h
<1>3. f[k] \in S
  BY <1>s
<1>a. PICK a : a = Append(g, f[k])
  OBVIOUS
<1>4. /\ a \in Seq(S) /\ Len(a) = Len(g) + 1
      /\ \A i \in 1 .. Len(g) : a[i] = g[i]
      /\ a[Len(g) + 1] = f[k]
  BY <1>1, <1>3, <1>a, AppendProperties
<1>5. \A i \in 1 .. k : a[i] = h[i]
  <2> TAKE i \in 1 .. k
  <2>1. CASE i = k
    BY <1>1, <1>2, <1>4, <2>1
  <2>2. CASE i # k
    BY <1>1, <1>2, <1>4, <2>2
  <2> QED BY <2>1, <2>2
<1>6. Len(a) = Len(h) /\ \A i \in 1 .. Len(a) : a[i] = h[i]
  BY <1>1, <1>2, <1>4, <1>5
<1>7. a = h
  BY <1>2, <1>4, <1>6, SeqEqual
<1> QED BY <1>7, <1>a, <1>g, <1>h

-----------------------------------------------------------------------------
(***************************************************************************)
(* The steps.                                                              *)
(***************************************************************************)
LEMMA FlushStores ==
  ASSUME NEW w, NEW t, t \in Bytes, Exact(w, t)
  PROVE  Stored(FlushBits(w), t)
<1>m. PICK m : m = w.memory
  OBVIOUS
<1>c. PICK c : c = w.scratch
  OBVIOUS
<1>f. PICK f : f = [i \in 1..4 |-> IF i <= Len(c) THEN c[i] ELSE 0]
  OBVIOUS
<1>g. PICK g : g = FlushBits(w).memory
  OBVIOUS
<1>n. PICK n : n = Len(t)
  OBVIOUS
<1>1. /\ m \in Bytes /\ c \in Bytes /\ n = Len(m) + Len(c) /\ Len(c) <= 3
      /\ Len(m) \in Nat /\ Len(c) \in Nat /\ n \in Nat
      /\ w = [memory |-> m, scratch |-> c, written |-> w.written]
  <2>1. /\ m \in Bytes /\ c \in Bytes /\ Len(c) <= 3 /\ t = m \o c
        /\ w = [memory |-> m, scratch |-> c, written |-> w.written]
    BY <1>m, <1>c DEF Exact
  <2> QED BY <1>n, <2>1, Concat, Lengths
<1>2. FlushBits(w).written = n /\ SubSeq(g, 1, n) = t
  BY <1>g, <1>n, FlushExact
<1>3. g \in Bytes /\ n <= Len(g) /\ Len(g) \in Nat
  <2>1. CASE c = << >>
    <3>1. g = m /\ Len(c) = 0
      BY <1>c, <1>g, <1>m, <2>1, Empty DEF FlushBits
    <3> QED BY <1>1, <3>1
  <2>2. CASE c # << >>
    <3>1. f \in Bytes /\ Len(f) = 4
      <4>1. \A i \in 1 .. 4 : f[i] \in Byte
        <5> TAKE i \in 1 .. 4
        <5>1. CASE i <= Len(c)
          <6>1. i \in 1 .. Len(c) /\ c \in Seq(Byte)
            BY <1>1, <5>1 DEF Bytes
          <6> QED BY <1>f, <5>1, <6>1
        <5>2. CASE ~(i <= Len(c))
          BY <1>f, <5>2 DEF Byte
        <5> QED BY <5>1, <5>2
      <4>2. f \in [1 .. 4 -> Byte]
        BY <1>f, <4>1
      <4> QED BY <4>2, OfFunction
    <3>2. g = m \o f
      <4>1. FlushBits(w) = [w EXCEPT !.memory = m \o f, !.scratch = << >>]
        BY <1>c, <1>f, <1>m, <2>2, Zenon DEF FlushBits, WordBytes
      <4>z. PICK z : z = m \o f
        OBVIOUS
      <4>2. FlushBits(w) = [w EXCEPT !.memory = z, !.scratch = << >>]
        BY <4>1, <4>z
      <4>3. FlushBits(w).memory = z
        BY <1>1, <4>2
      <4> QED BY <1>g, <4>3, <4>z
    <3>3. g \in Bytes /\ Len(g) = Len(m) + 4
      <4>1. g \in Bytes /\ Len(g) = Len(m) + Len(f)
        BY <1>1, <3>1, <3>2, Concat, Zenon
      <4> QED BY <3>1, <4>1
    <3> QED BY <1>1, <3>3
  <2> QED BY <2>1, <2>2
<1>4. \A i \in 1 .. n : g[i] = t[i]
  <2> TAKE i \in 1 .. n
  <2>1. SubSeq(g, 1, n)[i] = g[i]
    BY <1>1, <1>3 DEF Bytes
  <2> QED BY <1>2, <2>1
<1> QED BY <1>2, <1>3, <1>4, <1>g, <1>n DEF Stored

LEMMA InitLayout == Init => LayoutInv
BY DEF Init, LayoutInv

LEMMA BeginLayout == Begin => LayoutInv'
<1> SUFFICES ASSUME Begin PROVE LayoutInv'
  OBVIOUS
<1>0. PICK m \in Sent :
        \E fields \in [DOMAIN Format[m.struct] -> Numbers \cup Payloads] :
          /\ \A i \in DOMAIN fields : fields[i] \in Contents(Format[m.struct][i])
          /\ message' = [to |-> m.to, type |-> m.type, struct |-> m.struct, fields |-> fields]
          /\ writer' = WriteBits(NewWriter, <<MessageType[m.type]>>)
          /\ text' = <<MessageType[m.type]>>
  BY Zenon DEF Begin
<1>1. PICK fields \in [DOMAIN Format[m.struct] -> Numbers \cup Payloads] :
          /\ \A i \in DOMAIN fields : fields[i] \in Contents(Format[m.struct][i])
          /\ message' = [to |-> m.to, type |-> m.type, struct |-> m.struct, fields |-> fields]
          /\ writer' = WriteBits(NewWriter, <<MessageType[m.type]>>)
          /\ text' = <<MessageType[m.type]>>
  BY <1>0, Zenon
<1>2. phase' = "write" /\ at' = 1
  BY Zenon DEF Begin
<1>e. PICK e : e = MessageType[m.type]
  OBVIOUS
<1>b. PICK b : b = <<e>>
  OBVIOUS
<1>3. b \in Bytes /\ Len(b) = 1
  <2>1. e \in Byte
    BY <1>e, SentTyped, TypeIsByte, Zenon
  <2> QED BY <1>b, <2>1 DEF Bytes
<1>4. text' = b /\ writer' = WriteBits(NewWriter, b)
  BY <1>1, <1>b, <1>e, Zenon
<1>5. Exact(writer', text')
  <2>1. Exact(WriteBits(NewWriter, b), << >> \o b)
    <3>1. Len(b) <= 4
      BY <1>3
    <3> QED BY <1>3, <3>1, NewWriterExact, WriteBitsExact, Zenon
  <2>2. << >> \o b = b
    BY <1>3, Empty, Zenon
  <2> QED BY <1>4, <2>1, <2>2, Zenon
<1>6. Composed(message')
  <2>1. /\ message'.to = m.to /\ message'.type = m.type
        /\ message'.struct = m.struct /\ message'.fields = fields
    BY <1>1
  <2> QED BY <1>1, <2>1, Zenon DEF Composed
<1>7. Layout([i \in 1 .. 1 |-> 1], 1, message', text')
  <2>1. Len(text') = 1
    BY <1>3, <1>4
  <2> QED BY <2>1 DEF Layout
<1>8. at' \in 1 .. Count(message') + 1
  <2>1. Count(message') \in Nat
    BY <1>6, ComposedParts, Zenon
  <2> QED BY <1>2, <2>1
<1> QED BY <1>2, <1>3, <1>4, <1>5, <1>6, <1>7, <1>8, Zenon DEF LayoutInv

LEMMA WriteLayout == LayoutInv /\ Write => LayoutInv'
<1> SUFFICES ASSUME LayoutInv, Write PROVE LayoutInv'
  OBVIOUS
<1>m. PICK m : m = message
  OBVIOUS
<1>k. PICK k : k = at
  OBVIOUS
<1>t. PICK t : t = text
  OBVIOUS
<1>q. PICK q : q = Part(m, k)
  OBVIOUS
<1>1. /\ phase = "write" /\ k \in DOMAIN m.fields
      /\ writer' = WriteField(writer, Format[m.struct][k], m.fields[k])
      /\ text' = t \o q /\ at' = k + 1 /\ phase' = "write" /\ message' = m
  BY <1>m, <1>k, <1>t, <1>q, Zenon DEF Write, Part
<1>2. Composed(m) /\ t \in Bytes /\ Exact(writer, t) /\ \E off : Layout(off, k, m, t)
  BY <1>1, <1>m, <1>k, <1>t, Zenon DEF LayoutInv
<1>3. /\ Count(m) \in Nat /\ DOMAIN m.fields = 1 .. Count(m)
      /\ \A i \in 1 .. Count(m) : /\ Format[m.struct][i] \in Kinds
                                  /\ m.fields[i] \in Contents(Format[m.struct][i])
                                  /\ Part(m, i) \in Bytes
  BY <1>2, ComposedParts, Zenon
<1>4. k \in 1 .. Count(m) /\ k \in Nat \ {0} /\ k + 1 \in 1 .. Count(m) + 1
  BY <1>1, <1>3
<1>5. q \in Bytes /\ \A i \in 1 .. k - 1 : Part(m, i) \in Bytes
  <2>1. \A i \in 1 .. k - 1 : i \in 1 .. Count(m)
    BY <1>3, <1>4
  <2> QED BY <1>3, <1>4, <1>q, <2>1, Zenon
<1>6. Exact(writer', t \o q)
  BY <1>1, <1>2, <1>3, <1>4, <1>q, WriteFieldExact, Zenon DEF Part
<1>7. \E new : Layout(new, k + 1, m, t \o q)
  BY <1>2, <1>4, <1>5, <1>q, LayoutGrows, Zenon
<1>8. t \o q \in Bytes
  BY <1>2, <1>5, Concat, Zenon
<1> QED BY <1>1, <1>2, <1>4, <1>6, <1>7, <1>8, Zenon DEF LayoutInv

LEMMA FlushLayout == LayoutInv /\ Flush => LayoutInv'
<1> SUFFICES ASSUME LayoutInv, Flush PROVE LayoutInv'
  OBVIOUS
<1>1. /\ phase = "write" /\ phase' = "send" /\ at \notin DOMAIN message.fields
      /\ writer' = FlushBits(writer) /\ text' = text /\ message' = message
  BY Zenon DEF Flush
<1>2. /\ Composed(message) /\ text \in Bytes /\ at \in 1 .. Count(message) + 1
      /\ Exact(writer, text) /\ \E off : Layout(off, at, message, text)
  BY <1>1, Zenon DEF LayoutInv
<1>3. Stored(writer', text)
  BY <1>1, <1>2, FlushStores, Zenon
<1>4. at = Count(message) + 1
  <2>1. Count(message) \in Nat /\ DOMAIN message.fields = 1 .. Count(message)
    BY <1>2, ComposedParts, Zenon
  <2> QED BY <1>1, <1>2, <2>1
<1> QED BY <1>1, <1>2, <1>3, <1>4, Zenon DEF LayoutInv

LEMMA ArriveLayout == LayoutInv /\ Arrive => LayoutInv'
<1> SUFFICES ASSUME LayoutInv, Arrive PROVE LayoutInv'
  OBVIOUS
<1>m. PICK m : m = message
  OBVIOUS
<1>t. PICK t : t = text
  OBVIOUS
<1>w. PICK w : w = writer
  OBVIOUS
<1>1. /\ phase = "send" /\ phase' = "read" /\ at' = 1 /\ message' = m /\ text' = t
      /\ \E length \in 1 .. w.written : packet' = SubSeq(w.memory, 1, length)
      /\ decoded' = [struct |-> StructOf(m.type), fields |-> << >>]
      /\ reader' = ReadBits(packet', NewReader, 1).reader
  BY <1>m, <1>t, <1>w, Zenon DEF Arrive
<1>2. Composed(m) /\ t \in Bytes /\ Stored(w, t) /\ \E off : Layout(off, Count(m) + 1, m, t)
  BY <1>1, <1>m, <1>t, <1>w, Zenon DEF LayoutInv
<1>l. PICK length \in 1 .. w.written : packet' = SubSeq(w.memory, 1, length)
  BY <1>1
<1>o. PICK off : Layout(off, Count(m) + 1, m, t)
  BY <1>2
<1>p. PICK P : P = packet'
  OBVIOUS
<1>3. Prefix(P, t)
  <2>g. PICK g : g = w.memory
    OBVIOUS
  <2>n. PICK n : n = Len(t)
    OBVIOUS
  <2>1. g \in Bytes /\ w.written = n /\ n <= Len(g) /\ \A i \in 1 .. n : g[i] = t[i]
    BY <1>2, <2>g, <2>n DEF Stored
  <2>2. n \in Nat /\ Len(g) \in Nat /\ length \in 1 .. n
    BY <1>2, <1>l, <2>1, <2>n, Lengths
  <2>3. P = SubSeq(g, 1, length)
    BY <1>l, <1>p, <2>g
  <2>4. /\ P \in Seq(Byte) /\ Len(P) = length
        /\ \A i \in 1 .. length : P[i] = g[i]
    BY <2>1, <2>2, <2>3 DEF Bytes
  <2>5. \A i \in 1 .. length : i \in 1 .. n
    BY <2>2
  <2> QED BY <2>1, <2>2, <2>4, <2>5, <2>n DEF Prefix, Bytes
<1>4. ReaderExact(P, reader') /\ reader'.read = 1
  <2>1. P \in Bytes
    BY <1>3 DEF Prefix
  <2>2. ReaderExact(P, NewReader) /\ NewReader.read = 0
    BY NewReaderExact DEF NewReader
  <2>3. ReaderExact(P, ReadBits(P, NewReader, 1).reader)
        /\ ReadBits(P, NewReader, 1).reader.read = 0 + 1
    <3>1. 1 \in 0 .. 4
      OBVIOUS
    <3>r. PICK r : r = NewReader
      OBVIOUS
    <3>2. ReaderExact(P, ReadBits(P, r, 1).reader)
          /\ ReadBits(P, r, 1).reader.read = r.read + 1
      BY <2>1, <2>2, <3>1, <3>r, ReadBitsExact
    <3> QED BY <2>2, <3>2, <3>r
  <2> QED BY <1>1, <1>p, <2>3
<1>5. StructOf(m.type) = m.struct
  BY <1>2, SentCast, Zenon DEF Composed
<1>6. Halfway(P, off, m, 1, reader', decoded')
  <2>1. off[1] = 1
    BY <1>o DEF Layout
  <2>2. 1 <= Len(P)
    BY <1>3 DEF Prefix
  <2>3. << >> = [i \in 1 .. 1 - 1 |-> m.fields[i]]
    OBVIOUS
  <2> QED BY <1>1, <1>4, <1>5, <2>1, <2>2, <2>3 DEF Halfway
<1>7. 1 \in 1 .. Count(m) + 1
  <2>1. Count(m) \in Nat
    BY <1>2, ComposedParts, Zenon
  <2> QED BY <2>1
<1>8. Prefix(packet', text')
  BY <1>1, <1>3, <1>p, Zenon
<1>9. Layout(off, Count(message') + 1, message', text')
      /\ Halfway(packet', off, message', at', reader', decoded')
  BY <1>1, <1>6, <1>o, <1>p, Zenon
<1>10. Composed(message') /\ text' \in Bytes /\ at' \in 1 .. Count(message') + 1
  BY <1>1, <1>2, <1>7, Zenon
<1> QED BY <1>1, <1>8, <1>9, <1>10, Zenon DEF LayoutInv

\* What comes at a field is the field.
LEMMA FieldComes ==
  ASSUME NEW P, NEW off, NEW n \in Nat, NEW m, NEW t \in Bytes, NEW k \in 1 .. n,
         Prefix(P, t), Layout(off, n + 1, m, t), Part(m, k) \in Bytes
  PROVE  /\ Comes(P, off[k], Part(m, k)) /\ off[k + 1] = off[k] + Len(Part(m, k))
         /\ off[k] \in Nat /\ off[k + 1] \in Nat /\ off[k + 1] <= Len(t)
<1>p. PICK p : p = Part(m, k)
  OBVIOUS
<1>x. PICK x : x = Len(p)
  OBVIOUS
<1>o. PICK o : o = off[k]
  OBVIOUS
<1>1. k \in 1 .. (n + 1) - 1 /\ k \in 1 .. n + 1 /\ k + 1 \in 1 .. n + 1
  OBVIOUS
<1>2. /\ off \in [1 .. n + 1 -> Nat] /\ off[k + 1] = o + x /\ off[k + 1] <= Len(t)
      /\ \A j \in 1 .. x : t[o + j] = p[j]
  BY <1>1, <1>p, <1>x, <1>o DEF Layout
<1>3. o \in Nat /\ off[k + 1] \in Nat /\ x \in Nat /\ Len(P) \in Nat
  BY <1>1, <1>2, <1>p, <1>x, <1>o, Lengths DEF Prefix
<1>4. ASSUME NEW j \in 1 .. x, o + j <= Len(P)
      PROVE  P[o + j] = p[j]
  <2>1. o + j \in 1 .. Len(P)
    BY <1>3, <1>4
  <2>2. P[o + j] = t[o + j]
    BY <2>1 DEF Prefix
  <2> QED BY <1>2, <2>2
<1>5. Comes(P, o, p)
  BY <1>4, <1>x DEF Comes
<1> QED BY <1>2, <1>3, <1>5, <1>o, <1>p, <1>x

LEMMA ReadLayout == LayoutInv /\ Read => LayoutInv'
<1> SUFFICES ASSUME LayoutInv, Read PROVE LayoutInv'
  OBVIOUS
<1>m. PICK m : m = message
  OBVIOUS
<1>k. PICK k : k = at
  OBVIOUS
<1>t. PICK t : t = text
  OBVIOUS
<1>p. PICK P : P = packet
  OBVIOUS
<1>r. PICK r : r = reader
  OBVIOUS
<1>d. PICK d : d = decoded
  OBVIOUS
<1>n. PICK n : n = Count(m)
  OBVIOUS
<1>e. PICK read : read = ReadField(P, r, Format[d.struct][k])
  OBVIOUS
<1>1. /\ phase = "read" /\ phase' = "read" /\ k \in DOMAIN Format[d.struct]
      /\ reader' = read.reader
      /\ decoded' = IF read.ok THEN [d EXCEPT !.fields = Append(@, read.value)] ELSE Nothing
      /\ at' = k + 1 /\ message' = m /\ text' = t /\ packet' = P
  BY <1>m, <1>k, <1>t, <1>p, <1>r, <1>d, <1>e, Zenon DEF Read
<1>2. /\ Composed(m) /\ t \in Bytes /\ Prefix(P, t) /\ k \in 1 .. n + 1
      /\ \E off : /\ Layout(off, n + 1, m, t)
                  /\ \/ Halfway(P, off, m, k, r, d)
                     \/ d = Nothing /\ Len(P) < Len(t)
  BY <1>1, <1>m, <1>k, <1>t, <1>p, <1>r, <1>d, <1>n, Zenon DEF LayoutInv
<1>o. PICK off : /\ Layout(off, n + 1, m, t)
                 /\ \/ Halfway(P, off, m, k, r, d)
                    \/ d = Nothing /\ Len(P) < Len(t)
  BY <1>2, Zenon
<1>3. Halfway(P, off, m, k, r, d)
  <2>1. DOMAIN Format["BaseMessage"] = {}
    BY DEF Format
  <2>2. Nothing.struct = "BaseMessage"
    BY DEF Nothing
  <2>3. d # Nothing
    BY <1>1, <2>1, <2>2, Zenon
  <2> QED BY <1>o, <2>3, Zenon
<1>f. PICK f : f = m.fields
  OBVIOUS
<1>4. /\ d = [struct |-> m.struct, fields |-> [i \in 1 .. k - 1 |-> f[i]]]
      /\ ReaderExact(P, r) /\ r.read = off[k] /\ off[k] <= Len(P)
  BY <1>3, <1>f, Zenon DEF Halfway
<1>5. /\ n \in Nat /\ DOMAIN Format[m.struct] = 1 .. n /\ d.struct = m.struct
      /\ \A i \in 1 .. n : /\ Format[m.struct][i] \in Kinds
                           /\ m.fields[i] \in Contents(Format[m.struct][i])
                           /\ Part(m, i) \in Bytes
  <2>1. d.struct = m.struct
    BY <1>4
  <2> QED BY <1>2, <1>n, <2>1, ComposedParts, Zenon
<1>6. k \in 1 .. n
  BY <1>1, <1>5, Zenon
<1>q. PICK q : q = Part(m, k)
  OBVIOUS
<1>7. /\ Comes(P, off[k], q) /\ off[k + 1] = off[k] + Len(q)
      /\ off[k] \in Nat /\ off[k + 1] \in Nat /\ off[k + 1] <= Len(t)
  <2>1. Part(m, k) \in Bytes /\ Layout(off, n + 1, m, t)
    BY <1>5, <1>6, <1>o, Zenon
  <2>2. /\ Comes(P, off[k], Part(m, k)) /\ off[k + 1] = off[k] + Len(Part(m, k))
        /\ off[k] \in Nat /\ off[k + 1] \in Nat /\ off[k + 1] <= Len(t)
    BY <1>2, <1>5, <1>6, <2>1, FieldComes
  <2> QED BY <1>q, <2>2, Zenon
<1>8. Reads(P, r, q, f[k], read)
  <2>1. P \in Bytes
    BY <1>2, Zenon DEF Prefix
  <2>2. q = FieldText(Format[m.struct][k], f[k])
    BY <1>f, <1>q, Zenon DEF Part
  <2>3. Format[m.struct][k] \in Kinds /\ f[k] \in Contents(Format[m.struct][k])
    BY <1>5, <1>6, <1>f, Zenon
  <2>4. Comes(P, r.read, FieldText(Format[m.struct][k], f[k]))
    BY <1>4, <1>7, <2>2, Zenon
  <2>5. read = ReadField(P, r, Format[m.struct][k])
    BY <1>5, <1>e, Zenon
  <2> QED BY <1>4, <2>1, <2>2, <2>3, <2>4, <2>5, FieldRead, Zenon
<1>9. \/ Halfway(P, off, m, k + 1, reader', decoded')
      \/ decoded' = Nothing /\ Len(P) < Len(t)
  <2>1. CASE read.ok
    <3>1. /\ read.value = f[k] /\ ReaderExact(P, read.reader)
          /\ read.reader.read = off[k + 1] /\ off[k + 1] <= Len(P)
      BY <1>4, <1>7, <1>8, <2>1, ReadsOk, Zenon
    <3>g. PICK g : g = [i \in 1 .. k - 1 |-> f[i]]
      OBVIOUS
    <3>h. PICK h : h = [i \in 1 .. k |-> f[i]]
      OBVIOUS
    <3>2. Append(g, f[k]) = h
      <4>1. k \in Nat \ {0}
        BY <1>5, <1>6
      <4> QED BY <3>g, <3>h, <4>1, FieldsGrow, Zenon
    <3>s. PICK s : s = m.struct
      OBVIOUS
    <3>3. d = [struct |-> s, fields |-> g]
      BY <1>4, <3>g, <3>s, Zenon
    <3>4. decoded' = [d EXCEPT !.fields = Append(@, f[k])]
      BY <1>1, <2>1, <3>1
    <3>5. decoded' = [struct |-> s, fields |-> h]
      <4>1. d.fields = g
        BY <3>3
      <4>2. decoded' = [d EXCEPT !.fields = h]
        BY <3>2, <3>4, <4>1
      <4> QED BY <3>3, <4>2
    <3>6. (k + 1) - 1 = k
      BY <1>5, <1>6
    <3>7. decoded' = [struct |-> m.struct, fields |-> [i \in 1 .. (k + 1) - 1 |-> m.fields[i]]]
      BY <1>f, <3>5, <3>6, <3>h, <3>s
    <3> QED BY <1>1, <3>1, <3>7 DEF Halfway
  <2>2. CASE ~read.ok
    <3>1. decoded' = Nothing
      BY <1>1, <2>2
    <3>2. ~(off[k + 1] <= Len(P))
      BY <1>4, <1>7, <1>8, <2>2, ReadsOk, Zenon
    <3>3. Len(P) \in Nat /\ Len(t) \in Nat
      BY <1>2, Lengths, Zenon DEF Prefix
    <3> QED BY <1>7, <3>1, <3>2, <3>3
  <2> QED BY <2>1, <2>2
<1>10. k + 1 \in 1 .. n + 1
  BY <1>5, <1>6
<1>11. /\ Composed(message') /\ text' \in Bytes /\ Prefix(packet', text')
       /\ at' \in 1 .. Count(message') + 1
  BY <1>1, <1>2, <1>10, <1>n, Zenon
<1>12. /\ Layout(off, Count(message') + 1, message', text')
       /\ \/ Halfway(packet', off, message', at', reader', decoded')
          \/ decoded' = Nothing /\ Len(packet') < Len(text')
  BY <1>1, <1>9, <1>n, <1>o, Zenon
<1> QED BY <1>1, <1>11, <1>12, Zenon DEF LayoutInv

LEMMA NextLayout == LayoutInv /\ [Next]_vars => LayoutInv'
<1> SUFFICES ASSUME LayoutInv, [Next]_vars PROVE LayoutInv'
  OBVIOUS
<1>1. CASE Handle
  BY <1>1, Zenon DEF Handle, LayoutInv
<1>2. CASE UNCHANGED vars
  <2>1. /\ phase' = phase /\ message' = message /\ at' = at /\ writer' = writer
        /\ text' = text /\ packet' = packet /\ reader' = reader /\ decoded' = decoded
    BY <1>2, Zenon DEF vars
  <2> QED BY <2>1, Zenon DEF LayoutInv
<1> QED BY <1>1, <1>2, BeginLayout, WriteLayout, FlushLayout, ArriveLayout, ReadLayout DEF Next

LEMMA AlwaysLayout == Spec => []LayoutInv
BY InitLayout, NextLayout, PTL DEF Spec

\* Who has read to the end has read the whole packet, and the packet is whole.
LEMMA LayoutMeans == LayoutInv => RoundTrip /\ ShortRefused
<1> SUFFICES ASSUME LayoutInv, Received PROVE RoundTrip /\ ShortRefused
  BY DEF RoundTrip, ShortRefused
<1>m. PICK m : m = message
  OBVIOUS
<1>k. PICK k : k = at
  OBVIOUS
<1>n. PICK n : n = Count(m)
  OBVIOUS
<1>d. PICK d : d = decoded
  OBVIOUS
<1>f. PICK f : f = m.fields
  OBVIOUS
<1>1. phase = "read" /\ k \notin DOMAIN Format[d.struct]
  BY <1>k, <1>d, Zenon DEF Received
<1>2. /\ Composed(m) /\ text \in Bytes /\ Prefix(packet, text) /\ k \in 1 .. n + 1
      /\ \E off : /\ Layout(off, n + 1, m, text)
                  /\ \/ Halfway(packet, off, m, k, reader, d)
                     \/ d = Nothing /\ Len(packet) < Len(text)
  BY <1>1, <1>m, <1>k, <1>d, <1>n, Zenon DEF LayoutInv
<1>o. PICK off : /\ Layout(off, n + 1, m, text)
                 /\ \/ Halfway(packet, off, m, k, reader, d)
                    \/ d = Nothing /\ Len(packet) < Len(text)
  BY <1>2, Zenon
<1>3. /\ n \in Nat /\ DOMAIN Format[m.struct] = 1 .. n /\ DOMAIN f = 1 .. n
  BY <1>2, <1>f, <1>n, ComposedParts, Zenon
<1>4. Len(packet) \in Nat /\ Len(text) \in Nat /\ Len(packet) <= Len(text)
  BY <1>2, Lengths, Zenon DEF Prefix
<1>5. CASE d = Nothing /\ Len(packet) < Len(text)
  <2>1. Len(packet) # Len(text)
    BY <1>4, <1>5
  <2> QED BY <1>5, <1>d, <2>1, Zenon DEF RoundTrip, ShortRefused
<1>6. CASE Halfway(packet, off, m, k, reader, d)
  <2>1. /\ d = [struct |-> m.struct, fields |-> [i \in 1 .. k - 1 |-> f[i]]]
        /\ reader.read = off[k] /\ off[k] <= Len(packet)
    BY <1>6, <1>f, Zenon DEF Halfway
  <2>2. d.struct = m.struct
    BY <2>1
  <2>3. k = n + 1
    BY <1>1, <1>2, <1>3, <2>2
  <2>4. off[k] = Len(text)
    BY <1>o, <2>3 DEF Layout
  <2>5. Len(packet) = Len(text) /\ reader.read = Len(packet)
    BY <1>4, <2>1, <2>4
  <2>6. [i \in 1 .. k - 1 |-> f[i]] = f
    <3>1. f \in [1 .. n -> Numbers \cup Payloads]
      BY <1>2, <1>3, <1>f, Zenon DEF Composed
    <3>2. k - 1 = n
      BY <1>3, <2>3
    <3> QED BY <3>1, <3>2
  <2>7. decoded = [struct |-> message.struct, fields |-> message.fields]
    BY <1>d, <1>f, <1>m, <2>1, <2>6, Zenon
  <2>8. Cast(message.to, message.type) \in {"none", decoded.struct}
    <3>1. Cast(m.to, m.type) \in {"none", m.struct}
      BY <1>2, SentCast, Zenon DEF Composed
    <3> QED BY <1>d, <1>m, <2>2, <3>1, Zenon
  <2>9. ~(Len(packet) < Len(text))
    BY <1>4, <2>5
  <2> QED BY <2>5, <2>7, <2>8, <2>9, Zenon DEF RoundTrip, ShortRefused
<1> QED BY <1>5, <1>6, <1>o, Zenon

\* A message of any type, with numbers, strings and arrays of any content that
\* the buffers hold, is read as it was written when it arrives whole: in the
\* struct it was sent in, field by field, to its last byte, and the handler of
\* its type casts it to that struct.
THEOREM RoundTripAlways == Spec => []RoundTrip
<1>1. LayoutInv => RoundTrip
  BY LayoutMeans
<1> QED BY <1>1, AlwaysLayout, PTL

\* A message that is cut off anywhere behind its type is refused, wherever the
\* cut is in a word: what follows the packet in memory is fetched with its last
\* word, and never becomes part of a field.
THEOREM ShortAlwaysRefused == Spec => []ShortRefused
<1>1. LayoutInv => ShortRefused
  BY LayoutMeans
<1> QED BY <1>1, AlwaysLayout, PTL
=============================================================================
