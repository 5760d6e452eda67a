-------------------------- MODULE WireFields_proofs -------------------------
(***************************************************************************)
(* What a reader gets out of the bytes a writer put into the stream, for   *)
(* every base, value, string and payload.  The reader may see any          *)
(* beginning of the bytes written, with anything after them: these are the *)
(* steps by which a message is decoded field by field and a stream is cut  *)
(* into frames.                                                            *)
(***************************************************************************)
EXTENDS WireFields, SequenceTheorems, TLAPS

Digit == 0 .. Byte - 1

\* what a numeric field holds at most
Width(t) == CASE t = "u8" -> U8 [] t = "u16" -> U16 [] t = "u32" -> U32

\* the first n bytes of p followed by r
Cut(p, r, n) == SubSeq(p \o r, 1, n)

\* what reading v should give when p is its bytes: nothing while p is not
\* complete, then v, and all that came after p is left
Reads(got, v, p, r, n) ==
  got = IF n < Len(p) THEN Underflow
        ELSE [ok |-> TRUE, v |-> v, rest |-> SubSeq(r, 1, n - Len(p))]

-----------------------------------------------------------------------------
(* Arithmetic                                                              *)

\* Quotient and remainder.
LEMMA DivMod ==
  ASSUME NEW a \in Nat, NEW b \in Nat \ {0}
  PROVE  /\ a \div b \in Nat /\ (a % b) \in 0 .. b - 1
         /\ a = b * (a \div b) + (a % b)
OBVIOUS

\* There is one way to write a number with a quotient and a remainder.
LEMMA DivModUnique ==
  ASSUME NEW a \in Nat, NEW b \in Nat \ {0}, NEW q \in Nat, NEW r \in 0 .. b - 1, a = b * q + r
  PROVE  (a \div b) = q /\ (a % b) = r
OBVIOUS

\* Multiplication keeps the order.
LEMMA MulMono ==
  ASSUME NEW a \in Nat, NEW b \in Nat, NEW c \in Nat, a <= b
  PROVE  c * a <= c * b
OBVIOUS

\* The two lowest digits of a number to the base B are its remainder by B * B.
LEMMA TwoDigits ==
  ASSUME NEW B \in Nat \ {0}, NEW v \in Nat
  PROVE  ((v \div B) % B) * B + (v % B) = v % (B * B)
<1>1. PICK q \in Nat, r \in 0 .. B - 1 : v = B * q + r /\ q = (v \div B) /\ r = (v % B)
  BY DivMod
<1>2. PICK q2 \in Nat, r2 \in 0 .. B - 1 : q = B * q2 + r2 /\ r2 = (q % B)
  BY DivMod
<1>3. r2 * B + r \in 0 .. B * B - 1
  <2>1. B * r2 <= B * (B - 1)
    BY MulMono
  <2> QED BY <2>1
<1>4. v = (B * B) * q2 + (r2 * B + r)
  <2>1. v = B * (B * q2 + r2) + r
    BY <1>1, <1>2
  <2>2. B * (B * q2 + r2) = (B * B) * q2 + r2 * B
    OBVIOUS
  <2> QED BY <2>1, <2>2
<1>5. v % (B * B) = r2 * B + r
  <2>1. PICK m \in Nat \ {0} : m = B * B
    OBVIOUS
  <2>2. PICK w \in 0 .. m - 1 : w = r2 * B + r
    BY <1>3, <2>1
  <2>3. v = m * q2 + w
    BY <1>4, <2>1, <2>2
  <2>4. v % m = w
    BY <2>3, DivModUnique
  <2> QED BY <2>1, <2>2, <2>4
<1> QED BY <1>1, <1>2, <1>5

-----------------------------------------------------------------------------
(* Bytes                                                                   *)

\* An u16 and an u32 hold more than nothing.
LEMMA Widths == U8 \in Nat \ {0} /\ U16 \in Nat \ {0} /\ U32 \in Nat \ {0}
<1>1. U16 \in Nat \ {0}
  BY ByteAssumption DEF U16
<1>2. \A m \in Nat \ {0} : m * m \in Nat \ {0}
  OBVIOUS
<1> QED BY <1>1, <1>2, ByteAssumption DEF U8, U32

\* The beginning of p followed by r: once it holds all of p, p is at its front
\* and what is left is a beginning of r.
LEMMA CutParts ==
  ASSUME NEW S, NEW p \in Seq(S), NEW r \in Seq(S), NEW n \in 0 .. Len(p) + Len(r)
  PROVE  /\ Cut(p, r, n) \in Seq(S)
         /\ Len(Cut(p, r, n)) = n
         /\ n >= Len(p) =>
              /\ \A i \in 1 .. Len(p) : Cut(p, r, n)[i] = p[i]
              /\ SubSeq(Cut(p, r, n), Len(p) + 1, Len(Cut(p, r, n))) = SubSeq(r, 1, n - Len(p))
              /\ SubSeq(Cut(p, r, n), 1, Len(p)) = p
BY DEF Cut

\* b begins with p once it has n >= Len(p) bytes, and then has n - Len(p) of r
Begins(b, p, r, n) ==
  /\ Len(b) = n
  /\ n >= Len(p) =>
       /\ \A i \in 1 .. Len(p) : At(b, i) = p[i]
       /\ \A w : Got(w, b, Len(p)) = [ok |-> TRUE, v |-> w, rest |-> SubSeq(r, 1, n - Len(p))]

\* A beginning of p followed by r begins with p.
LEMMA CutBegins ==
  ASSUME NEW S, NEW p \in Seq(S), NEW r \in Seq(S), NEW n \in 0 .. Len(p) + Len(r)
  PROVE  Begins(Cut(p, r, n), p, r, n)
<1>1. PICK b : b = Cut(p, r, n)
  OBVIOUS
<1>2. /\ Len(b) = n
      /\ n >= Len(p) => /\ \A i \in 1 .. Len(p) : b[i] = p[i]
                        /\ SubSeq(b, Len(p) + 1, Len(b)) = SubSeq(r, 1, n - Len(p))
  BY <1>1, CutParts
<1>3. n >= Len(p) => \A i \in 1 .. Len(p) : At(b, i) = p[i]
  BY <1>2 DEF At
<1>4. n >= Len(p) =>
        \A w : Got(w, b, Len(p)) = [ok |-> TRUE, v |-> w, rest |-> SubSeq(r, 1, n - Len(p))]
  BY <1>2 DEF Got
<1> QED BY <1>1, <1>2, <1>3, <1>4 DEF Begins

\* Two bytes and two more.
LEMMA TwoAndTwo ==
  ASSUME NEW S, NEW p \in Seq(S), NEW q \in Seq(S), Len(p) = 2, Len(q) = 2
  PROVE  /\ p \o q \in Seq(S) /\ Len(p \o q) = 4
         /\ (p \o q)[1] = p[1] /\ (p \o q)[2] = p[2] /\ (p \o q)[3] = q[1] /\ (p \o q)[4] = q[2]
         /\ p[1] \in S /\ p[2] \in S /\ q[1] \in S /\ q[2] \in S
<1>1. PICK c : c = p \o q
  OBVIOUS
<1>2. /\ c \in Seq(S) /\ Len(c) = Len(p) + Len(q)
      /\ \A i \in 1 .. Len(p) + Len(q) : c[i] = IF i <= Len(p) THEN p[i] ELSE q[i - Len(p)]
  BY <1>1, ConcatProperties
<1>3. \A i \in 1 .. 2 : p[i] \in S /\ q[i] \in S
  BY ElementOfSeq
<1>4. 1 \in 1 .. 2 /\ 2 \in 1 .. 2 /\ 1 \in 1 .. 4 /\ 2 \in 1 .. 4 /\ 3 \in 1 .. 4 /\ 4 \in 1 .. 4
  OBVIOUS
<1>5. Len(c) = 4 /\ c[1] = p[1] /\ c[2] = p[2] /\ c[3] = q[1] /\ c[4] = q[2]
  BY <1>2
<1> QED BY <1>1, <1>2, <1>3, <1>4, <1>5

\* put_u16 writes two digits that get_u16 puts together again.
LEMMA PutU16 ==
  ASSUME NEW v \in Nat
  PROVE  /\ put_u16(v) \in Seq(Digit) /\ Len(put_u16(v)) = 2
         /\ put_u16(v)[1] * Byte + put_u16(v)[2] = v % U16
<1>1. (v \div Byte) % Byte \in Digit /\ v % Byte \in Digit
  BY DivMod, ByteAssumption DEF Digit
<1>2. ((v \div Byte) % Byte) * Byte + (v % Byte) = v % (Byte * Byte)
  BY TwoDigits, ByteAssumption
<1> QED BY <1>1, <1>2 DEF put_u16, U16

\* put_u32 writes four digits that get_u32 puts together again.
LEMMA PutU32 ==
  ASSUME NEW v \in Nat
  PROVE  /\ put_u32(v) \in Seq(Digit) /\ Len(put_u32(v)) = 4
         /\ (put_u32(v)[1] * Byte + put_u32(v)[2]) * U16 + put_u32(v)[3] * Byte + put_u32(v)[4]
              = v % U32
<1>1. PICK h \in Nat, l \in Nat : h = (v \div U16) /\ l = (v % U16)
  <2>1. v \div U16 \in Nat /\ (v % U16) \in 0 .. U16 - 1
    BY DivMod, Widths
  <2>2. (v % U16) \in Nat
    BY <2>1, Widths
  <2> QED BY <2>1, <2>2
<1>2. PICK p \in Seq(Digit), q \in Seq(Digit) : p = put_u16(h) /\ q = put_u16(l)
  BY PutU16
<1>3. /\ Len(p) = 2 /\ p[1] * Byte + p[2] = h % U16
      /\ Len(q) = 2 /\ q[1] * Byte + q[2] = l % U16
  BY <1>2, PutU16
<1>4. l % U16 = l
  <2>1. l \in 0 .. U16 - 1
    BY <1>1, DivMod, Widths
  <2> QED BY <2>1, Widths
<1>5. (h % U16) * U16 + (v % U16) = v % U32
  BY <1>1, TwoDigits, Widths DEF U32
<1>6. put_u32(v) = p \o q
  BY <1>1, <1>2 DEF put_u32
<1>7. /\ put_u32(v) \in Seq(Digit) /\ Len(put_u32(v)) = 4
      /\ put_u32(v)[1] = p[1] /\ put_u32(v)[2] = p[2]
      /\ put_u32(v)[3] = q[1] /\ put_u32(v)[4] = q[2]
  <2>1. /\ p \o q \in Seq(Digit) /\ Len(p \o q) = 4
        /\ (p \o q)[1] = p[1] /\ (p \o q)[2] = p[2] /\ (p \o q)[3] = q[1] /\ (p \o q)[4] = q[2]
    BY <1>3, TwoAndTwo
  <2> QED BY <1>6, <2>1
<1>8. p[1] \in Digit /\ p[2] \in Digit /\ q[1] \in Digit /\ q[2] \in Digit
  BY <1>3, TwoAndTwo
<1>9. (p[1] * Byte + p[2]) * U16 + q[1] * Byte + q[2]
        = (p[1] * Byte + p[2]) * U16 + (q[1] * Byte + q[2])
  <2>1. (p[1] * Byte + p[2]) * U16 \in Int /\ q[1] * Byte \in Int /\ q[2] \in Int
    <3>1. p[1] \in Int /\ p[2] \in Int /\ q[1] \in Int /\ q[2] \in Int /\ Byte \in Int /\ U16 \in Int
      BY <1>8, ByteAssumption, Widths DEF Digit
    <3>2. \A a, b, c, d \in Int : (a * b + c) * d \in Int /\ a * b \in Int
      OBVIOUS
    <3> QED BY <3>1, <3>2
  <2> QED BY <2>1
<1> QED BY <1>1, <1>3, <1>4, <1>5, <1>7, <1>9

\* A sequence of digits is a sequence over any set that has them.
LEMMA DigitsIn ==
  ASSUME NEW S, Digit \subseteq S, NEW p \in Seq(Digit)
  PROVE  p \in Seq(S)
OBVIOUS

-----------------------------------------------------------------------------
(* Fields                                                                  *)

\* get_u8 of what put_u8 wrote.
LEMMA U8Read ==
  ASSUME NEW S, Digit \subseteq S, NEW r \in Seq(S), NEW v \in Nat,
         NEW n \in 0 .. Len(put_u8(v)) + Len(r)
  PROVE  Reads(get_u8(Cut(put_u8(v), r, n)), v % U8, put_u8(v), r, n)
<1>1. PICK p : p = put_u8(v)
  OBVIOUS
<1>2. p \in Seq(S) /\ Len(p) = 1 /\ p[1] = v % U8
  <2>1. v % Byte \in S
    BY DivMod, ByteAssumption DEF Digit
  <2> QED BY <1>1, <2>1 DEF put_u8, U8
<1>3. PICK b : b = Cut(p, r, n)
  OBVIOUS
<1>4. n \in Nat /\ n \in 0 .. Len(p) + Len(r)
  BY <1>1, <1>2
<1>5. Begins(b, p, r, n)
  BY <1>2, <1>3, <1>4, CutBegins
<1>6. CASE n < 1
  BY <1>1, <1>2, <1>3, <1>5, <1>6 DEF get_u8, Reads, Begins
<1>7. CASE n >= 1
  <2>1. At(b, 1) = p[1]
    BY <1>2, <1>5, <1>7 DEF Begins
  <2>2. get_u8(b) = Got(v % U8, b, 1)
    BY <1>2, <1>4, <1>5, <1>7, <2>1 DEF get_u8, Begins
  <2>3. get_u8(b) = [ok |-> TRUE, v |-> v % U8, rest |-> SubSeq(r, 1, n - Len(p))]
    BY <1>2, <1>5, <1>7, <2>2 DEF Begins
  <2>4. ~(n < Len(p))
    BY <1>2, <1>4, <1>7
  <2> QED BY <1>1, <1>3, <2>3, <2>4 DEF Reads
<1> QED BY <1>4, <1>6, <1>7

\* get_u16 of what put_u16 wrote.
LEMMA U16Read ==
  ASSUME NEW S, Digit \subseteq S, NEW r \in Seq(S), NEW v \in Nat,
         NEW n \in 0 .. Len(put_u16(v)) + Len(r)
  PROVE  Reads(get_u16(Cut(put_u16(v), r, n)), v % U16, put_u16(v), r, n)
<1>1. PICK p : p = put_u16(v)
  OBVIOUS
<1>2. p \in Seq(S) /\ Len(p) = 2 /\ p[1] * Byte + p[2] = v % U16
  BY <1>1, PutU16, DigitsIn
<1>3. PICK b : b = Cut(p, r, n)
  OBVIOUS
<1>4. n \in Nat /\ n \in 0 .. Len(p) + Len(r)
  BY <1>1, <1>2
<1>5. Begins(b, p, r, n)
  BY <1>2, <1>3, <1>4, CutBegins
<1>6. CASE n < 2
  BY <1>1, <1>2, <1>3, <1>5, <1>6 DEF get_u16, Reads, Begins
<1>7. CASE n >= 2
  <2>1. At(b, 1) = p[1] /\ At(b, 2) = p[2]
    BY <1>2, <1>5, <1>7 DEF Begins
  <2>2. get_u16(b) = Got(v % U16, b, 2)
    BY <1>2, <1>4, <1>5, <1>7, <2>1 DEF get_u16, Begins
  <2>3. get_u16(b) = [ok |-> TRUE, v |-> v % U16, rest |-> SubSeq(r, 1, n - Len(p))]
    BY <1>2, <1>5, <1>7, <2>2 DEF Begins
  <2>4. ~(n < Len(p))
    BY <1>2, <1>4, <1>7
  <2> QED BY <1>1, <1>3, <2>3, <2>4 DEF Reads
<1> QED BY <1>4, <1>6, <1>7

\* get_u32 of what put_u32 wrote.
LEMMA U32Read ==
  ASSUME NEW S, Digit \subseteq S, NEW r \in Seq(S), NEW v \in Nat,
         NEW n \in 0 .. Len(put_u32(v)) + Len(r)
  PROVE  Reads(get_u32(Cut(put_u32(v), r, n)), v % U32, put_u32(v), r, n)
<1>1. PICK p : p = put_u32(v)
  OBVIOUS
<1>2. p \in Seq(S) /\ Len(p) = 4 /\ (p[1] * Byte + p[2]) * U16 + p[3] * Byte + p[4] = v % U32
  BY <1>1, PutU32, DigitsIn
<1>3. PICK b : b = Cut(p, r, n)
  OBVIOUS
<1>4. n \in Nat /\ n \in 0 .. Len(p) + Len(r)
  BY <1>1, <1>2
<1>5. Begins(b, p, r, n)
  BY <1>2, <1>3, <1>4, CutBegins
<1>6. CASE n < 4
  BY <1>1, <1>2, <1>3, <1>5, <1>6 DEF get_u32, Reads, Begins
<1>7. CASE n >= 4
  <2>1. At(b, 1) = p[1] /\ At(b, 2) = p[2] /\ At(b, 3) = p[3] /\ At(b, 4) = p[4]
    BY <1>2, <1>5, <1>7 DEF Begins
  <2>2. get_u32(b) = Got(v % U32, b, 4)
    BY <1>2, <1>4, <1>5, <1>7, <2>1 DEF get_u32, Begins
  <2>3. get_u32(b) = [ok |-> TRUE, v |-> v % U32, rest |-> SubSeq(r, 1, n - Len(p))]
    BY <1>2, <1>5, <1>7, <2>2 DEF Begins
  <2>4. ~(n < Len(p))
    BY <1>2, <1>4, <1>7
  <2> QED BY <1>1, <1>3, <2>3, <2>4 DEF Reads
<1> QED BY <1>4, <1>6, <1>7

\* A length h and then a body s, before r: as h before s and r.
LEMMA CutNested ==
  ASSUME NEW S, NEW h \in Seq(S), NEW s \in Seq(S), NEW r \in Seq(S), NEW n
  PROVE  Cut(h \o s, r, n) = Cut(h, s \o r, n)
<1>1. (h \o s) \o r = h \o (s \o r)
  BY ConcatAssociative
<1> QED BY <1>1 DEF Cut

\* A remainder of a number that is small enough.
LEMMA InRange ==
  ASSUME NEW m \in Nat \ {0}, NEW k \in Nat, k < m
  PROVE  k % m = k
OBVIOUS

\* What is behind a length: once it is complete it is the body, and all that
\* came after it is left.
LEMMA BodyRead ==
  ASSUME NEW S, NEW s \in Seq(S), NEW r \in Seq(S), NEW m \in 0 .. Len(s) + Len(r)
  PROVE  /\ Len(Cut(s, r, m)) = m
         /\ m >= Len(s) =>
              Got(SubSeq(Cut(s, r, m), 1, Len(s)), Cut(s, r, m), Len(s))
                = [ok |-> TRUE, v |-> s, rest |-> SubSeq(r, 1, m - Len(s))]
<1>1. PICK b : b = Cut(s, r, m)
  OBVIOUS
<1>2. Begins(b, s, r, m)
  BY <1>1, CutBegins
<1>3. m >= Len(s) => SubSeq(b, 1, Len(s)) = s
  BY <1>1, CutParts
<1> QED BY <1>1, <1>2, <1>3 DEF Begins

\* get_str of what put_str wrote.
LEMMA StrRead ==
  ASSUME NEW S, Digit \subseteq S, NEW r \in Seq(S), NEW s \in Seq(S), Len(s) < U16,
         NEW n \in 0 .. Len(put_str(s)) + Len(r)
  PROVE  Reads(get_str(Cut(put_str(s), r, n)), s, put_str(s), r, n)
<1>1. PICK h : h = put_u16(Len(s))
  OBVIOUS
<1>2. h \in Seq(S) /\ Len(h) = 2 /\ put_str(s) = h \o s /\ Len(put_str(s)) = 2 + Len(s)
  <2>1. h \in Seq(S) /\ Len(h) = 2
    BY <1>1, PutU16, DigitsIn
  <2>2. Len(h \o s) = Len(h) + Len(s)
    BY <2>1, ConcatProperties
  <2> QED BY <1>1, <2>1, <2>2 DEF put_str
<1>3. PICK t \in Seq(S) : t = s \o r /\ Len(t) = Len(s) + Len(r)
  BY ConcatProperties
<1>4. PICK b : b = Cut(put_str(s), r, n)
  OBVIOUS
<1>5. b = Cut(h, t, n)
  BY <1>2, <1>3, <1>4, CutNested
<1>6. n \in Nat /\ n \in 0 .. Len(h) + Len(t)
  BY <1>2, <1>3
<1>7. Reads(get_u16(b), Len(s), h, t, n)
  <2>1. Len(s) % U16 = Len(s)
    BY InRange, Widths
  <2>2. Reads(get_u16(Cut(h, t, n)), Len(s) % U16, h, t, n)
    BY <1>1, <1>6, U16Read
  <2> QED BY <1>5, <2>1, <2>2
<1>8. CASE n < 2
  <2>1. get_u16(b) = Underflow
    BY <1>2, <1>7, <1>8 DEF Reads
  <2>2. get_str(b) = Underflow
    BY <2>1 DEF get_str, Underflow
  <2>3. n < Len(put_str(s))
    BY <1>2, <1>6, <1>8
  <2> QED BY <1>4, <2>2, <2>3 DEF Reads
<1>9. CASE n >= 2
  <2>1. PICK m \in 0 .. Len(s) + Len(r) : m = n - 2
    BY <1>2, <1>3, <1>6, <1>9
  <2>2. PICK c : c = Cut(s, r, m)
    OBVIOUS
  <2>3. get_u16(b) = [ok |-> TRUE, v |-> Len(s), rest |-> c]
    BY <1>2, <1>3, <1>6, <1>7, <1>9, <2>1, <2>2 DEF Reads, Cut
  <2>4. /\ Len(c) = m
        /\ m >= Len(s) => Got(SubSeq(c, 1, Len(s)), c, Len(s))
                            = [ok |-> TRUE, v |-> s, rest |-> SubSeq(r, 1, m - Len(s))]
    BY <2>2, BodyRead
  <2>5. get_str(b) = IF Len(c) < Len(s) THEN Underflow
                     ELSE Got(SubSeq(c, 1, Len(s)), c, Len(s))
    BY <2>3 DEF get_str
  <2>6. m - Len(s) = n - Len(put_str(s)) /\ (n < Len(put_str(s)) <=> m < Len(s))
        /\ m \in Nat /\ Len(s) \in Nat
    BY <1>2, <1>6, <2>1
  <2>7. CASE m < Len(s)
    BY <1>4, <2>4, <2>5, <2>6, <2>7 DEF Reads
  <2>8. CASE m >= Len(s)
    <3>1. get_str(b) = [ok |-> TRUE, v |-> s, rest |-> SubSeq(r, 1, n - Len(put_str(s)))]
      <4>1. ~(Len(c) < Len(s))
        BY <2>4, <2>6, <2>8
      <4>2. get_str(b) = [ok |-> TRUE, v |-> s, rest |-> SubSeq(r, 1, m - Len(s))]
        BY <2>4, <2>5, <2>8, <4>1
      <4> QED BY <2>6, <4>2
    <3>2. ~(n < Len(put_str(s)))
      BY <2>6, <2>8
    <3> QED BY <1>4, <3>1, <3>2 DEF Reads
  <2> QED BY <2>6, <2>7, <2>8
<1> QED BY <1>6, <1>8, <1>9

-----------------------------------------------------------------------------
(* Theorems                                                                *)

\* Every number written by put_u8, put_u16 or put_u32 is read back, reduced to
\* the field's width, by the get_ of its type, which leaves what follows it and
\* throws on anything shorter (p+n>e).
THEOREM NumberReadBack ==
  ASSUME NEW S, Digit \subseteq S, NEW r \in Seq(S), NEW t \in {"u8", "u16", "u32"}, NEW v \in Nat,
         NEW n \in 0 .. Len(PutScalar(t, v)) + Len(r)
  PROVE  Reads(GetScalar(t, Cut(PutScalar(t, v), r, n)), v % Width(t), PutScalar(t, v), r, n)
<1>1. CASE t = "u8"
  <2>1. PutScalar(t, v) = put_u8(v) /\ Width(t) = U8 /\ \A b : GetScalar(t, b) = get_u8(b)
    BY <1>1 DEF PutScalar, GetScalar, Width
  <2> QED BY <2>1, U8Read
<1>2. CASE t = "u16"
  <2>1. PutScalar(t, v) = put_u16(v) /\ Width(t) = U16 /\ \A b : GetScalar(t, b) = get_u16(b)
    BY <1>2 DEF PutScalar, GetScalar, Width
  <2> QED BY <2>1, U16Read
<1>3. CASE t = "u32"
  <2>1. PutScalar(t, v) = put_u32(v) /\ Width(t) = U32 /\ \A b : GetScalar(t, b) = get_u32(b)
    BY <1>3 DEF PutScalar, GetScalar, Width
  <2> QED BY <2>1, U32Read
<1> QED BY <1>1, <1>2, <1>3

\* The same for a string that put_str does not refuse (s.size() > 65535).
THEOREM StringReadBack ==
  ASSUME NEW S, Digit \subseteq S, NEW r \in Seq(S), NEW s \in Seq(S), Len(s) < U16,
         NEW n \in 0 .. Len(PutScalar("str", s)) + Len(r)
  PROVE  Reads(GetScalar("str", Cut(PutScalar("str", s), r, n)), s, PutScalar("str", s), r, n)
<1>1. PutScalar("str", s) = put_str(s) /\ \A b : GetScalar("str", b) = get_str(b)
  BY DEF PutScalar, GetScalar
<1> QED BY <1>1, StrRead

\* f is k = 1 + Len(payload) in four bytes h and then the body
Framed(S, payload, f, h, k, body) ==
  /\ k \in Nat /\ k = 1 + Len(payload)
  /\ h \in Seq(S) /\ h = put_u32(k) /\ Len(h) = 4
  /\ body \in Seq(S) /\ Len(body) = k
  /\ f = h \o body /\ Len(f) = 4 + k

\* A frame is its length and its body, the type and the payload.
LEMMA FrameParts ==
  ASSUME NEW S, Digit \subseteq S, NEW type \in S, NEW payload \in Seq(S)
  PROVE  Framed(S, payload, Frame(type, payload), put_u32(1 + Len(payload)), 1 + Len(payload),
                <<type>> \o payload)
<1>1. PICK h \in Seq(S) : h = put_u32(1 + Len(payload)) /\ Len(h) = 4
  <2>1. 1 + Len(payload) \in Nat
    OBVIOUS
  <2> QED BY <2>1, PutU32, DigitsIn
<1>2. PICK t \in Seq(S) : t = <<type>> /\ Len(t) = 1
  <2>1. <<type>> \in Seq(S) /\ Len(<<type>>) = 1
    OBVIOUS
  <2> QED BY <2>1
<1>3. PICK c \in Seq(S) : c = t \o payload /\ Len(c) = Len(t) + Len(payload)
  BY ConcatProperties
<1>4. (h \o t) \o payload = h \o c
  <2>1. (h \o t) \o payload = h \o (t \o payload)
    BY ConcatAssociative
  <2> QED BY <1>3, <2>1, Zenon
<1>5. PICK f : f = h \o c /\ Len(f) = Len(h) + Len(c)
  BY ConcatProperties
<1>6. Frame(type, payload) = f
  BY <1>1, <1>2, <1>4, <1>5 DEF Frame
<1>7. Len(c) = 1 + Len(payload) /\ Len(f) = 4 + (1 + Len(payload)) /\ 1 + Len(payload) \in Nat
  <2>1. PICK k \in Nat : k = Len(payload)
    OBVIOUS
  <2>2. Len(t) = 1 /\ Len(h) = 4 /\ Len(c) = Len(t) + k /\ Len(f) = Len(h) + Len(c)
    BY <1>1, <1>2, <1>3, <1>5, <2>1
  <2>3. Len(c) = 1 + k /\ Len(f) = 4 + (1 + k) /\ 1 + k \in Nat
    BY <2>2
  <2> QED BY <2>1, <2>3
<1> QED BY <1>1, <1>2, <1>3, <1>5, <1>6, <1>7 DEF Framed

\* A reader takes a frame out of the stream exactly when it is complete, gives its
\* type and payload and leaves the bytes behind it; read_frame whatever the length
\* is, read_header and read_body when it is within their limit, and a body over the
\* limit never.  The length must fit its field: write_frame casts 1 + payload.size()
\* to uint32_t.
THEOREM FrameReadBack ==
  ASSUME NEW S, Digit \subseteq S, NEW r \in Seq(S), NEW type \in S, NEW payload \in Seq(S),
         NEW max \in Nat, 1 + Len(payload) < U32,
         NEW n \in 0 .. Len(Frame(type, payload)) + Len(r)
  PROVE  /\ Reads(ReadFrame(Cut(Frame(type, payload), r, n)), <<type>> \o payload,
                  Frame(type, payload), r, n)
         /\ IF 1 + Len(payload) <= max
            THEN Reads(ReadFrameUpTo(Cut(Frame(type, payload), r, n), max), <<type>> \o payload,
                       Frame(type, payload), r, n)
            ELSE ReadFrameUpTo(Cut(Frame(type, payload), r, n), max) = Underflow
<1>1. PICK f, h, k, body :
        /\ f = Frame(type, payload) /\ body = <<type>> \o payload
        /\ Framed(S, payload, f, h, k, body)
  BY FrameParts
<1>2. h \in Seq(S) /\ body \in Seq(S) /\ k \in Nat
  BY <1>1 DEF Framed
<1>3. k = 1 + Len(payload) /\ k < U32 /\ k >= 1
  BY <1>1 DEF Framed
<1>4. f = Frame(type, payload) /\ h = put_u32(k)
  BY <1>1 DEF Framed
<1>5. Len(body) = k /\ Len(h) = 4 /\ f = h \o body /\ Len(f) = 4 + k
  BY <1>1 DEF Framed
<1>6. PICK t \in Seq(S) : t = body \o r /\ Len(t) = Len(body) + Len(r)
  BY <1>2, ConcatProperties
<1>7. PICK b : b = Cut(f, r, n)
  OBVIOUS
<1>8. b = Cut(h, t, n)
  BY <1>2, <1>5, <1>6, <1>7, CutNested
<1>9. n \in Nat /\ n \in 0 .. Len(h) + Len(t)
  BY <1>2, <1>4, <1>5, <1>6
<1> SUFFICES /\ Reads(ReadFrame(b), body, f, r, n)
             /\ k <= max => Reads(ReadFrameUpTo(b, max), body, f, r, n)
             /\ k > max => ReadFrameUpTo(b, max) = Underflow
  <2>1. k <= max \/ k > max
    BY <1>2
  <2> QED BY <1>1, <1>2, <1>3, <1>7, <2>1
<1>10. Reads(get_u32(b), k, h, t, n)
  <2>1. k % U32 = k
    BY <1>2, <1>3, InRange, Widths
  <2>2. Reads(get_u32(Cut(h, t, n)), k % U32, h, t, n)
    BY <1>2, <1>4, <1>9, U32Read
  <2> QED BY <1>8, <2>1, <2>2
<1>11. CASE n < 4
  <2>1. get_u32(b) = Underflow
    BY <1>5, <1>10, <1>11 DEF Reads
  <2>2. ReadFrame(b) = Underflow /\ ReadFrameUpTo(b, max) = Underflow
    BY <2>1 DEF ReadFrame, ReadFrameUpTo, Underflow
  <2>3. n < Len(f)
    BY <1>2, <1>5, <1>9, <1>11
  <2> QED BY <2>2, <2>3 DEF Reads
<1>12. CASE n >= 4
  <2>1. PICK m \in 0 .. Len(body) + Len(r) : m = n - 4
    BY <1>2, <1>5, <1>6, <1>9, <1>12
  <2>2. PICK c : c = Cut(body, r, m)
    OBVIOUS
  <2>3. get_u32(b) = [ok |-> TRUE, v |-> k, rest |-> c]
    BY <1>5, <1>6, <1>9, <1>10, <1>12, <2>1, <2>2 DEF Reads, Cut
  <2>4. /\ Len(c) = m
        /\ m >= Len(body) => Got(SubSeq(c, 1, Len(body)), c, Len(body))
                               = [ok |-> TRUE, v |-> body, rest |-> SubSeq(r, 1, m - Len(body))]
    BY <1>2, <2>2, BodyRead
  <2>5. ReadFrame(b) = IF Len(c) < k THEN Underflow ELSE Got(SubSeq(c, 1, k), c, k)
    BY <2>3 DEF ReadFrame
  <2>6. Reads(ReadFrame(b), body, f, r, n)
    <3>1. m - k = n - Len(f) /\ (n < Len(f) <=> m < k) /\ m \in Nat
      BY <1>2, <1>5, <1>9, <2>1
    <3>2. CASE m < k
      BY <2>4, <2>5, <3>1, <3>2 DEF Reads
    <3>3. CASE m >= k
      <4>1. ~(Len(c) < k)
        BY <1>2, <2>4, <3>1, <3>3
      <4>2. ReadFrame(b) = [ok |-> TRUE, v |-> body, rest |-> SubSeq(r, 1, m - k)]
        BY <1>5, <2>4, <2>5, <3>3, <4>1
      <4>3. ~(n < Len(f))
        BY <1>2, <3>1, <3>3
      <4> QED BY <3>1, <4>2, <4>3 DEF Reads
    <3> QED BY <1>2, <3>1, <3>2, <3>3
  <2>7. ReadFrameUpTo(b, max) = IF k < 1 \/ k > max THEN Underflow ELSE ReadFrame(b)
    BY <2>3 DEF ReadFrameUpTo
  <2>8. ~(k < 1) /\ (k <= max <=> ~(k > max))
    BY <1>2, <1>3
  <2> QED BY <2>6, <2>7, <2>8
<1> QED BY <1>9, <1>11, <1>12
=============================================================================
