------------------------------ MODULE CdrBufferProofs --------------------------
(***************************************************************************)
(* What the converter serializes is read back, field by field, by a reader *)
(* that follows CDR: for groups of any length, strings of any length and   *)
(* any values that fit the fields.                                         *)
(***************************************************************************)
EXTENDS CdrBuffer, FrameLemmas, SequenceTheorems

(* What holds of 0 and carries over from one number to the next.           *)
LEMMA UpTo ==
  ASSUME NEW n \in Nat, NEW S, 0 \in S, \A i \in 1 .. n : i - 1 \in S => i \in S
  PROVE  \A i \in 0 .. n : i \in S
<1> DEFINE bad == {i \in 0 .. n : i \notin S}
<1> SUFFICES ASSUME bad # {} PROVE FALSE
  OBVIOUS
<1>0. bad \subseteq Nat
  OBVIOUS
<1>1. PICK x \in bad : \A y \in bad : x <= y
  <2> HIDE DEF bad
  <2> QED
    BY <1>0, LeastExists
<1>2. x \in 1 .. n /\ x - 1 \in 0 .. n
  BY <1>1
<1>3. x - 1 \in S
  BY <1>1, <1>2
<1> QED
  BY <1>1, <1>2, <1>3

(* What the passes of a loop make of x, the first m of them.               *)
IsRun(f, x, step, m) == f[0] = x /\ \A k \in 1 .. m : f[k] = step[k][f[k - 1]]

(* A loop of n passes runs.                                                *)
LEMMA LoopRuns ==
  ASSUME NEW n \in Nat, NEW T, NEW x \in T, NEW step \in [1 .. n -> [T -> T]]
  PROVE  \E f \in [0 .. n -> T] : IsRun(f, x, step, n)
<1> USE DEF IsRun
<1> DEFINE Run(f, m) == IsRun(f, x, step, m)
           S == {m \in 0 .. n : \E f \in [0 .. m -> T] : Run(f, m)}
<1>1. 0 \in S
  <2>1. [k \in 0 .. 0 |-> x] \in [0 .. 0 -> T] /\ Run([k \in 0 .. 0 |-> x], 0)
    OBVIOUS
  <2> HIDE DEF Run
  <2>2. 0 \in 0 .. n
    OBVIOUS
  <2> QED
    BY <2>1, <2>2
<1>2. ASSUME NEW i \in 1 .. n, i - 1 \in S PROVE i \in S
  <2>1. PICK f \in [0 .. i - 1 -> T] : Run(f, i - 1)
    BY <1>2
  <2> DEFINE g == [k \in 0 .. i |-> IF k = i THEN step[i][f[i - 1]] ELSE f[k]]
  <2>2. g \in [0 .. i -> T]
    <3>1. f[i - 1] \in T /\ step[i] \in [T -> T]
      OBVIOUS
    <3>2. \A k \in 0 .. i : k = i \/ k \in 0 .. i - 1
      OBVIOUS
    <3> QED
      BY <3>1, <3>2
  <2>3. Run(g, i)
    <3>1. g[0] = x
      BY <2>1
    <3>2. ASSUME NEW k \in 1 .. i PROVE g[k] = step[k][g[k - 1]]
      <4>1. k - 1 \in 0 .. i /\ k - 1 # i /\ g[k - 1] = f[k - 1]
        OBVIOUS
      <4>2. CASE k = i
        BY <4>1, <4>2
      <4>3. CASE k # i
        <5>1. k \in 1 .. i - 1 /\ g[k] = f[k]
          BY <4>3
        <5> QED
          BY <2>1, <4>1, <5>1
      <4> QED
        BY <4>2, <4>3
    <3> QED
      BY <3>1, <3>2
  <2> HIDE DEF Run, g
  <2> QED
    BY <2>2, <2>3
<1> HIDE DEF S
<1>3. \A i \in 0 .. n : i \in S
  BY <1>1, <1>2, UpTo
<1>4. n \in S
  BY <1>3
<1> QED
  BY <1>4 DEF S

--------------------------------------------------------------------------------
Buffer == Seq(Nat)

(* A buffer that begins with what data has.                                *)
Extends(out, data) ==
    /\ out \in Buffer /\ Len(data) <= Len(out)
    /\ \A i \in 1 .. Len(data) : out[i] = data[i]

(* What a buffer begins with, one that begins with it does too.            *)
LEMMA ExtendsTransitive ==
  ASSUME NEW a \in Buffer, NEW b, NEW c, Extends(b, a), Extends(c, b)
  PROVE  Extends(c, a)
  BY DEF Extends, Buffer

(* Bytes are added at the end of a buffer.                                 *)
LEMMA ConcatExtends ==
  ASSUME NEW a \in Buffer, NEW b \in Buffer
  PROVE  /\ a \o b \in Buffer /\ Extends(a \o b, a)
         /\ Len(a \o b) = Len(a) + Len(b)
         /\ \A i \in 1 .. Len(b) : (a \o b)[Len(a) + i] = b[i]
  BY ConcatProperties DEF Extends, Buffer

(* The bytes of a body are those of the buffer behind the header.          *)
LEMMA BodyBytes ==
  ASSUME NEW out \in Buffer, 4 <= Len(out)
  PROVE  /\ Body(out) \in Buffer /\ Len(Body(out)) = Len(out) - 4
         /\ \A i \in 0 .. Len(out) - 5 : ByteAt(Body(out), i) = out[i + 5]
<1>1. Len(Header) = 4
  BY DEF Header
<1>2. \A i \in 5 .. Len(out) : out[i] \in Nat
  BY DEF Buffer
<1>3. /\ SubSeq(out, 5, Len(out)) \in Seq(Nat)
      /\ Len(SubSeq(out, 5, Len(out))) = IF 5 <= Len(out) THEN Len(out) - 5 + 1 ELSE 0
      /\ \A i \in 1 .. Len(out) - 5 + 1 : SubSeq(out, 5, Len(out))[i] = out[5 + i - 1]
  BY <1>2, SubSeqProperties DEF Buffer
<1>4. Body(out) = SubSeq(out, 5, Len(out))
  BY <1>1 DEF Body
<1>5. Len(out) \in Nat
  BY DEF Buffer
<1>6. DOMAIN Body(out) = 1 .. Len(out) - 4 /\ Len(Body(out)) = Len(out) - 4
  <2> DEFINE b == SubSeq(out, 5, Len(out))
  <2>0. /\ b \in Seq(Nat)
        /\ 5 <= Len(out) => Len(b) = Len(out) - 5 + 1
        /\ ~(5 <= Len(out)) => Len(b) = 0
    BY <1>3
  <2> HIDE DEF b
  <2>1. b \in Seq(Nat) /\ Len(b) = Len(out) - 4
    BY <1>5, <2>0
  <2>2. DOMAIN b = 1 .. Len(b)
    BY <2>1
  <2> QED
    BY <1>4, <2>1, <2>2 DEF b
<1>7. ASSUME NEW i \in 0 .. Len(out) - 5 PROVE ByteAt(Body(out), i) = out[i + 5]
  <2>1. i + 1 \in 1 .. Len(out) - 4 /\ 5 + (i + 1) - 1 = i + 5
    BY <1>5
  <2> QED
    BY <1>3, <1>4, <1>6, <2>1 DEF ByteAt
<1> QED
  BY <1>3, <1>4, <1>6, <1>7 DEF Buffer

--------------------------------------------------------------------------------
(* Quotient and remainder.                                                 *)
LEMMA Digits ==
  ASSUME NEW v \in Nat, NEW b \in Nat \ {0}
  PROVE  /\ v % b \in 0 .. b - 1 /\ v \div b \in Nat
         /\ v = (v % b) + b * (v \div b)
  OBVIOUS

(* The quotient of a number with one digit more has one digit less.        *)
LEMMA Quotient ==
  ASSUME NEW b \in Nat \ {0}, NEW c \in Nat, NEW v \in Nat, v < b * c
  PROVE  v \div b < c
<1> DEFINE q == v \div b
<1>1. q \in Nat /\ b * q <= v
  BY Digits
<1> HIDE DEF q
<1> SUFFICES ASSUME c <= q PROVE FALSE
  BY <1>1 DEF q
<1>2. PICK d \in Nat : q = c + d
  <2>1. q - c \in Nat /\ q = c + (q - c)
    BY <1>1
  <2> QED
    BY <2>1
<1>3. b * q = b * c + b * d /\ b * d >= 0
  BY <1>2
<1> QED
  BY <1>1, <1>3

(* The values of a byte, of two and of four.                               *)
LEMMA Ranges == Base \in Nat \ {0, 1} /\ UInt16 \in Nat \ {0} /\ UInt32 \in Nat \ {0} /\ UInt16 <= UInt32
<1>1. Base \in Nat \ {0, 1}
  BY BufferAssumption
<1>2. UInt16 \in Nat \ {0}
  BY <1>1 DEF UInt16
<1>3. UInt32 = UInt16 + UInt16 * (UInt16 - 1) /\ UInt16 * (UInt16 - 1) >= 0
  BY <1>2 DEF UInt32
<1> QED
  BY <1>1, <1>2, <1>3

(* Two bytes are a number below 2^16, four below 2^32.                     *)
LEMMA TwoBytes ==
  ASSUME NEW v \in Nat
  PROVE  /\ Two(v) \in Buffer /\ Len(Two(v)) = 2
         /\ v = Two(v)[1] + Base * Two(v)[2] + UInt16 * ((v \div Base) \div Base)
         /\ (v \div Base) \div Base \in Nat
         /\ v < UInt16 => v = Two(v)[1] + Base * Two(v)[2]
<1> DEFINE q == v \div Base
           r == q \div Base
           lo == v % Base
           hi == q % Base
<1>0. Base \in Nat \ {0}
  BY Ranges
<1>1. /\ lo \in Nat /\ q \in Nat /\ v = lo + Base * q
      /\ hi \in Nat /\ r \in Nat /\ q = hi + Base * r
  <2>1. lo \in Nat /\ q \in Nat /\ v = lo + Base * q
    BY <1>0, Digits
  <2> HIDE DEF q
  <2>2. q \in Nat
    BY <2>1
  <2>3. (q % Base) \in 0 .. Base - 1 /\ (q \div Base) \in Nat /\ q = (q % Base) + Base * (q \div Base)
    BY <1>0, <2>2, Digits
  <2> QED
    BY <1>0, <2>1, <2>3
<1>2. v < UInt16 => r = 0
  <2> SUFFICES ASSUME v < UInt16 PROVE r = 0
    OBVIOUS
  <2>1. q < Base
    BY Quotient, Ranges DEF UInt16
  <2>2. q < Base * 1
    BY <2>1, Ranges
  <2> HIDE DEF q
  <2>3. r < 1
    BY <1>1, <2>2, Quotient, Ranges
  <2> QED
    BY <1>1, <2>3
<1>3. Two(v) = <<lo, hi>>
  BY DEF Two
<1> HIDE DEF q, r, lo, hi
<1>4. v = lo + Base * hi + UInt16 * r
  <2>1. Base * q = Base * hi + Base * (Base * r)
    BY <1>1, Ranges
  <2>2. Base * (Base * r) = (Base * Base) * r
    BY <1>1, Ranges
  <2>3. Base * q = Base * hi + UInt16 * r /\ UInt16 * r \in Nat /\ Base * hi \in Nat
    BY <1>0, <1>1, <2>1, <2>2 DEF UInt16
  <2> QED
    BY <1>1, <2>3
<1>5. v < UInt16 => v = lo + Base * hi
  BY <1>2, <1>4, <1>1, Ranges
<1> QED
  BY <1>1, <1>3, <1>4, <1>5 DEF Buffer, q, r

--------------------------------------------------------------------------------
(* Where a buffer is aligned to, counted from the end of the header, is     *)
(* where the reader begins.                                                *)
LEMMA BeginType ==
  ASSUME NEW at \in Nat, NEW n \in {2, 4}
  PROVE  Begin(at, n) \in Nat /\ Begin(at, n) >= at
<1>1. CASE n = 2
  BY <1>1 DEF Begin
<1>2. CASE n = 4
  BY <1>2 DEF Begin
<1> QED
  BY <1>1, <1>2

(* align leaves what is in the buffer, and the next value begins where the *)
(* reader looks for it.                                                    *)
LEMMA AlignType ==
  ASSUME NEW data \in Buffer, 4 <= Len(data), NEW n \in {2, 4}
  PROVE  /\ align(data, n) \in Buffer /\ Extends(align(data, n), data)
         /\ Len(align(data, n)) = 4 + Begin(Len(data) - 4, n)
<1> DEFINE r == Len(data) % n
           zeros == [k \in 1 .. n - r |-> 0]
<1>1. Len(data) \in Nat /\ r \in 0 .. n - 1
  BY DEF Buffer
<1>2. r = 0 => Len(data) = 4 + Begin(Len(data) - 4, n)
  <2>1. CASE n = 2
    BY <1>1, <2>1 DEF Begin
  <2>2. CASE n = 4
    BY <1>1, <2>2 DEF Begin
  <2> QED
    BY <2>1, <2>2
<1>3. Len(data) + (n - r) = 4 + Begin(Len(data) - 4, n) \/ r = 0
  <2>1. CASE n = 2
    BY <1>1, <2>1 DEF Begin
  <2>2. CASE n = 4
    BY <1>1, <2>2 DEF Begin
  <2> QED
    BY <2>1, <2>2
<1>4. CASE r = 0
  BY <1>2, <1>4 DEF align, Extends, Buffer
<1>5. CASE r # 0
  <2>1. zeros \in Buffer /\ Len(zeros) = n - r
    BY <1>1 DEF Buffer
  <2>2. align(data, n) = data \o zeros
    BY <1>5 DEF align
  <2> HIDE DEF zeros, r
  <2> QED
    BY <1>1, <1>3, <1>5, <2>1, <2>2, ConcatExtends
<1> QED
  BY <1>4, <1>5

(* A pair of bytes is read where it was written.                           *)
LEMMA PairRead ==
  ASSUME NEW data \in Buffer, 4 <= Len(data), NEW v \in Nat, NEW out, Extends(out, data \o Two(v))
  PROVE  Pair(Body(out), Len(data) - 4) = Two(v)[1] + Base * Two(v)[2]
<1>1. Two(v) \in Buffer /\ Len(Two(v)) = 2
  BY TwoBytes
<1>2. /\ Len(data \o Two(v)) = Len(data) + 2
      /\ (data \o Two(v))[Len(data) + 1] = Two(v)[1]
      /\ (data \o Two(v))[Len(data) + 2] = Two(v)[2]
  <2> DEFINE t == Two(v)
  <2>1. t \in Buffer /\ Len(t) = 2
    BY <1>1
  <2> HIDE DEF t
  <2>2. Len(data \o t) = Len(data) + Len(t) /\ \A i \in 1 .. Len(t) : (data \o t)[Len(data) + i] = t[i]
    BY <2>1, ConcatExtends
  <2>3. 1 \in 1 .. Len(t) /\ 2 \in 1 .. Len(t)
    BY <2>1
  <2> QED
    BY <2>1, <2>2, <2>3 DEF t
<1>3. Len(data) \in Nat /\ Len(out) \in Nat
  BY DEF Buffer, Extends
<1>4. /\ out \in Buffer /\ Len(data) + 2 <= Len(out)
      /\ out[Len(data) + 1] = Two(v)[1] /\ out[Len(data) + 2] = Two(v)[2]
  BY <1>2, <1>3 DEF Extends
<1>5. \A i \in 0 .. Len(out) - 5 : ByteAt(Body(out), i) = out[i + 5]
  BY <1>3, <1>4, BodyBytes
<1>6. /\ ByteAt(Body(out), Len(data) - 4) = out[Len(data) + 1]
      /\ ByteAt(Body(out), Len(data) - 4 + 1) = out[Len(data) + 2]
  <2>1. /\ Len(data) - 4 \in 0 .. Len(out) - 5 /\ Len(data) - 4 + 5 = Len(data) + 1
        /\ Len(data) - 4 + 1 \in 0 .. Len(out) - 5 /\ Len(data) - 4 + 1 + 5 = Len(data) + 2
    BY <1>3, <1>4
  <2>2. /\ ByteAt(Body(out), Len(data) - 4) = out[Len(data) - 4 + 5]
        /\ ByteAt(Body(out), Len(data) - 4 + 1) = out[Len(data) - 4 + 1 + 5]
    BY <1>5, <2>1
  <2> QED
    BY <2>1, <2>2
<1> QED
  BY <1>4, <1>6 DEF Pair

(* What it means that a value of a type was written to data, giving w: it   *)
(* is read back at the end of data, from w and from all that extends w.    *)
Wrote16(w, data, v) ==
    /\ Extends(w, data)
    /\ Len(w) - 4 = Begin(Len(data) - 4, 2) + 2
    /\ \A out : Extends(out, w) => Unsigned16(Body(out), Len(data) - 4) = v

Wrote32(w, data, v) ==
    /\ Extends(w, data)
    /\ Len(w) - 4 = Begin(Len(data) - 4, 4) + 4
    /\ \A out : Extends(out, w) => Unsigned32(Body(out), Len(data) - 4) = v

(* write_uint16 aligns, and writes two bytes that are read back.           *)
LEMMA Writes16 ==
  ASSUME NEW data \in Buffer, 4 <= Len(data), NEW v \in 0 .. UInt16 - 1
  PROVE  Wrote16(write_uint16(data, v), data, v)
<1> DEFINE a == align(data, 2)
           w == a \o Two(v)
<1>1. /\ a \in Buffer /\ Extends(a, data) /\ Len(a) = 4 + Begin(Len(data) - 4, 2)
  BY AlignType
<1>2. Len(data) - 4 \in Nat /\ Begin(Len(data) - 4, 2) \in Nat
  <2>1. Len(data) - 4 \in Nat
    BY DEF Buffer
  <2> QED
    BY <2>1, BeginType
<1>3. v \in Nat /\ v < UInt16
  BY Ranges
<1>4. Two(v) \in Buffer /\ Len(Two(v)) = 2 /\ v = Two(v)[1] + Base * Two(v)[2]
  BY <1>3, TwoBytes
<1>5. write_uint16(data, v) = w
  BY DEF write_uint16
<1> HIDE DEF a
<1>6. w \in Buffer /\ Extends(w, a) /\ Len(w) = Len(a) + 2
  <2> DEFINE t == Two(v)
  <2>1. t \in Buffer /\ Len(t) = 2
    BY <1>4
  <2> HIDE DEF t
  <2>2. a \o t \in Buffer /\ Extends(a \o t, a) /\ Len(a \o t) = Len(a) + Len(t)
    BY <1>1, <2>1, ConcatExtends
  <2> QED
    BY <2>1, <2>2 DEF t
<1>7. ASSUME NEW out, Extends(out, w) PROVE Unsigned16(Body(out), Len(data) - 4) = v
  <2>1. 4 <= Len(a)
    BY <1>1, <1>2
  <2>2. Pair(Body(out), Len(a) - 4) = v
    BY <1>1, <1>3, <1>4, <1>7, <2>1, PairRead
  <2>3. Len(a) - 4 = Begin(Len(data) - 4, 2)
    BY <1>1, <1>2
  <2> QED
    BY <2>2, <2>3 DEF Unsigned16
<1> HIDE DEF w
<1>8. Extends(w, data)
  BY <1>1, <1>6, ExtendsTransitive
<1>9. Len(w) - 4 = Begin(Len(data) - 4, 2) + 2
  BY <1>1, <1>2, <1>6
<1> QED
  BY <1>5, <1>7, <1>8, <1>9 DEF Wrote16

(* write_uint32 aligns, and writes four.                                   *)
LEMMA Writes32 ==
  ASSUME NEW data \in Buffer, 4 <= Len(data), NEW v \in 0 .. UInt32 - 1
  PROVE  Wrote32(write_uint32(data, v), data, v)
<1> DEFINE a == align(data, 4)
           u == (v \div Base) \div Base
           b == a \o Two(v)
           w == b \o Two(u)
<1>1. /\ a \in Buffer /\ Extends(a, data) /\ Len(a) = 4 + Begin(Len(data) - 4, 4)
  BY AlignType
<1>2. Len(data) - 4 \in Nat /\ Begin(Len(data) - 4, 4) \in Nat
  <2>1. Len(data) - 4 \in Nat
    BY DEF Buffer
  <2> QED
    BY <2>1, BeginType
<1>3. v \in Nat /\ v < UInt32
  BY Ranges
<1>4. /\ Two(v) \in Buffer /\ Len(Two(v)) = 2 /\ u \in Nat
      /\ v = Two(v)[1] + Base * Two(v)[2] + UInt16 * u
  BY <1>3, TwoBytes
<1>5. u < UInt16
  <2>1. v < Base * (Base * UInt16)
    BY <1>3, Ranges DEF UInt16, UInt32
  <2>2. v \div Base \in Nat
    BY <1>3, Digits, Ranges
  <2>3. v \div Base < Base * UInt16
    <3>1. Base * UInt16 \in Nat /\ Base \in Nat \ {0}
      BY Ranges
    <3> QED
      BY <1>3, <2>1, <3>1, Quotient
  <2> QED
    BY <2>2, <2>3, Quotient, Ranges
<1>6. write_uint32(data, v) = w
  BY DEF write_uint32
<1> HIDE DEF a, u
<1>7. Two(u) \in Buffer /\ Len(Two(u)) = 2 /\ u = Two(u)[1] + Base * Two(u)[2]
  BY <1>4, <1>5, TwoBytes
<1>8. b \in Buffer /\ Extends(b, a) /\ Len(b) = Len(a) + 2
  <2> DEFINE t == Two(v)
  <2>1. t \in Buffer /\ Len(t) = 2
    BY <1>4
  <2> HIDE DEF t
  <2>2. a \o t \in Buffer /\ Extends(a \o t, a) /\ Len(a \o t) = Len(a) + Len(t)
    BY <1>1, <2>1, ConcatExtends
  <2> QED
    BY <2>1, <2>2 DEF t
<1>9. w \in Buffer /\ Extends(w, b) /\ Len(w) = Len(b) + 2
  <2> DEFINE t == Two(u)
  <2>1. t \in Buffer /\ Len(t) = 2
    BY <1>7
  <2> HIDE DEF t, b
  <2>2. b \o t \in Buffer /\ Extends(b \o t, b) /\ Len(b \o t) = Len(b) + Len(t)
    BY <1>8, <2>1, ConcatExtends
  <2> QED
    BY <2>1, <2>2 DEF t
<1>10. ASSUME NEW out, Extends(out, w) PROVE Unsigned32(Body(out), Len(data) - 4) = v
  <2>1. 4 <= Len(a) /\ 4 <= Len(b)
    BY <1>1, <1>2, <1>8
  <2>2. Pair(Body(out), Len(b) - 4) = u
    <3> HIDE DEF b
    <3> QED
      BY <1>4, <1>7, <1>8, <1>10, <2>1, PairRead
  <2>3. Extends(out, b)
    <3> HIDE DEF b, w
    <3> QED
      BY <1>8, <1>9, <1>10, ExtendsTransitive
  <2>4. Pair(Body(out), Len(a) - 4) = Two(v)[1] + Base * Two(v)[2]
    BY <1>1, <1>3, <2>1, <2>3, PairRead
  <2>5. Len(a) - 4 = Begin(Len(data) - 4, 4) /\ Len(b) - 4 = Begin(Len(data) - 4, 4) + 2
    BY <1>1, <1>2, <1>8
  <2> QED
    BY <1>4, <2>2, <2>4, <2>5 DEF Unsigned32
<1> HIDE DEF w, b
<1>11. Extends(w, data)
  <2>1. Extends(b, data)
    BY <1>1, <1>8, ExtendsTransitive
  <2> QED
    BY <1>9, <2>1, ExtendsTransitive
<1>12. Len(w) - 4 = Begin(Len(data) - 4, 4) + 4
  BY <1>1, <1>2, <1>8, <1>9
<1> QED
  BY <1>6, <1>10, <1>11, <1>12 DEF Wrote32

WroteString(w, data, s) ==
    /\ Extends(w, data)
    /\ \A out : Extends(out, w) =>
           ReadString(Body(out), Len(data) - 4) = [string |-> Codes(s), end |-> Len(w) - 4]

(* write_string writes the length with the terminator, the characters and  *)
(* the terminator.                                                         *)
LEMMA WritesString ==
  ASSUME NEW data \in Buffer, 4 <= Len(data), NEW s, Codes(s) \in Buffer, Len(Codes(s)) + 1 < UInt32
  PROVE  WroteString(write_string(data, s), data, s)
<1> DEFINE c == Codes(s)
           n == Len(c)
           h == write_uint32(data, n + 1)
           b == h \o c
           w == b \o <<0>>
<1>1. n \in Nat /\ n + 1 \in 0 .. UInt32 - 1 /\ c \in Buffer /\ c = [k \in 1 .. n |-> c[k]]
  BY Ranges DEF Buffer
<1>2. Wrote32(h, data, n + 1)
  BY <1>1, Writes32
<1>3. write_string(data, s) = w
  BY DEF write_string
<1> HIDE DEF c, n
<1>4. /\ h \in Buffer /\ Extends(h, data) /\ Len(h) - 4 = Begin(Len(data) - 4, 4) + 4
      /\ \A out : Extends(out, h) => Unsigned32(Body(out), Len(data) - 4) = n + 1
  BY <1>2 DEF Wrote32, Extends
<1> HIDE DEF h
<1>5. /\ b \in Buffer /\ Extends(b, h) /\ Len(b) = Len(h) + n
      /\ \A k \in 1 .. n : b[Len(h) + k] = c[k]
  BY <1>1, <1>4, ConcatExtends DEF n
<1> HIDE DEF b
<1>6. w \in Buffer /\ Extends(w, b) /\ Len(w) = Len(b) + 1
  <2> DEFINE t == <<0>>
  <2>1. t \in Buffer /\ Len(t) = 1
    BY DEF Buffer
  <2> HIDE DEF t
  <2>2. b \o t \in Buffer /\ Extends(b \o t, b) /\ Len(b \o t) = Len(b) + Len(t)
    BY <1>5, <2>1, ConcatExtends
  <2> QED
    BY <2>1, <2>2 DEF t
<1> HIDE DEF w
<1>7. Len(data) \in Nat /\ Len(h) \in Nat /\ 4 <= Len(h)
  <2>1. Len(data) \in Nat /\ Len(h) \in Nat
    BY <1>4 DEF Buffer
  <2> QED
    BY <1>4, <2>1 DEF Extends
<1>8. ASSUME NEW out, Extends(out, w)
      PROVE  ReadString(Body(out), Len(data) - 4) = [string |-> c, end |-> Len(w) - 4]
  <2>1. Extends(out, b)
    BY <1>5, <1>6, <1>8, ExtendsTransitive
  <2>2. Extends(out, h)
    BY <1>4, <1>5, <2>1, ExtendsTransitive
  <2>3. /\ out \in Buffer /\ Len(out) \in Nat /\ Len(h) + n <= Len(out) /\ 4 <= Len(out)
        /\ \A i \in 1 .. Len(h) + n : out[i] = b[i]
    <3>1. out \in Buffer /\ Len(b) <= Len(out) /\ \A i \in 1 .. Len(b) : out[i] = b[i]
      BY <2>1 DEF Extends
    <3>2. Len(out) \in Nat
      BY <3>1 DEF Buffer
    <3> QED
      BY <1>1, <1>5, <1>7, <3>1, <3>2
  <2>4. ASSUME NEW k \in 1 .. n PROVE ByteAt(Body(out), Len(h) - 4 + k - 1) = c[k]
    <3>1. /\ Len(h) - 4 + k - 1 \in 0 .. Len(out) - 5
          /\ Len(h) - 4 + k - 1 + 5 = Len(h) + k /\ Len(h) + k \in 1 .. Len(h) + n
      BY <1>1, <1>7, <2>3
    <3>2. ByteAt(Body(out), Len(h) - 4 + k - 1) = out[Len(h) - 4 + k - 1 + 5]
      BY <2>3, <3>1, BodyBytes
    <3> QED
      BY <1>5, <2>3, <3>1, <3>2
  <2>5. Unsigned32(Body(out), Len(data) - 4) = n + 1
    BY <1>4, <2>2
  <2>6. n + 1 - 1 = n /\ Begin(Len(data) - 4, 4) + 4 + (n + 1) = Len(w) - 4
    BY <1>1, <1>4, <1>5, <1>6, <1>7
  <2> DEFINE Result(length) ==
                 [ string |-> [k \in 1 .. length - 1 |->
                                  ByteAt(Body(out), Begin(Len(data) - 4, 4) + 4 + k - 1)],
                   end |-> Begin(Len(data) - 4, 4) + 4 + length ]
  <2>7. ReadString(Body(out), Len(data) - 4) = Result(n + 1)
    <3>1. ReadString(Body(out), Len(data) - 4) = Result(Unsigned32(Body(out), Len(data) - 4))
      BY DEF ReadString
    <3> HIDE DEF Result
    <3> QED
      BY <2>5, <3>1
  <2>8. Begin(Len(data) - 4, 4) + 4 = Len(h) - 4 /\ n + 1 - 1 = n
    BY <1>1, <1>4
  <2>9. Result(n + 1) = [string |-> c, end |-> Len(w) - 4]
    <3>1. [k \in 1 .. (n + 1) - 1 |-> ByteAt(Body(out), Begin(Len(data) - 4, 4) + 4 + k - 1)] = c
      <4>1. \A k \in 1 .. n : ByteAt(Body(out), Begin(Len(data) - 4, 4) + 4 + k - 1) = c[k]
        BY <2>4, <2>8
      <4> QED
        BY <1>1, <2>8, <4>1
    <3> QED
      BY <2>6, <3>1
  <2> QED
    BY <2>7, <2>9
<1>9. Extends(w, data)
  <2>1. Extends(b, data)
    BY <1>4, <1>5, ExtendsTransitive
  <2> QED
    BY <1>6, <2>1, ExtendsTransitive
<1> QED
  BY <1>3, <1>8, <1>9 DEF WroteString, c

--------------------------------------------------------------------------------
WroteSignal(w, data, s) ==
    /\ Extends(w, data)
    /\ Len(w) - 4 = Begin(Begin(Len(data) - 4, 2) + 2, 4) + 4
    /\ \A out : Extends(out, w) =>
           /\ Unsigned16(Body(out), Len(data) - 4) = s.name_id
           /\ Unsigned32(Body(out), Begin(Len(data) - 4, 2) + 2) = FloatBits(s.value)

FitsSignal(s) == s.name_id \in 0 .. UInt16 - 1 /\ FloatBits(s.value) \in 0 .. UInt32 - 1

(* write_signal writes the id and the value.                               *)
LEMMA WritesSignal ==
  ASSUME NEW data \in Buffer, 4 <= Len(data), NEW s, FitsSignal(s)
  PROVE  WroteSignal(write_signal(data, s), data, s)
<1> DEFINE h == write_uint16(data, s.name_id)
           w == write_uint32(h, FloatBits(s.value))
<1>1. Wrote16(h, data, s.name_id)
  BY Writes16 DEF FitsSignal
<1>2. write_signal(data, s) = w
  BY DEF write_signal, write_float32
<1> HIDE DEF h
<1>3. h \in Buffer /\ Len(data) \in Nat /\ Len(h) \in Nat /\ 4 <= Len(h)
  <2>1. h \in Buffer /\ Len(data) <= Len(h)
    BY <1>1 DEF Wrote16, Extends
  <2>2. Len(data) \in Nat /\ Len(h) \in Nat
    BY <2>1 DEF Buffer
  <2> QED
    BY <2>1, <2>2
<1>4. Wrote32(w, h, FloatBits(s.value))
  BY <1>3, Writes32 DEF FitsSignal
<1> HIDE DEF w
<1>5. Extends(w, data)
  BY <1>1, <1>4, ExtendsTransitive DEF Wrote16, Wrote32
<1>6. ASSUME NEW out, Extends(out, w)
      PROVE  /\ Unsigned16(Body(out), Len(data) - 4) = s.name_id
             /\ Unsigned32(Body(out), Len(h) - 4) = FloatBits(s.value)
  <2>1. Extends(out, h)
    BY <1>3, <1>4, <1>6, ExtendsTransitive DEF Wrote32
  <2> QED
    BY <1>1, <1>4, <1>6, <2>1 DEF Wrote16, Wrote32
<1>7. Len(h) - 4 = Begin(Len(data) - 4, 2) + 2 /\ Len(w) - 4 = Begin(Len(h) - 4, 4) + 4
  BY <1>1, <1>4 DEF Wrote16, Wrote32
<1> QED
  BY <1>2, <1>5, <1>6, <1>7 DEF WroteSignal

(* The loop over the signals of a group.                                   *)
IsWriteLoop(f, data, signals) ==
    /\ f[0] = data
    /\ \A k \in 1 .. Len(signals) : f[k] = write_signal(f[k - 1], signals[k])

Full == {data \in Buffer : 4 <= Len(data)}

(* The loop of serialize_signal_group fills the buffer signal by signal.   *)
LEMMA WriteLoop ==
  ASSUME NEW data \in Full, NEW signals, Len(signals) \in Nat,
         \A k \in 1 .. Len(signals) : FitsSignal(signals[k])
  PROVE  \E f \in [0 .. Len(signals) -> Full] :
            IsWriteLoop(f, data, signals) /\ write_signals(data, signals) = f[Len(signals)]
<1> DEFINE n == Len(signals)
           step == [k \in 1 .. n |-> [d \in Full |-> write_signal(d, signals[k])]]
<1>1. ASSUME NEW d \in Full, NEW k \in 1 .. n PROVE write_signal(d, signals[k]) \in Full
  <2> DEFINE w == write_signal(d, signals[k])
  <2>1. d \in Buffer /\ 4 <= Len(d) /\ Len(d) \in Nat
    BY DEF Full, Buffer
  <2>2. WroteSignal(w, d, signals[k])
    BY <2>1, WritesSignal
  <2> HIDE DEF w
  <2>3. w \in Buffer /\ Len(d) <= Len(w)
    BY <2>2 DEF WroteSignal, Extends
  <2>4. Len(w) \in Nat
    BY <2>3 DEF Buffer
  <2> QED
    BY <2>1, <2>3, <2>4 DEF Full, w
<1>2. step \in [1 .. n -> [Full -> Full]]
  BY <1>1
<1>3. PICK f \in [0 .. n -> Full] : f[0] = data /\ \A k \in 1 .. n : f[k] = step[k][f[k - 1]]
  <2>1. n \in Nat
    OBVIOUS
  <2> HIDE DEF step, n
  <2>2. PICK f \in [0 .. n -> Full] : IsRun(f, data, step, n)
    BY <1>2, <2>1, LoopRuns
  <2> QED
    BY <2>2 DEF IsRun
<1>4. \A k \in 1 .. n : k - 1 \in 0 .. n /\ f[k - 1] \in Full
  OBVIOUS
<1>5. \A k \in 1 .. n : f[k] = write_signal(f[k - 1], signals[k])
  BY <1>3, <1>4
<1> HIDE DEF step
<1> DEFINE Loop(g) == g = [k \in 0 .. n |-> IF k = 0 THEN data ELSE write_signal(g[k - 1], signals[k])]
           out == CHOOSE g : Loop(g)
<1>6. Loop(f)
  <2>1. \A k \in 0 .. n : f[k] = IF k = 0 THEN data ELSE write_signal(f[k - 1], signals[k])
    <3> SUFFICES ASSUME NEW k \in 0 .. n
                 PROVE  f[k] = IF k = 0 THEN data ELSE write_signal(f[k - 1], signals[k])
      OBVIOUS
    <3>1. k = 0 \/ k \in 1 .. n
      OBVIOUS
    <3> QED
      BY <1>3, <1>5, <3>1
  <2>2. f = [k \in 0 .. n |-> f[k]]
    BY <1>3
  <2> QED
    BY <2>1, <2>2
<1>7. Loop(out)
  <2> HIDE DEF Loop
  <2> QED
    BY <1>6
<1>8. write_signals(data, signals) = out[n]
  BY DEF write_signals
<1> HIDE DEF out
<1>9. out[n] = f[n]
  <2> DEFINE S == {k \in 0 .. n : out[k] = f[k]}
  <2>0. n \in Nat
    OBVIOUS
  <2>1. 0 \in S
    BY <1>3, <1>7
  <2>2. ASSUME NEW i \in 1 .. n, i - 1 \in S PROVE i \in S
    <3>1. out[i] = write_signal(out[i - 1], signals[i])
      BY <1>7
    <3> QED
      BY <1>5, <2>2, <3>1
  <2>3. \A i \in 0 .. n : i \in S
    <3> HIDE DEF S, n
    <3> QED
      BY <2>0, <2>1, <2>2, UpTo
  <2> QED
    BY <2>3
<1> QED
  BY <1>3, <1>5, <1>8, <1>9 DEF IsWriteLoop

(* Every buffer of the loop begins with the ones before it.                *)
LEMMA LoopExtends ==
  ASSUME NEW signals, Len(signals) \in Nat, NEW f \in [0 .. Len(signals) -> Full], NEW data,
         IsWriteLoop(f, data, signals), \A k \in 1 .. Len(signals) : FitsSignal(signals[k])
  PROVE  /\ \A k \in 1 .. Len(signals) : WroteSignal(f[k], f[k - 1], signals[k])
         /\ \A k \in 0 .. Len(signals) : Extends(f[Len(signals)], f[k])
<1> DEFINE n == Len(signals)
           S == {i \in 0 .. n : \A k \in 0 .. i : Extends(f[i], f[k])}
<1>0. n \in Nat /\ n \in 0 .. n
  OBVIOUS
<1>1. \A k \in 0 .. n : f[k] \in Buffer /\ 4 <= Len(f[k])
  BY DEF Full
<1>2. \A k \in 1 .. n : k - 1 \in 0 .. n /\ f[k] = write_signal(f[k - 1], signals[k])
  BY DEF IsWriteLoop
<1>3. ASSUME NEW k \in 1 .. n PROVE WroteSignal(f[k], f[k - 1], signals[k])
  <2>1. f[k - 1] \in Buffer /\ 4 <= Len(f[k - 1]) /\ FitsSignal(signals[k])
    BY <1>1, <1>2
  <2> QED
    BY <1>2, <2>1, WritesSignal
<1>4. \A k \in 0 .. n : Extends(f[k], f[k])
  BY <1>1 DEF Extends, Buffer
<1>5. 0 \in S
  <2>1. \A k \in 0 .. 0 : k = 0
    OBVIOUS
  <2> QED
    BY <1>0, <1>4, <2>1
<1>6. ASSUME NEW i \in 1 .. n, i - 1 \in S PROVE i \in S
  <2> SUFFICES ASSUME NEW k \in 0 .. i PROVE Extends(f[i], f[k])
    OBVIOUS
  <2>1. CASE k = i
    BY <1>4, <2>1
  <2>2. CASE k # i
    <3>1. k \in 0 .. i - 1 /\ k \in 0 .. n /\ i - 1 \in 0 .. n
      BY <2>2
    <3>2. Extends(f[i - 1], f[k])
      BY <1>6, <3>1
    <3>3. Extends(f[i], f[i - 1])
      BY <1>3 DEF WroteSignal
    <3> QED
      BY <1>1, <3>1, <3>2, <3>3, ExtendsTransitive
  <2> QED
    BY <2>1, <2>2
<1>7. \A i \in 0 .. n : i \in S
  <2> HIDE DEF S, n
  <2> QED
    BY <1>0, <1>5, <1>6, UpTo
<1> QED
  BY <1>0, <1>3, <1>7

(* The fields of a signal as a reader finds them.                          *)
SignalRead(s) == [name_id |-> s.name_id, value |-> FloatBits(s.value)]

(* The reader's loop over what the writer's loop has written.              *)
LEMMA ReadLoop ==
  ASSUME NEW signals, Len(signals) \in Nat, NEW f \in [0 .. Len(signals) -> Full], NEW data,
         IsWriteLoop(f, data, signals), \A k \in 1 .. Len(signals) : FitsSignal(signals[k]),
         NEW out, Extends(out, f[Len(signals)])
  PROVE  ReadSignals(Body(out), Len(data) - 4, Len(signals))
             = [ end |-> Len(f[Len(signals)]) - 4,
                 signals |-> [j \in 1 .. Len(signals) |-> SignalRead(signals[j])] ]
<1> DEFINE n == Len(signals)
           body == Body(out)
           x == [end |-> Len(data) - 4, signals |-> <<>>]
           Loop(g) == g = [k \in 0 .. n |-> IF k = 0 THEN x ELSE ReadSignal(body, g[k - 1])]
           read == CHOOSE g : Loop(g)
           list(k) == [j \in 1 .. k |-> SignalRead(signals[j])]
           h == [k \in 0 .. n |-> [end |-> Len(f[k]) - 4, signals |-> list(k)]]
<1>0. n \in Nat /\ n \in 0 .. n
  OBVIOUS
<1>1. /\ \A k \in 1 .. n : k - 1 \in 0 .. n /\ WroteSignal(f[k], f[k - 1], signals[k])
      /\ \A k \in 0 .. n : Extends(f[n], f[k])
  BY LoopExtends
<1>2. \A k \in 0 .. n : Extends(out, f[k])
  <2> SUFFICES ASSUME NEW k \in 0 .. n PROVE Extends(out, f[k])
    OBVIOUS
  <2>1. f[k] \in Buffer /\ Extends(f[n], f[k])
    BY <1>1 DEF Full
  <2> QED
    BY <2>1, ExtendsTransitive
<1>3. h[0] = x
  <2>1. f[0] = data
    BY DEF IsWriteLoop
  <2>2. list(0) = <<>>
    OBVIOUS
  <2> QED
    BY <1>0, <2>1, <2>2
<1>4. ASSUME NEW k \in 1 .. n PROVE h[k] = ReadSignal(body, h[k - 1])
  <2> DEFINE at == Len(f[k - 1]) - 4
  <2>1. /\ Len(f[k]) - 4 = Begin(Begin(at, 2) + 2, 4) + 4
        /\ Unsigned16(body, at) = signals[k].name_id
        /\ Unsigned32(body, Begin(at, 2) + 2) = FloatBits(signals[k].value)
    BY <1>1, <1>2 DEF WroteSignal
  <2>2. Append(list(k - 1), SignalRead(signals[k])) = list(k)
    OBVIOUS
  <2>3. k - 1 \in 0 .. n /\ k \in 0 .. n
    BY <1>0
  <2> HIDE DEF body, list
  <2>4. h[k - 1].end = at /\ h[k - 1].signals = list(k - 1)
    BY <2>3
  <2>5. h[k] = [end |-> Len(f[k]) - 4, signals |-> list(k)]
    BY <2>3
  <2> HIDE DEF h, at
  <2> QED
    BY <2>1, <2>2, <2>4, <2>5 DEF ReadSignal, SignalRead
<1>5. Loop(h)
  <2>1. \A k \in 0 .. n : h[k] = IF k = 0 THEN x ELSE ReadSignal(body, h[k - 1])
    <3> HIDE DEF h, x, body
    <3> SUFFICES ASSUME NEW k \in 0 .. n
                 PROVE  h[k] = IF k = 0 THEN x ELSE ReadSignal(body, h[k - 1])
      OBVIOUS
    <3>1. k = 0 \/ k \in 1 .. n
      OBVIOUS
    <3> QED
      BY <1>3, <1>4, <3>1
  <2>2. h = [k \in 0 .. n |-> h[k]]
    OBVIOUS
  <2> HIDE DEF h
  <2> QED
    BY <2>1, <2>2
<1>6. Loop(read)
  <2> HIDE DEF Loop
  <2> QED
    BY <1>5
<1>7. ReadSignals(body, Len(data) - 4, n) = read[n]
  BY DEF ReadSignals
<1> HIDE DEF read
<1>8. read[n] = h[n]
  <2> DEFINE S == {k \in 0 .. n : read[k] = h[k]}
  <2> HIDE DEF h, body, x
  <2>1. 0 \in S
    BY <1>0, <1>3, <1>6
  <2>2. ASSUME NEW i \in 1 .. n, i - 1 \in S PROVE i \in S
    <3>1. read[i] = ReadSignal(body, read[i - 1])
      BY <1>6
    <3> QED
      BY <1>4, <2>2, <3>1
  <2>3. \A i \in 0 .. n : i \in S
    <3> HIDE DEF S, n
    <3> QED
      BY <1>0, <2>1, <2>2, UpTo
  <2> QED
    BY <1>0, <2>3
<1> QED
  BY <1>0, <1>7, <1>8

(* Two's complement.                                                       *)
LEMMA SignedRead ==
  ASSUME NEW v \in -(UInt32 \div 2) .. UInt32 \div 2 - 1
  PROVE  (v % UInt32) \in 0 .. UInt32 - 1 /\ Signed(v % UInt32) = v
<1> DEFINE u == UInt32
           h == u \div 2
<1>1. u \in Nat \ {0} /\ h \in Nat /\ 2 * h <= u /\ v \in Int /\ -h <= v /\ v <= h - 1
  BY Ranges
<1> HIDE DEF u, h
<1>2. CASE v >= 0
  <2>1. (v % u) = v
    BY <1>1, <1>2
  <2>2. ~(v > h - 1)
    BY <1>1
  <2> QED
    BY <1>1, <1>2, <2>1, <2>2 DEF Signed, u, h
<1>3. CASE v < 0
  <2>1. v + u \in 0 .. u - 1 /\ v + u > h - 1
    BY <1>1, <1>3
  <2>2. (v % u) = v + u
    BY <1>1, <2>1
  <2>3. (v + u) - u = v
    BY <1>1
  <2> QED
    BY <2>1, <2>2, <2>3 DEF Signed, u, h
<1> QED
  BY <1>1, <1>2, <1>3

(* What fits a message: the types of its fields, and strings and lists     *)
(* whose length a uint32 tells.                                            *)
FitsString(s) == Codes(s) \in Buffer /\ Len(Codes(s)) + 1 < UInt32

Fits(g) ==
    /\ g.header.stamp \in [sec : -(UInt32 \div 2) .. UInt32 \div 2 - 1, nanosec : 0 .. UInt32 - 1]
    /\ FitsString(g.header.frame_id) /\ FitsString(g.domain)
    /\ Len(g.signals) \in 0 .. UInt32 - 1
    /\ \A k \in 1 .. Len(g.signals) : FitsSignal(g.signals[k])

(* Whatever group fits a message, a reader of the buffer that               *)
(* serialize_signal_group fills finds the group, field by field, and not   *)
(* one byte behind it: alignment, lengths, terminators, the order of the   *)
(* bytes and the sign of the seconds are the reader's.                     *)
THEOREM RoundTrip ==
  ASSUME NEW g, Fits(g)
  PROVE  Read(serialize_signal_group(g, <<>>))
             = [ message |-> [ header |-> [ stamp |-> g.header.stamp,
                                            frame_id |-> Codes(g.header.frame_id) ],
                               domain |-> Codes(g.domain),
                               signals |-> [j \in 1 .. Len(g.signals) |-> SignalRead(g.signals[j])] ],
                 unread |-> 0 ]
<1> DEFINE h == <<>> \o Header
           sec == g.header.stamp.sec
           a == write_int32(h, sec)
           b == write_uint32(a, g.header.stamp.nanosec)
           c == write_string(b, g.header.frame_id)
           d == write_string(c, g.domain)
           n == Len(g.signals)
           e == write_uint32(d, n)
           w == write_signals(e, g.signals)
<1>1. serialize_signal_group(g, <<>>) = w
  BY DEF serialize_signal_group
<1>2. /\ sec \in -(UInt32 \div 2) .. UInt32 \div 2 - 1
      /\ g.header.stamp.nanosec \in 0 .. UInt32 - 1
      /\ g.header.stamp = [sec |-> sec, nanosec |-> g.header.stamp.nanosec]
      /\ n \in 0 .. UInt32 - 1 /\ n \in Nat
      /\ FitsString(g.header.frame_id) /\ FitsString(g.domain)
      /\ \A k \in 1 .. n : FitsSignal(g.signals[k])
  BY Ranges DEF Fits
<1> HIDE DEF sec
<1>3. h \in Buffer /\ Len(h) = 4 /\ 4 <= Len(h)
  BY DEF Header, Buffer
<1> HIDE DEF h
<1>4. Wrote32(a, h, sec % UInt32)
  <2>1. (sec % UInt32) \in 0 .. UInt32 - 1
    BY <1>2, SignedRead
  <2>2. a = write_uint32(h, sec % UInt32)
    BY DEF write_int32
  <2> DEFINE v == sec % UInt32
  <2> HIDE DEF v
  <2>3. v \in 0 .. UInt32 - 1
    BY <2>1 DEF v
  <2>4. Wrote32(write_uint32(h, v), h, v)
    BY <1>3, <2>3, Writes32
  <2> QED
    BY <2>2, <2>4 DEF v
<1> HIDE DEF a
<1>5. a \in Full /\ Len(a) = 8
  <2>1. a \in Buffer /\ Len(a) - 4 = Begin(0, 4) + 4
    BY <1>3, <1>4 DEF Wrote32, Extends
  <2>2. Begin(0, 4) + 4 = 4 /\ Len(a) \in Nat
    BY <2>1 DEF Begin, Buffer
  <2>3. Len(a) = 8
    <3>1. Len(a) - 4 = 4
      BY <2>1, <2>2
    <3> QED
      BY <2>2, <3>1
  <2> QED
    BY <2>1, <2>3 DEF Full
<1>6. Wrote32(b, a, g.header.stamp.nanosec)
  BY <1>2, <1>5, Writes32 DEF Full
<1> HIDE DEF b
<1>7. b \in Full /\ Len(b) = 12
  <2>1. b \in Buffer /\ Len(b) - 4 = Begin(4, 4) + 4
    BY <1>5, <1>6 DEF Wrote32, Extends
  <2>2. Begin(4, 4) + 4 = 8 /\ Len(b) \in Nat
    BY <2>1 DEF Begin, Buffer
  <2>3. Len(b) = 12
    <3>1. Len(b) - 4 = 8
      BY <2>1, <2>2
    <3> QED
      BY <2>2, <3>1
  <2> QED
    BY <2>1, <2>3 DEF Full
<1>8. WroteString(c, b, g.header.frame_id)
  BY <1>2, <1>7, WritesString DEF Full, FitsString
<1> HIDE DEF c
<1>9. c \in Full
  <2>1. c \in Buffer /\ Len(b) <= Len(c)
    BY <1>8 DEF WroteString, Extends
  <2> QED
    BY <1>7, <2>1 DEF Full, Buffer
<1>10. WroteString(d, c, g.domain)
  BY <1>2, <1>9, WritesString DEF Full, FitsString
<1> HIDE DEF d
<1>11. d \in Full
  <2>1. d \in Buffer /\ Len(c) <= Len(d)
    BY <1>10 DEF WroteString, Extends
  <2> QED
    BY <1>9, <2>1 DEF Full, Buffer
<1>12. Wrote32(e, d, n)
  BY <1>2, <1>11, Writes32 DEF Full
<1> HIDE DEF e
<1>13. e \in Full
  <2>1. e \in Buffer /\ Len(d) <= Len(e)
    BY <1>12 DEF Wrote32, Extends
  <2> QED
    BY <1>11, <2>1 DEF Full, Buffer
<1>14. PICK f \in [0 .. n -> Full] : IsWriteLoop(f, e, g.signals) /\ w = f[n]
  BY <1>2, <1>13, WriteLoop
<1>15. Extends(w, e) /\ Extends(w, w) /\ w \in Buffer /\ 4 <= Len(w) /\ Len(w) \in Nat
  <2>1. \A k \in 0 .. n : Extends(f[n], f[k])
    BY <1>2, <1>14, LoopExtends
  <2>2. f[0] = e /\ 0 \in 0 .. n /\ n \in 0 .. n
    BY <1>2, <1>14 DEF IsWriteLoop
  <2>3. w \in Full /\ w = f[n]
    BY <1>14, <2>2
  <2>4. w \in Buffer /\ 4 <= Len(w) /\ Len(w) \in Nat
    BY <2>3 DEF Full, Buffer
  <2>5. Extends(w, e) /\ Extends(w, w)
    <3> HIDE DEF w
    <3> QED
      BY <2>1, <2>2, <2>3
  <2> QED
    BY <2>4, <2>5
<1>16. ReadSignals(Body(w), Len(e) - 4, n)
           = [ end |-> Len(w) - 4, signals |-> [j \in 1 .. n |-> SignalRead(g.signals[j])] ]
  <2> HIDE DEF w
  <2> QED
    BY <1>2, <1>14, <1>15, ReadLoop
<1> HIDE DEF w, n
<1>17. Extends(w, d) /\ Extends(w, c) /\ Extends(w, b) /\ Extends(w, a)
  <2>1. Extends(w, d)
    BY <1>11, <1>12, <1>15, ExtendsTransitive DEF Wrote32, Full
  <2>2. Extends(w, c)
    BY <1>9, <1>10, <2>1, ExtendsTransitive DEF WroteString, Full
  <2>3. Extends(w, b)
    BY <1>7, <1>8, <2>2, ExtendsTransitive DEF WroteString, Full
  <2>4. Extends(w, a)
    BY <1>5, <1>6, <2>3, ExtendsTransitive DEF Wrote32, Full
  <2> QED
    BY <2>1, <2>2, <2>3, <2>4
<1>18. Signed(Unsigned32(Body(w), 0)) = sec /\ Unsigned32(Body(w), 4) = g.header.stamp.nanosec
  <2>1. Unsigned32(Body(w), Len(h) - 4) = sec % UInt32
    BY <1>4, <1>17 DEF Wrote32
  <2>2. Unsigned32(Body(w), Len(a) - 4) = g.header.stamp.nanosec
    BY <1>6, <1>17 DEF Wrote32
  <2>3. Len(h) - 4 = 0 /\ Len(a) - 4 = 4
    BY <1>3, <1>5
  <2> QED
    BY <1>2, <2>1, <2>2, <2>3, SignedRead
<1>19. ReadString(Body(w), 8) = [string |-> Codes(g.header.frame_id), end |-> Len(c) - 4]
  <2>1. Len(b) - 4 = 8
    BY <1>7
  <2> QED
    BY <1>8, <1>17, <2>1 DEF WroteString
<1>20. ReadString(Body(w), Len(c) - 4) = [string |-> Codes(g.domain), end |-> Len(d) - 4]
  BY <1>10, <1>17 DEF WroteString
<1>21. Unsigned32(Body(w), Len(d) - 4) = n /\ Begin(Len(d) - 4, 4) + 4 = Len(e) - 4
  BY <1>12, <1>15 DEF Wrote32
<1>22. Len(Body(w)) = Len(w) - 4
  BY <1>15, BodyBytes
<1>23. Len(Body(w)) - (Len(w) - 4) = 0
  BY <1>15, <1>22
<1> DEFINE body == Body(w)
           stamp == [sec |-> Signed(Unsigned32(body, 0)), nanosec |-> Unsigned32(body, 4)]
           frame_id == ReadString(body, 8)
           domain == ReadString(body, frame_id.end)
           signals == ReadSignals(body, Begin(domain.end, 4) + 4, Unsigned32(body, domain.end))
<1>24. Read(w) = [ message |-> [ header |-> [stamp |-> stamp, frame_id |-> frame_id.string],
                                 domain |-> domain.string, signals |-> signals.signals ],
                   unread |-> Len(body) - signals.end ]
  BY DEF Read
<1> HIDE DEF body, stamp, frame_id, domain, signals
<1>25. stamp = g.header.stamp
  BY <1>2, <1>18 DEF stamp, body
<1>26. frame_id.string = Codes(g.header.frame_id) /\ frame_id.end = Len(c) - 4
  BY <1>19 DEF frame_id, body
<1>27. domain.string = Codes(g.domain) /\ domain.end = Len(d) - 4
  BY <1>20, <1>26 DEF domain, body
<1>28. /\ signals.signals = [j \in 1 .. n |-> SignalRead(g.signals[j])]
       /\ signals.end = Len(w) - 4
  <2>1. signals = ReadSignals(body, Len(e) - 4, n)
    BY <1>21, <1>27 DEF signals, body
  <2>2. signals = [ end |-> Len(w) - 4, signals |-> [j \in 1 .. n |-> SignalRead(g.signals[j])] ]
    BY <1>16, <2>1, Zenon DEF body
  <2> QED
    BY <2>2
<1> QED
  BY <1>1, <1>23, <1>24, <1>25, <1>26, <1>27, <1>28 DEF body, n
================================================================================
