---------------------------- MODULE RetrievalProofs ----------------------------
(***************************************************************************)
(* What the retrieval plane answers with (retrieval/server.go) and the      *)
(* codecs behind it (encode/encode.go, tnwire/block.go, hashid/hashid.go):  *)
(* a block survives every conversion, a block that lost its end survives    *)
(* none, and a 200 carries exactly the object that was asked for; for       *)
(* blocks and subtrees of any contents, however many roots, members and     *)
(* bytes they have.                                                         *)
(***************************************************************************)
EXTENDS Serving, WellFoundedInduction, TLAPS

\* Where a step names no prover, Zenon checks it.
USE Zenon

-----------------------------------------------------------------------------
(* Induction over the natural numbers, with the set of the numbers that have a     *)
(* property in the place of the property.                                          *)

Less == OpToRel(<, Nat)

\* A set with 0 and with the successor of every number in it has every number.
LEMMA SetInduction ==
  \A S : 0 \in S /\ (\A n \in Nat : n \in S => n + 1 \in S) => Nat \subseteq S

\* The order of the natural numbers as a relation.
<1>LessIs. Less = {p \in Nat \X Nat : p[1] < p[2]}
  BY DEF Less, OpToRel

\* It is well founded.
<1>LessWellFounded. IsWellFoundedOn(Less, Nat)
  BY NatLessThanWellFounded DEF Less

\* A set of natural numbers has a least element.
<1>Least.
  ASSUME NEW T, T \subseteq Nat, T # {}
  PROVE  \E x \in T : \A y \in T : ~(y < x)
  <2> USE <1>Least
  <2>1. PICK x \in T : \A y \in T : ~(<<y, x>> \in Less)
    BY <1>LessWellFounded, WFMin
  <2>2. ASSUME NEW y \in T, y < x PROVE FALSE
    <3>1. <<y, x>> \in Less
      BY SMT, <2>2, <1>LessIs
    <3> QED
      BY <2>1, <3>1
  <2> QED
    BY <2>2

\* A set with 0 and with the successor of every number in it has every number.
<1>SetInduction.
  ASSUME NEW S, 0 \in S, \A n \in Nat : n \in S => n + 1 \in S
  PROVE  Nat \subseteq S
  <2> USE <1>SetInduction
  <2>1. SUFFICES ASSUME Nat \ S # {} PROVE FALSE
    OBVIOUS
  <2>2. PICK x \in Nat \ S : \A y \in Nat \ S : ~(y < x)
    BY <2>1, <1>Least
  <2>3. x # 0
    OBVIOUS
  <2>4. x - 1 \in Nat /\ x - 1 < x /\ x - 1 + 1 = x
    BY SMT, <2>3
  <2>5. x - 1 \in S
    BY <2>2, <2>4
  <2> QED
    BY SMT, <2>4, <2>5

<1> QED
  BY <1>SetInduction

-----------------------------------------------------------------------------
(* Sequences over any set. *)

\* A sequence is a function on its indexes.
LEMMA Indexed ==
  ASSUME NEW S, NEW s \in Seq(S)
  PROVE  Len(s) \in Nat /\ s \in [1..Len(s) -> S] /\ DOMAIN s = 1..Len(s)
BY SMT

\* Sequences are equal when they have the same elements.
LEMMA SameElements ==
  ASSUME NEW S, NEW s \in Seq(S), NEW t \in Seq(S),
         Len(s) = Len(t), \A i \in 1..Len(s) : s[i] = t[i]
  PROVE  s = t
<1>1. s \in [1..Len(s) -> S] /\ t \in [1..Len(s) -> S]
  BY Indexed
<1>2. s = [i \in 1..Len(s) |-> s[i]] /\ t = [i \in 1..Len(s) |-> t[i]]
  BY <1>1
<1> QED
  BY <1>2

\* A sequence over a set is one over a larger set.
LEMMA Wider ==
  ASSUME NEW S, NEW T, NEW s \in Seq(S), S \subseteq T
  PROVE  s \in Seq(T)
BY SMT

\* The type and the length of a concatenation.
LEMMA Joined ==
  ASSUME NEW S, NEW s \in Seq(S), NEW t \in Seq(S)
  PROVE  s \o t \in Seq(S) /\ Len(s \o t) = Len(s) + Len(t)
BY SMT

\* The type of an extended sequence.
LEMMA Longer ==
  ASSUME NEW S, NEW s \in Seq(S), NEW e \in S
  PROVE  Append(s, e) \in Seq(S)
BY SMT

-----------------------------------------------------------------------------
(* Strings of bytes. *)

Str == Seq(Byte)

\* What concatenation returns.
LEMMA Cat ==
  ASSUME NEW s \in Str, NEW t \in Str
  PROVE  /\ s \o t \in Str
         /\ Len(s) \in Nat /\ Len(t) \in Nat /\ Len(s \o t) = Len(s) + Len(t)
         /\ \A i \in 1..Len(s) : (s \o t)[i] = s[i]
         /\ \A i \in 1..Len(t) : (s \o t)[Len(s) + i] = t[i]
BY SMT DEF Str

\* An array of bytes is a string.
LEMMA Array ==
  ASSUME NEW n \in Nat, NEW a \in [1..n -> Byte]
  PROVE  a \in Str /\ Len(a) = n
BY SMT DEF Str

\* Strings are equal when they have the same bytes.
LEMMA SameBytes ==
  ASSUME NEW s \in Str, NEW t \in Str, Len(s) = Len(t), \A i \in 1..Len(s) : s[i] = t[i]
  PROVE  s = t
BY SameElements DEF Str

\* b begins with s.
Begins(b, s) == Len(s) <= Len(b) /\ \A i \in 1..Len(s) : b[i] = s[i]

\* s lies in b, right behind the first off bytes.
At(b, off, s) == off + Len(s) <= Len(b) /\ \A i \in 1..Len(s) : b[off + i] = s[i]

\* A string begins with itself, and with the first of two that it is made of.
LEMMA BeginsWhole ==
  ASSUME NEW s \in Str
  PROVE  Begins(s, s)
BY SMT DEF Begins, Str

\* A slice within a string.
LEMMA SliceIs ==
  ASSUME NEW b \in Str, NEW off \in Nat, NEW n \in Nat, off + n <= Len(b)
  PROVE  /\ Slice(b, off, n) \in Str /\ Len(Slice(b, off, n)) = n
         /\ \A i \in 1..n : Slice(b, off, n)[i] = b[off + i]
         /\ At(b, off, Slice(b, off, n))
BY SMT DEF Slice, Str, At

\* The bytes that are cut out where s lies are s.
LEMMA SliceAt ==
  ASSUME NEW b \in Str, NEW s \in Str, NEW off \in Nat, At(b, off, s)
  PROVE  Slice(b, off, Len(s)) = s
<1>1. Len(s) \in Nat
  BY SMT DEF Str
<1>2. off + Len(s) <= Len(b) /\ \A i \in 1..Len(s) : b[off + i] = s[i]
  BY DEF At
<1>3. /\ Slice(b, off, Len(s)) \in Str /\ Len(Slice(b, off, Len(s))) = Len(s)
      /\ \A i \in 1..Len(s) : Slice(b, off, Len(s))[i] = b[off + i]
  BY <1>1, <1>2, SliceIs
<1> QED
  BY <1>2, <1>3, SameBytes

\* What is left of a string behind an offset.
LEMMA FromIs ==
  ASSUME NEW b \in Str, NEW off \in Nat, off <= Len(b)
  PROVE  /\ From(b, off) \in Str /\ Len(From(b, off)) = Len(b) - off
         /\ \A i \in 1..(Len(b) - off) : From(b, off)[i] = b[off + i]
BY SMT DEF From, Str

\* A string backwards.
LEMMA ReverseIs ==
  ASSUME NEW b \in Str
  PROVE  /\ Reverse(b) \in Str /\ Len(Reverse(b)) = Len(b)
         /\ \A i \in 1..Len(b) : Reverse(b)[i] = b[Len(b) + 1 - i]
<1>1. DOMAIN b = 1..Len(b) /\ Len(b) \in Nat /\ \A i \in 1..Len(b) : b[i] \in Byte
  BY SMT DEF Str
<1>2. \A i \in 1..Len(b) : Len(b) + 1 - i \in 1..Len(b)
  BY SMT, <1>1
<1>3. Reverse(b) = [i \in 1..Len(b) |-> b[Len(b) + 1 - i]]
  BY <1>1 DEF Reverse
<1>4. Reverse(b) \in [1..Len(b) -> Byte]
  BY <1>1, <1>2, <1>3
<1> QED
  BY <1>1, <1>3, <1>4, Array

\* Twice backwards is forwards.
LEMMA ReverseTwice ==
  ASSUME NEW b \in Str
  PROVE  Reverse(Reverse(b)) = b
<1> DEFINE r == Reverse(b)
           t == Reverse(r)
<1>1. r \in Str /\ Len(r) = Len(b) /\ \A i \in 1..Len(b) : r[i] = b[Len(b) + 1 - i]
  BY ReverseIs
<1> HIDE DEF r
<1>2. t \in Str /\ Len(t) = Len(r) /\ \A i \in 1..Len(r) : t[i] = r[Len(r) + 1 - i]
  BY <1>1, ReverseIs
<1> HIDE DEF t
<1>3. ASSUME NEW i \in 1..Len(t) PROVE t[i] = b[i]
  <2> DEFINE j == Len(b) + 1 - i
  <2>1. Len(b) \in Nat
    BY SMT DEF Str
  <2>2. i \in 1..Len(b) /\ j \in 1..Len(b) /\ Len(b) + 1 - j = i
    BY SMT, <1>1, <1>2, <2>1
  <2>3. t[i] = r[j]
    BY <1>1, <1>2, <2>2
  <2> HIDE DEF j
  <2>4. r[j] = b[Len(b) + 1 - j]
    BY <1>1, <2>2
  <2> QED
    BY <2>2, <2>3, <2>4
<1>4. t = b
  BY <1>1, <1>2, <1>3, SameBytes
<1> QED
  BY <1>4 DEF t, r

\* A run of zeros.
LEMMA ZerosIs ==
  ASSUME NEW n \in Nat
  PROVE  /\ Zeros(n) \in Str /\ Len(Zeros(n)) = n
         /\ \A i \in 1..n : Zeros(n)[i] = 0
<1>1. Zeros(n) \in [1..n -> Byte]
  BY SMT DEF Zeros, Byte
<1> QED
  BY <1>1, Array DEF Zeros

\* The three longer forms of a varint: n bytes follow, and the first m of the value
\* are zeros.
Long(v, lead, n, m) ==
  /\ lead \in Byte /\ Following(lead) = n
  /\ <<n, m>> \in {<<2, 6>>, <<4, 4>>, <<8, 0>>}
  /\ Slice(v, 0, m) = Zeros(m) /\ AppendVarInt(v) = <<lead>> \o Reverse(From(v, m))

\* readVarInt fails exactly when the first byte or one that it announces is not there.
Short(b, off) == off >= Len(b) \/ off + 1 + Following(b[off + 1]) > Len(b)

\* A varint has one to nine bytes; readVarInt reads it back wherever it lies, and fails on
\* one that lost its end.
LEMMA VarIntCodec ==
  /\ \A v \in Count : AppendVarInt(v) \in Str /\ Len(AppendVarInt(v)) \in 1..9
  /\ \A b \in Str, off \in Nat, v \in Count : At(b, off, AppendVarInt(v))
       => ReadVarInt(b, off) = [v |-> v, next |-> off + Len(AppendVarInt(v))]
  /\ \A whole \in Str, b \in Str, off \in Nat, v \in Count :
       At(whole, off, AppendVarInt(v)) /\ Begins(whole, b) /\ Len(b) < off + Len(AppendVarInt(v))
       => ReadVarInt(b, off) = [v |-> Zeros(8), next |-> 0]

\* One byte as a string.
<1>OneByte.
  ASSUME NEW x \in Byte
  PROVE  <<x>> \in Str /\ Len(<<x>>) = 1 /\ <<x>>[1] = x
  BY SMT, <1>OneByte DEF Str

\* A count whose first m bytes are zero is those zeros and the rest.
<1>Leading.
  ASSUME NEW v \in Count, NEW m \in 0..8, Slice(v, 0, m) = Zeros(m)
  PROVE  /\ From(v, m) \in Str /\ Len(From(v, m)) = 8 - m
         /\ v = Zeros(m) \o From(v, m)
  <2> USE <1>Leading
  <2>1. v \in Str /\ Len(v) = 8
    BY Array DEF Count
  <2>2. /\ m \in Nat /\ 0 + m <= Len(v) /\ m <= Len(v) /\ 0 \in Nat
        /\ \A i \in 1..m : 0 + i = i
    BY SMT, <2>1
  <2>3. \A i \in 1..m : Slice(v, 0, m)[i] = v[0 + i]
    BY <2>1, <2>2, SliceIs
  <2>4. Zeros(m) \in Str /\ Len(Zeros(m)) = m
    BY <2>2, ZerosIs
  <2>5. /\ From(v, m) \in Str /\ Len(From(v, m)) = 8 - m
        /\ \A i \in 1..(8 - m) : From(v, m)[i] = v[m + i]
    <3>1. /\ From(v, m) \in Str /\ Len(From(v, m)) = Len(v) - m
          /\ \A i \in 1..(Len(v) - m) : From(v, m)[i] = v[m + i]
      BY <2>1, <2>2, FromIs
    <3>2. Len(v) - m = 8 - m
      BY <2>1
    <3> QED
      BY <3>1, <3>2
  <2> DEFINE c == Zeros(m) \o From(v, m)
  <2>6. /\ c \in Str /\ Len(c) = m + (8 - m)
        /\ \A i \in 1..m : c[i] = Zeros(m)[i]
        /\ \A i \in 1..(8 - m) : c[m + i] = From(v, m)[i]
    <3> DEFINE z == Zeros(m)
               f == From(v, m)
    <3>1. z \in Str /\ f \in Str /\ Len(z) = m /\ Len(f) = 8 - m
      BY <2>4, <2>5
    <3> HIDE DEF z, f
    <3>2. /\ z \o f \in Str /\ Len(z \o f) = Len(z) + Len(f)
          /\ \A i \in 1..Len(z) : (z \o f)[i] = z[i]
          /\ \A i \in 1..Len(f) : (z \o f)[Len(z) + i] = f[i]
      BY <3>1, Cat
    <3>3. /\ z \o f \in Str /\ Len(z \o f) = m + (8 - m)
          /\ \A i \in 1..m : (z \o f)[i] = z[i]
          /\ \A i \in 1..(8 - m) : (z \o f)[m + i] = f[i]
      BY SMT, <3>1, <3>2
    <3> QED
      BY <3>3 DEF z, f
  <2>7. Len(c) = 8
    BY SMT, <2>6
  <2>8. \A i \in 1..m : c[i] = v[i]
    BY <2>2, <2>3, <2>6
  <2>9. \A i \in 1..(8 - m) : c[m + i] = v[m + i]
    BY <2>5, <2>6
  <2> HIDE DEF c
  <2>10. ASSUME NEW i \in 1..8 PROVE c[i] = v[i]
    <3>1. i \in 1..m \/ (i - m \in 1..(8 - m) /\ m + (i - m) = i)
      BY SMT, <2>2
    <3> QED
      BY <2>8, <2>9, <3>1
  <2>11. c = v
    BY <2>1, <2>6, <2>7, <2>10, SameBytes
  <2> QED
    BY <2>5, <2>11 DEF c

\* A first byte announces at most eight.
<1>Announces.
  ASSUME NEW lead \in Byte
  PROVE  /\ Following(lead) \in {0, 2, 4, 8} /\ Following(lead) \in Nat
         /\ lead < 253 => Following(lead) = 0
  BY SMT, <1>Announces DEF Following, Byte

\* They decode to the value.
<1>LongForm.
  ASSUME NEW v \in Count, NEW lead, NEW n, NEW m, Long(v, lead, n, m)
  PROVE  \E w \in Str : /\ AppendVarInt(v) = <<lead>> \o w /\ Len(w) = Following(lead)
                        /\ v = Decoded(lead, w)
  <2> USE <1>LongForm
  <2> DEFINE w == Reverse(From(v, m))
  <2>0. /\ Following(lead) = n
        /\ <<n, m>> \in {<<2, 6>>, <<4, 4>>, <<8, 0>>}
        /\ Slice(v, 0, m) = Zeros(m) /\ AppendVarInt(v) = <<lead>> \o w
    BY DEF Long
  <2>1. m \in 0..8 /\ 8 - m = n /\ 8 - n = m /\ n # 0
    BY SMT, <2>0
  <2>2. /\ From(v, m) \in Str /\ Len(From(v, m)) = 8 - m
        /\ v = Zeros(m) \o From(v, m)
    BY <2>0, <2>1, <1>Leading
  <2>3. w \in Str /\ Len(w) = n /\ Reverse(w) = From(v, m)
    BY <2>1, <2>2, ReverseIs, ReverseTwice
  <2>4. v = Decoded(lead, w)
    BY <2>0, <2>1, <2>2, <2>3 DEF Decoded
  <2> QED
    BY <2>0, <2>3, <2>4

\* AppendVarInt writes a first byte and as many as it announces, and they decode to
\* the value.
<1>VarIntIs.
  ASSUME NEW v \in Count
  PROVE  \E lead \in Byte, w \in Str :
           /\ AppendVarInt(v) = <<lead>> \o w /\ Len(w) = Following(lead)
           /\ v = Decoded(lead, w)
  <2> USE <1>VarIntIs
  <2>1. v \in Str /\ Len(v) = 8 /\ v[8] \in Byte
    <3>1. v \in Str /\ Len(v) = 8
      BY Array DEF Count
    <3> QED
      BY SMT, <3>1 DEF Count
  <2>2. 8 - 1 = 7 /\ 8 - 2 = 6 /\ 8 - 4 = 4 /\ 8 - 8 = 0 /\ {253, 254, 255} \subseteq Byte
    BY SMT DEF Byte
  <2>3. CASE Slice(v, 0, 7) = Zeros(7) /\ v[8] < 253
    <3>1. AppendVarInt(v) = <<v[8]>>
      BY <2>2, <2>3 DEF AppendVarInt
    <3>2. /\ From(v, 7) \in Str /\ Len(From(v, 7)) = 1 /\ v = Zeros(7) \o From(v, 7)
      <4>1. 7 \in 0..8 /\ 8 - 7 = 1
        BY SMT
      <4> QED
        BY <2>3, <4>1, <1>Leading
    <3>3. From(v, 7)[1] = v[8]
      <4>1. 7 \in Nat /\ 7 <= Len(v) /\ 1 \in 1..(Len(v) - 7) /\ 7 + 1 = 8
        BY SMT, <2>1
      <4> QED
        BY <2>1, <4>1, FromIs
    <3>4. From(v, 7) = <<v[8]>>
      <4>1. <<v[8]>> \in Str /\ Len(<<v[8]>>) = 1 /\ <<v[8]>>[1] = v[8]
        BY <2>1, <1>OneByte
      <4>2. \A i \in 1..1 : i = 1
        BY SMT
      <4> QED
        BY <3>2, <3>3, <4>1, <4>2, SameBytes
    <3>5. Following(v[8]) = 0
      BY <2>1, <2>3, <1>Announces
    <3>6. <<>> \in Str /\ Len(<<>>) = 0 /\ <<v[8]>> = <<v[8]>> \o <<>>
      BY SMT, <2>1 DEF Str
    <3> QED
      BY <2>1, <3>1, <3>2, <3>4, <3>5, <3>6 DEF Decoded
  <2>4. CASE ~(Slice(v, 0, 7) = Zeros(7) /\ v[8] < 253) /\ Slice(v, 0, 6) = Zeros(6)
    <3>1. AppendVarInt(v) = <<253>> \o Reverse(From(v, 6))
      BY <2>2, <2>4 DEF AppendVarInt
    <3> QED
      <4>1. Slice(v, 0, 6) = Zeros(6)
        BY <2>2, <2>4
      <4>2. /\ Following(253) = 2 /\ 253 \in Byte
            /\ <<2, 6>> \in {<<2, 6>>, <<4, 4>>, <<8, 0>>}
        BY SMT DEF Following, Byte
      <4>3. Long(v, 253, 2, 6)
        BY <3>1, <4>1, <4>2 DEF Long
      <4>4. \E w \in Str : /\ AppendVarInt(v) = <<253>> \o w /\ Len(w) = Following(253)
                           /\ v = Decoded(253, w)
        BY ZenonT(60), <4>3, <1>LongForm
      <4> QED
        BY <4>2, <4>4
  <2>5. CASE /\ ~(Slice(v, 0, 7) = Zeros(7) /\ v[8] < 253)
             /\ Slice(v, 0, 6) # Zeros(6) /\ Slice(v, 0, 4) = Zeros(4)
    <3>1. AppendVarInt(v) = <<254>> \o Reverse(From(v, 4))
      BY <2>2, <2>5 DEF AppendVarInt
    <3> QED
      <4>1. Slice(v, 0, 4) = Zeros(4)
        BY <2>2, <2>5
      <4>2. /\ Following(254) = 4 /\ 254 \in Byte
            /\ <<4, 4>> \in {<<2, 6>>, <<4, 4>>, <<8, 0>>}
        BY SMT DEF Following, Byte
      <4>3. Long(v, 254, 4, 4)
        BY <3>1, <4>1, <4>2 DEF Long
      <4>4. \E w \in Str : /\ AppendVarInt(v) = <<254>> \o w /\ Len(w) = Following(254)
                           /\ v = Decoded(254, w)
        BY ZenonT(60), <4>3, <1>LongForm
      <4> QED
        BY <4>2, <4>4
  <2>6. CASE /\ ~(Slice(v, 0, 7) = Zeros(7) /\ v[8] < 253)
             /\ Slice(v, 0, 6) # Zeros(6) /\ Slice(v, 0, 4) # Zeros(4)
    <3>1. From(v, 0) = v /\ Slice(v, 0, 0) = Zeros(0)
      BY SMT, <2>1 DEF From, Slice, Zeros, Str
    <3>2. AppendVarInt(v) = <<255>> \o Reverse(From(v, 0))
      BY ZenonT(60), <2>2, <2>6, <3>1 DEF AppendVarInt
    <3> QED
      <4>1. Slice(v, 0, 0) = Zeros(0)
        BY <2>2, <3>1
      <4>2. /\ Following(255) = 8 /\ 255 \in Byte
            /\ <<8, 0>> \in {<<2, 6>>, <<4, 4>>, <<8, 0>>}
        BY SMT DEF Following, Byte
      <4>3. Long(v, 255, 8, 0)
        BY <3>2, <4>1, <4>2 DEF Long
      <4>4. \E w \in Str : /\ AppendVarInt(v) = <<255>> \o w /\ Len(w) = Following(255)
                           /\ v = Decoded(255, w)
        BY ZenonT(60), <4>3, <1>LongForm
      <4> QED
        BY <4>2, <4>4
  <2> QED
    BY <2>3, <2>4, <2>5, <2>6

\* A byte and a string behind it.
<1>Tagged.
  ASSUME NEW x \in Byte, NEW w \in Str, NEW s, s = <<x>> \o w
  PROVE  s \in Str /\ Len(s) = 1 + Len(w) /\ Len(w) \in Nat
  <2> USE <1>Tagged
  <2>1. <<x>> \in Str /\ Len(<<x>>) = 1
    BY <1>OneByte
  <2>2. <<x>> \o w \in Str /\ Len(<<x>> \o w) = Len(<<x>>) + Len(w) /\ Len(w) \in Nat
    BY <2>1, Cat
  <2> QED
    BY <2>1, <2>2

\* A varint is a string of one to nine bytes.
<1>VarIntStr.
  ASSUME NEW v \in Count
  PROVE  AppendVarInt(v) \in Str /\ Len(AppendVarInt(v)) \in 1..9
  <2> USE <1>VarIntStr
  <2>1. PICK lead \in Byte, w \in Str : AppendVarInt(v) = <<lead>> \o w /\ Len(w) = Following(lead)
    BY <1>VarIntIs
  <2>2. Following(lead) \in {0, 2, 4, 8}
    BY <1>Announces
  <2>3. AppendVarInt(v) \in Str /\ Len(AppendVarInt(v)) = 1 + Len(w)
    BY <2>1, <1>Tagged
  <2>4. 1 + Following(lead) \in 1..9
    BY SMT, <2>2
  <2> QED
    BY <2>1, <2>3, <2>4

\* Where two strings lie in a row, the second lies behind the first.
<1>AtCat.
  ASSUME NEW b \in Str, NEW off \in Nat, NEW s \in Str, NEW t \in Str, At(b, off, s \o t)
  PROVE  At(b, off, s) /\ At(b, off + Len(s), t)
  <2> USE <1>AtCat
  <2>1. /\ Len(s) \in Nat /\ Len(t) \in Nat /\ Len(s \o t) = Len(s) + Len(t)
        /\ \A i \in 1..Len(s) : (s \o t)[i] = s[i]
        /\ \A i \in 1..Len(t) : (s \o t)[Len(s) + i] = t[i]
    BY Cat
  <2>2. /\ off + Len(s \o t) <= Len(b) /\ \A i \in 1..Len(s \o t) : b[off + i] = (s \o t)[i]
    BY DEF At
  <2>3. Len(b) \in Nat
    BY SMT DEF Str
  <2>4. /\ off + Len(s) <= Len(b) /\ (off + Len(s)) + Len(t) <= Len(b)
        /\ \A i \in 1..Len(s) : i \in 1..Len(s \o t)
        /\ \A i \in 1..Len(t) : Len(s) + i \in 1..Len(s \o t) /\ off + (Len(s) + i) = (off + Len(s)) + i
    BY SMT, <2>1, <2>2, <2>3
  <2>5. \A i \in 1..Len(s) : b[off + i] = s[i]
    BY <2>1, <2>2, <2>4
  <2>6. \A i \in 1..Len(t) : b[(off + Len(s)) + i] = t[i]
    BY <2>1, <2>2, <2>4
  <2> QED
    BY <2>4, <2>5, <2>6 DEF At

\* Where a byte lies.
<1>ByteAt.
  ASSUME NEW b, NEW off, NEW x \in Byte, At(b, off, <<x>>)
  PROVE  off + 1 <= Len(b) /\ b[off + 1] = x
  <2> USE <1>ByteAt
  <2>1. <<x>> \in Str /\ Len(<<x>>) = 1 /\ <<x>>[1] = x /\ 1 \in 1..1
    BY SMT, <1>OneByte
  <2> QED
    BY <2>1 DEF At

\* Where a byte and a string behind it lie.
<1>TaggedAt.
  ASSUME NEW b \in Str, NEW off \in Nat, NEW x \in Byte, NEW w \in Str, NEW s, s = <<x>> \o w,
         At(b, off, s)
  PROVE  off + 1 <= Len(b) /\ b[off + 1] = x /\ At(b, off + 1, w)
  <2> USE <1>TaggedAt
  <2>1. <<x>> \in Str /\ Len(<<x>>) = 1
    BY <1>OneByte
  <2>2. At(b, off, <<x>> \o w)
    OBVIOUS
  <2>3. At(b, off, <<x>>) /\ At(b, off + Len(<<x>>), w)
    BY <2>1, <2>2, <1>AtCat
  <2> QED
    BY <2>1, <2>3, <1>ByteAt

\* What it returns when it does not.
<1>ReadIs.
  ASSUME NEW b, NEW off, ~Short(b, off)
  PROVE  ReadVarInt(b, off) =
           [v |-> Decoded(b[off + 1], Slice(b, off + 1, Following(b[off + 1]))),
            next |-> off + 1 + Following(b[off + 1])]
  BY <1>ReadIs DEF ReadVarInt, Short

\* What it returns when it does.
<1>ReadFails.
  ASSUME NEW b, NEW off, Short(b, off)
  PROVE  ReadVarInt(b, off) = [v |-> Zeros(8), next |-> 0]
  BY <1>ReadFails DEF ReadVarInt, Short

\* readVarInt returns what AppendVarInt has written, and where it ends.
<1>ReadAt.
  ASSUME NEW b \in Str, NEW off \in Nat, NEW v \in Count, At(b, off, AppendVarInt(v))
  PROVE  ReadVarInt(b, off) = [v |-> v, next |-> off + Len(AppendVarInt(v))]
  <2> USE <1>ReadAt
  <2>1. PICK lead \in Byte, w \in Str : /\ AppendVarInt(v) = <<lead>> \o w /\ Len(w) = Following(lead)
                                       /\ v = Decoded(lead, w)
    BY <1>VarIntIs
  <2>2. Len(AppendVarInt(v)) = 1 + Len(w) /\ Len(w) \in Nat
    BY <2>1, <1>Tagged
  <2>3. off + 1 <= Len(b) /\ b[off + 1] = lead /\ At(b, off + 1, w)
    BY <2>1, <1>TaggedAt
  <2>4. (off + 1) + Len(w) <= Len(b)
    BY <2>3 DEF At
  <2>5. Len(b) \in Nat
    BY SMT DEF Str
  <2>6. /\ ~(off >= Len(b) \/ off + 1 + Len(w) > Len(b))
        /\ off + (1 + Len(w)) = off + 1 + Len(w) /\ off + 1 \in Nat
    BY SMT, <2>2, <2>4, <2>5
  <2>7. Slice(b, off + 1, Len(w)) = w
    BY <2>3, <2>6, SliceAt
  <2>8. ReadVarInt(b, off) = [v |-> Decoded(lead, Slice(b, off + 1, Following(lead))),
                              next |-> off + 1 + Following(lead)]
    <3>1. ~Short(b, off)
      BY <2>1, <2>3, <2>6 DEF Short
    <3> QED
      BY <2>3, <3>1, <1>ReadIs
  <2> QED
    BY <2>1, <2>2, <2>6, <2>7, <2>8

\* readVarInt fails on a varint that has lost its end.
<1>ReadCut.
  ASSUME NEW whole \in Str, NEW b \in Str, NEW off \in Nat, NEW v \in Count,
         At(whole, off, AppendVarInt(v)), Begins(whole, b), Len(b) < off + Len(AppendVarInt(v))
  PROVE  ReadVarInt(b, off) = [v |-> Zeros(8), next |-> 0]
  <2> USE <1>ReadCut
  <2>1. PICK lead \in Byte, w \in Str : AppendVarInt(v) = <<lead>> \o w /\ Len(w) = Following(lead)
    BY <1>VarIntIs
  <2>2. Len(AppendVarInt(v)) = 1 + Len(w) /\ Len(w) \in Nat
    BY <2>1, <1>Tagged
  <2>3. whole[off + 1] = lead
    BY <2>1, <1>TaggedAt
  <2>4. Len(b) \in Nat
    BY SMT DEF Str
  <2>5. CASE off >= Len(b)
    BY <2>5, <1>ReadFails DEF Short
  <2>6. CASE ~(off >= Len(b))
    <3>1. off + 1 \in 1..Len(b) /\ off + 1 + Len(w) > Len(b)
      BY SMT, <2>2, <2>4, <2>6
    <3>2. b[off + 1] = lead
      BY <2>3, <3>1 DEF Begins
    <3>3. off + 1 + Following(lead) > Len(b)
      BY <2>1, <3>1
    <3> QED
      BY <3>2, <3>3, <1>ReadFails DEF Short
  <2> QED
    BY <2>5, <2>6

<1> QED
  BY <1>VarIntStr, <1>ReadAt, <1>ReadCut

-----------------------------------------------------------------------------
(* Lists of hashes, one behind the other. *)

\* f is the function that Flatten defines, on the first n slices.
Firsts(f, bs, n) == f = [i \in 0..n |-> IF i = 0 THEN <<>> ELSE f[i - 1] \o bs[i]]

\* s is the first n hashes of bs, one behind the other.
Laid(s, bs, n) ==
  /\ s \in Str /\ Len(s) = n * HashLen
  /\ \A i \in 1..n : bs[i] \in Str /\ At(s, (i - 1) * HashLen, bs[i])

\* The places of the hashes.
LEMMA Places ==
  ASSUME NEW n \in Nat
  PROVE  /\ n * HashLen \in Nat /\ n * HashLen + HashLen = (n + 1) * HashLen
         /\ 0 * HashLen = 0 /\ (n + 1) - 1 = n /\ HashLen \in Nat
         /\ \A i \in 1..(n + 1) : i \in 1..n \/ i = n + 1
         /\ \A i \in 1..n : i - 1 \in Nat
BY SMT, FramesAssumption

\* A hash is a string.
LEMMA HashIs ==
  ASSUME NEW h \in Hash
  PROVE  h \in Str /\ Len(h) = HashLen
BY FramesAssumption, Array DEF Hash

\* Flatten lays all hashes of a list one behind the other.
LEMMA FlattenLays ==
  \A bs \in Seq(Hash) : Laid(Flatten(bs), bs, Len(bs))

\* What lies in a string lies there whatever is appended.
<1>AtLeft.
  ASSUME NEW s \in Str, NEW t \in Str, NEW u \in Str, NEW off \in Nat, At(s, off, u)
  PROVE  At(s \o t, off, u)
  <2> USE <1>AtLeft
  <2>1. /\ Len(s) \in Nat /\ Len(t) \in Nat /\ Len(s \o t) = Len(s) + Len(t)
        /\ \A i \in 1..Len(s) : (s \o t)[i] = s[i]
    BY Cat
  <2>2. off + Len(u) <= Len(s) /\ \A i \in 1..Len(u) : s[off + i] = u[i]
    BY DEF At
  <2>3. Len(u) \in Nat
    BY SMT DEF Str
  <2>4. off + Len(u) <= Len(s \o t) /\ \A i \in 1..Len(u) : off + i \in 1..Len(s)
    BY SMT, <2>1, <2>2, <2>3
  <2> QED
    BY <2>1, <2>2, <2>4 DEF At

\* What is appended lies at the end.
<1>AtEnd.
  ASSUME NEW s \in Str, NEW t \in Str
  PROVE  At(s \o t, Len(s), t)
  <2> USE <1>AtEnd
  <2>1. /\ Len(s) \in Nat /\ Len(t) \in Nat /\ Len(s \o t) = Len(s) + Len(t)
        /\ \A i \in 1..Len(t) : (s \o t)[Len(s) + i] = t[i]
    BY Cat
  <2>2. Len(s) + Len(t) <= Len(s \o t)
    BY SMT, <2>1
  <2> QED
    BY <2>1, <2>2 DEF At

\* There is one.
<1>FirstsExist.
  ASSUME NEW bs, NEW n \in Nat
  PROVE  \E f : Firsts(f, bs, n)
  <2> USE <1>FirstsExist
  <2> DEFINE S == {m \in Nat : \E f : Firsts(f, bs, m)}
  <2>1. 0 \in S
    <3> DEFINE g == [i \in 0..0 |-> <<>>]
    <3>1. Firsts(g, bs, 0)
      BY SMT DEF Firsts
    <3> QED
      BY SMT, <3>1
  <2>2. ASSUME NEW m \in Nat, m \in S PROVE m + 1 \in S
    <3>1. PICK f : Firsts(f, bs, m)
      BY SMT, <2>2
    <3> DEFINE g == [i \in 0..(m + 1) |-> IF i = m + 1 THEN f[m] \o bs[m + 1] ELSE f[i]]
    <3>2. Firsts(g, bs, m + 1)
      <4>1. \A i \in 0..(m + 1) :
              \/ i = m + 1 /\ i # 0 /\ i - 1 = m /\ m \in 0..(m + 1) /\ m # m + 1
              \/ i = 0 /\ i # m + 1 /\ i \in 0..m
              \/ i # m + 1 /\ i # 0 /\ i \in 0..m /\ i - 1 \in 0..(m + 1) /\ i - 1 # m + 1
        BY SMT
      <4>2. \A i \in 0..m : f[i] = IF i = 0 THEN <<>> ELSE f[i - 1] \o bs[i]
        BY <3>1 DEF Firsts
      <4>3. \A i \in 0..(m + 1) : g[i] = IF i = m + 1 THEN f[m] \o bs[m + 1] ELSE f[i]
        OBVIOUS
      <4>4. g = [i \in 0..(m + 1) |-> g[i]]
        OBVIOUS
      <4> HIDE DEF g
      <4>5. ASSUME NEW i \in 0..(m + 1) PROVE g[i] = IF i = 0 THEN <<>> ELSE g[i - 1] \o bs[i]
        BY <4>1, <4>2, <4>3
      <4> QED
        BY <4>4, <4>5 DEF Firsts
    <3> QED
      BY SMT, <3>2
  <2> HIDE DEF S
  <2>3. Nat \subseteq S
    BY <2>1, <2>2, SetInduction
  <2> QED
    BY <2>3 DEF S

\* Flatten is its last value.
<1>FlattenDef.
  ASSUME NEW bs, Len(bs) \in Nat
  PROVE  \E f : Firsts(f, bs, Len(bs)) /\ Flatten(bs) = f[Len(bs)]
  <2> USE <1>FlattenDef
  <2>1. \E f : Firsts(f, bs, Len(bs))
    BY <1>FirstsExist
  <2> QED
    BY <2>1 DEF Flatten, Firsts

\* One more hash.
<1>LaidMore.
  ASSUME NEW s, NEW bs, NEW n \in Nat, bs[n + 1] \in Hash, Laid(s, bs, n)
  PROVE  Laid(s \o bs[n + 1], bs, n + 1)
  <2> USE <1>LaidMore
  <2> DEFINE h == bs[n + 1]
             t == s \o h
  <2>1. /\ s \in Str /\ Len(s) = n * HashLen
        /\ \A i \in 1..n : bs[i] \in Str /\ At(s, (i - 1) * HashLen, bs[i])
    BY DEF Laid
  <2>2. h \in Str /\ Len(h) = HashLen
    BY HashIs
  <2>3. t \in Str /\ Len(t) = (n + 1) * HashLen
    <3>1. t \in Str /\ Len(t) = Len(s) + Len(h)
      BY <2>1, <2>2, Cat
    <3> QED
      BY <2>1, <2>2, <3>1, Places
  <2>4. ASSUME NEW i \in 1..n PROVE bs[i] \in Str /\ At(t, (i - 1) * HashLen, bs[i])
    <3>1. (i - 1) * HashLen \in Nat
      BY Places
    <3> QED
      BY <2>1, <2>2, <3>1, <1>AtLeft
  <2>5. At(t, ((n + 1) - 1) * HashLen, bs[n + 1])
    <3>1. At(t, Len(s), h)
      BY <2>1, <2>2, <1>AtEnd
    <3>2. (n + 1) - 1 = n
      BY SMT
    <3> QED
      BY <2>1, <3>1, <3>2
  <2>6. ASSUME NEW i \in 1..(n + 1) PROVE bs[i] \in Str /\ At(t, (i - 1) * HashLen, bs[i])
    <3>1. i \in 1..n \/ i = n + 1
      BY SMT
    <3> QED
      BY <2>2, <2>4, <2>5, <3>1
  <2> QED
    BY <2>3, <2>6 DEF Laid

\* Flatten lays all hashes of a list one behind the other.
<1>FlattenLays.
  ASSUME NEW bs \in Seq(Hash)
  PROVE  Laid(Flatten(bs), bs, Len(bs))
  <2> USE <1>FlattenLays
  <2>1. Len(bs) \in Nat /\ \A i \in 1..Len(bs) : bs[i] \in Hash
    BY SMT
  <2>2. PICK f : Firsts(f, bs, Len(bs)) /\ Flatten(bs) = f[Len(bs)]
    BY <2>1, <1>FlattenDef
  <2>3. \A i \in 0..Len(bs) : f[i] = IF i = 0 THEN <<>> ELSE f[i - 1] \o bs[i]
    BY <2>2 DEF Firsts
  <2> DEFINE S == {n \in Nat : n <= Len(bs) => Laid(f[n], bs, n)}
  <2>4. 0 \in S
    <3>1. 0 \in 0..Len(bs) /\ 0 \in Nat /\ \A i \in 1..0 : FALSE
      BY SMT, <2>1
    <3>2. f[0] = <<>> /\ <<>> \in Str /\ Len(<<>>) = 0
      BY SMT, <2>3, <3>1 DEF Str
    <3>3. Laid(f[0], bs, 0)
      BY <3>1, <3>2, Places DEF Laid
    <3> QED
      BY <3>1, <3>3
  <2>5. ASSUME NEW n \in Nat, n \in S PROVE n + 1 \in S
    <3>1. n + 1 \in Nat
      BY SMT
    <3>2. ASSUME n + 1 <= Len(bs) PROVE Laid(f[n + 1], bs, n + 1)
      <4>1. n <= Len(bs) /\ n + 1 \in 1..Len(bs) /\ n + 1 \in 0..Len(bs) /\ n + 1 # 0 /\ (n + 1) - 1 = n
        BY SMT, <2>1, <3>2
      <4>2. f[n + 1] = f[n] \o bs[n + 1]
        <5> DEFINE m == n + 1
        <5>1. m \in 0..Len(bs) /\ m # 0 /\ m - 1 = n
          BY <4>1
        <5> HIDE DEF m
        <5>2. f[m] = f[n] \o bs[m]
          BY <2>3, <5>1
        <5> QED
          BY <5>2 DEF m
      <4>3. Laid(f[n], bs, n) /\ bs[n + 1] \in Hash
        BY <2>1, <2>5, <4>1
      <4> QED
        BY <4>2, <4>3, <1>LaidMore
    <3> QED
      BY <3>1, <3>2
  <2> HIDE DEF S
  <2>6. Nat \subseteq S
    BY <2>4, <2>5, SetInduction
  <2>7. Len(bs) <= Len(bs)
    BY SMT, <2>1
  <2> QED
    BY <2>1, <2>2, <2>6, <2>7 DEF S

<1> QED
  BY <1>FlattenLays

-----------------------------------------------------------------------------
(* Lengths and transactions. *)

\* A count of which the last three bytes are x, y and z and the others zero.
EndsIn(v, x, y, z) ==
  v \in Count /\ v[6] = x /\ v[7] = y /\ v[8] = z /\ \A i \in 1..5 : v[i] = 0

\* A length is read back from its eight bytes.
LEMMA U64Is ==
  \A n \in Nat : n < MaxLen => U64(n) \in Count /\ IntOf(U64(n)) = n

\* Division by 256.
<1>Divided.
  ASSUME NEW n \in Nat
  PROVE  n \div 256 \in Nat /\ n % 256 \in Byte /\ (n \div 256) * 256 + (n % 256) = n
  BY SMT, <1>Divided DEF Byte

\* Eight bytes are a count.
<1>CountMade.
  ASSUME NEW v \in Str, Len(v) = 8
  PROVE  v \in Count
  BY SMT, <1>CountMade DEF Str, Count

\* Five zeros before them make one.
<1>EightBytes.
  ASSUME NEW x \in Byte, NEW y \in Byte, NEW z \in Byte
  PROVE  EndsIn(Zeros(5) \o <<x, y, z>>, x, y, z)
  <2> USE <1>EightBytes
  <2> DEFINE s == Zeros(5)
             t == <<x, y, z>>
             v == s \o t
  <2>1. s \in Str /\ Len(s) = 5
    BY ZerosIs
  <2>0. \A i \in 1..5 : s[i] = 0
    BY DEF Zeros
  <2>2. t \in Str /\ Len(t) = 3 /\ t[1] = x /\ t[2] = y /\ t[3] = z
    BY SMT DEF Str
  <2> HIDE DEF s, t
  <2>3. /\ v \in Str /\ Len(v) = Len(s) + Len(t)
        /\ \A i \in 1..Len(s) : v[i] = s[i]
        /\ \A i \in 1..Len(t) : v[Len(s) + i] = t[i]
    BY <2>1, <2>2, Cat
  <2> HIDE DEF v
  <2>4. {1, 2, 3} \subseteq 1..3 /\ 5 + 1 = 6 /\ 5 + 2 = 7 /\ 5 + 3 = 8
    BY SMT
  <2>5. \A i \in 1..3 : v[5 + i] = t[i]
    BY <2>1, <2>2, <2>3
  <2>6. v[6] = x /\ v[7] = y /\ v[8] = z
    BY <2>2, <2>4, <2>5
  <2>7. v \in Count
    <3>1. Len(v) = 8
      BY <2>1, <2>2, <2>3, <2>4
    <3> QED
      BY <2>3, <3>1, <1>CountMade
  <2>8. \A i \in 1..5 : v[i] = 0
    BY <2>0, <2>1, <2>3
  <2> QED
    BY <2>6, <2>7, <2>8 DEF v, s, t, EndsIn

\* A length is read back from its eight bytes.
<1>U64Is.
  ASSUME NEW n \in Nat, n < MaxLen
  PROVE  U64(n) \in Count /\ IntOf(U64(n)) = n
  <2> USE <1>U64Is
  <2> DEFINE q == n \div 256
             z == n % 256
             x == q \div 256
             y == q % 256
  <2>1. q \in Nat /\ z \in Byte /\ q * 256 + z = n
    BY SMT, <1>Divided
  <2>2. U64(n) = Zeros(5) \o <<x, y, z>>
    BY SMT DEF U64
  <2> HIDE DEF q, z
  <2>3. x \in Nat /\ y \in Byte /\ x * 256 + y = q
    BY SMT, <2>1, <1>Divided
  <2> HIDE DEF x, y
  <2>4. x \in Byte
    BY SMT, <2>1, <2>3 DEF Byte, MaxLen
  <2>5. EndsIn(U64(n), x, y, z)
    <3>1. x \in Byte /\ y \in Byte /\ z \in Byte
      BY SMT, <2>1, <2>3, <2>4
    <3>2. EndsIn(Zeros(5) \o <<x, y, z>>, x, y, z)
      BY <3>1, <1>EightBytes
    <3> QED
      BY <3>2, <2>2
  <2> QED
    BY SMT, <2>1, <2>3, <2>5 DEF IntOf, EndsIn

<1> QED
  BY <1>U64Is

\* A count is eight bytes.
LEMMA CountIs ==
  ASSUME NEW v \in Count
  PROVE  v \in Str /\ Len(v) = 8
<1>1. 8 \in Nat
  BY SMT
<1> QED
  BY <1>1, Array DEF Count

\* c is one transaction, which TxSize spans.
Tx(c) == c \in Str /\ Len(c) \in Nat \ {0} /\ TxSize(c) = Len(c)

\* TxSize measures a transaction wherever it lies, and finds that one lost its end.
LEMMA TxMeasured ==
  /\ \A c : Tx(c) => \A b \in Str, off \in Nat : At(b, off, c) => TxSize(From(b, off)) = Len(c)
  /\ \A c : Tx(c) => \A whole \in Str, b \in Str, off \in Nat :
       At(whole, off, c) /\ Begins(whole, b) /\ off <= Len(b) /\ Len(b) < off + Len(c)
       => TxSize(From(b, off)) = 0

\* Its first byte is one less than its length.
<1>TxIs.
  ASSUME NEW c, Tx(c)
  PROVE  /\ c \in Str /\ c[1] \in Nat /\ Len(c) = c[1] + 1 /\ 1 \in 1..Len(c)
         /\ \A n \in Nat : Len(c) <= n => c[1] < n
         /\ \A n \in Nat : n < Len(c) => ~(c[1] < n)
  <2> USE <1>TxIs
  <2>1. c \in Str /\ Len(c) \in Nat \ {0} /\ TxSize(c) = Len(c)
    BY DEF Tx
  <2>2. c[1] \in Byte /\ c # <<>> /\ 1 \in 1..Len(c)
    BY SMT, <2>1 DEF Str
  <2>3. Len(c) = c[1] + 1
    BY <2>1, <2>2 DEF TxSize
  <2> DEFINE x == c[1]
             m == Len(c)
  <2>4. x \in Byte /\ m = x + 1
    BY <2>2, <2>3
  <2> HIDE DEF x, m
  <2>5. x \in Nat /\ (\A n \in Nat : m <= n => x < n) /\ (\A n \in Nat : n < m => ~(x < n))
    BY SMT, <2>4 DEF Byte
  <2> QED
    BY <2>1, <2>2, <2>3, <2>5 DEF x, m

\* TxSize finds the end of a transaction whatever follows it.
<1>TxWhole.
  ASSUME NEW c, Tx(c), NEW b \in Str, Begins(b, c)
  PROVE  TxSize(b) = Len(c)
  <2> USE <1>TxWhole
  <2>1. /\ c \in Str /\ Len(c) = c[1] + 1 /\ 1 \in 1..Len(c)
        /\ \A n \in Nat : Len(c) <= n => c[1] < n
    BY <1>TxIs
  <2>2. b[1] = c[1] /\ Len(c) <= Len(b)
    BY <2>1 DEF Begins
  <2>3. Len(b) \in Nat /\ (b = <<>> => Len(b) = 0) /\ (Len(c) <= 0 => FALSE)
    BY SMT, <2>1 DEF Str
  <2>4. b # <<>> /\ b[1] < Len(b)
    BY <2>1, <2>2, <2>3
  <2> QED
    BY <2>1, <2>2, <2>4 DEF TxSize

\* It fails on one that has lost its end.
<1>TxCut.
  ASSUME NEW c, Tx(c), NEW b \in Str, Begins(c, b), Len(b) < Len(c)
  PROVE  TxSize(b) = 0
  <2> USE <1>TxCut
  <2>1. \A n \in Nat : n < Len(c) => ~(c[1] < n)
    BY <1>TxIs
  <2>2. CASE b = <<>>
    BY <2>2 DEF TxSize
  <2>3. CASE b # <<>>
    <3>1. Len(b) \in Nat /\ 1 \in 1..Len(b)
      BY SMT, <2>3 DEF Str
    <3>2. b[1] = c[1]
      BY <3>1 DEF Begins
    <3>3. ~(b[1] < Len(b))
      BY <2>1, <3>1, <3>2
    <3> QED
      BY <3>3 DEF TxSize
  <2> QED
    BY <2>2, <2>3

\* Where a transaction lies, TxSize finds its end.
<1>TxAt.
  ASSUME NEW c, Tx(c), NEW b \in Str, NEW off \in Nat, At(b, off, c)
  PROVE  TxSize(From(b, off)) = Len(c)
  <2> USE <1>TxAt
  <2>1. c \in Str /\ Len(c) \in Nat
    BY SMT DEF Tx
  <2>2. off + Len(c) <= Len(b) /\ \A i \in 1..Len(c) : b[off + i] = c[i]
    BY DEF At
  <2>3. Len(b) \in Nat
    BY SMT DEF Str
  <2>4. off <= Len(b) /\ Len(c) <= Len(b) - off /\ \A i \in 1..Len(c) : i \in 1..(Len(b) - off)
    BY SMT, <2>1, <2>2, <2>3
  <2>5. /\ From(b, off) \in Str /\ Len(From(b, off)) = Len(b) - off
        /\ \A i \in 1..(Len(b) - off) : From(b, off)[i] = b[off + i]
    BY <2>4, FromIs
  <2>6. Begins(From(b, off), c)
    BY <2>2, <2>4, <2>5 DEF Begins
  <2> QED
    BY <2>5, <2>6, <1>TxWhole

\* Where one lies that has lost its end, TxSize fails.
<1>TxCutAt.
  ASSUME NEW c, Tx(c), NEW whole \in Str, NEW b \in Str, NEW off \in Nat, At(whole, off, c),
         Begins(whole, b), off <= Len(b), Len(b) < off + Len(c)
  PROVE  TxSize(From(b, off)) = 0
  <2> USE <1>TxCutAt
  <2>1. c \in Str /\ Len(c) \in Nat
    BY SMT DEF Tx
  <2>2. \A i \in 1..Len(c) : whole[off + i] = c[i]
    BY DEF At
  <2>3. \A i \in 1..Len(b) : whole[i] = b[i]
    BY DEF Begins
  <2>4. /\ From(b, off) \in Str /\ Len(From(b, off)) = Len(b) - off
        /\ \A i \in 1..(Len(b) - off) : From(b, off)[i] = b[off + i]
    BY FromIs
  <2>5. Len(b) \in Nat
    BY SMT DEF Str
  <2>6. /\ Len(b) - off < Len(c) /\ Len(b) - off <= Len(c)
        /\ \A i \in 1..(Len(b) - off) : i \in 1..Len(c) /\ off + i \in 1..Len(b)
    BY SMT, <2>1, <2>5
  <2>7. \A i \in 1..(Len(b) - off) : c[i] = From(b, off)[i]
    BY <2>2, <2>3, <2>4, <2>6
  <2>8. Begins(c, From(b, off)) /\ Len(From(b, off)) < Len(c)
    BY <2>4, <2>6, <2>7 DEF Begins
  <2> QED
    BY <2>4, <2>8, <1>TxCut

<1> QED
  BY <1>TxAt, <1>TxCutAt

-----------------------------------------------------------------------------
(* Strings of nine parts, as a frame and a Teranode block are. *)

\* What lies in a string lies in what it begins with, if that is long enough.
LEMMA AtCut ==
  ASSUME NEW w \in Str, NEW b \in Str, NEW s \in Str, NEW off \in Nat, At(w, off, s),
         Begins(w, b), off + Len(s) <= Len(b)
  PROVE  At(b, off, s)
<1>1. \A i \in 1..Len(s) : w[off + i] = s[i]
  BY DEF At
<1>2. \A i \in 1..Len(b) : w[i] = b[i]
  BY DEF Begins
<1>3. Len(s) \in Nat /\ Len(b) \in Nat
  BY SMT DEF Str
<1>4. \A i \in 1..Len(s) : off + i \in 1..Len(b)
  BY SMT, <1>3
<1> QED
  BY <1>1, <1>2, <1>4 DEF At

\* What lies in a part lies in the whole.
LEMMA AtWithin ==
  ASSUME NEW w \in Str, NEW s \in Str, NEW u \in Str, NEW off \in Nat, NEW k \in Nat,
         At(w, off, s), At(s, k, u)
  PROVE  At(w, off + k, u)
<1>1. off + Len(s) <= Len(w) /\ \A i \in 1..Len(s) : w[off + i] = s[i]
  BY DEF At
<1>2. k + Len(u) <= Len(s) /\ \A i \in 1..Len(u) : s[k + i] = u[i]
  BY DEF At
<1>3. Len(w) \in Nat /\ Len(s) \in Nat /\ Len(u) \in Nat
  BY SMT DEF Str
<1>4. /\ (off + k) + Len(u) <= Len(w)
      /\ \A i \in 1..Len(u) : k + i \in 1..Len(s) /\ off + (k + i) = (off + k) + i
  BY SMT, <1>1, <1>2, <1>3
<1>5. \A i \in 1..Len(u) : w[(off + k) + i] = u[i]
  BY <1>1, <1>2, <1>4
<1> QED
  BY <1>4, <1>5 DEF At

\* w is nine parts, one behind the other: part k ends behind p[k] bytes.
Nine(w, p, a, b, c, d, e, f, g, h, i) ==
  /\ w \in Str /\ p \in [1..9 -> Nat] /\ Len(w) = p[9]
  /\ p[1] = Len(a)
  /\ p[2] = p[1] + Len(b)
  /\ p[3] = p[2] + Len(c)
  /\ p[4] = p[3] + Len(d)
  /\ p[5] = p[4] + Len(e)
  /\ p[6] = p[5] + Len(f)
  /\ p[7] = p[6] + Len(g)
  /\ p[8] = p[7] + Len(h)
  /\ p[9] = p[8] + Len(i)
  /\ At(w, 0, a)
  /\ At(w, p[1], b)
  /\ At(w, p[2], c)
  /\ At(w, p[3], d)
  /\ At(w, p[4], e)
  /\ At(w, p[5], f)
  /\ At(w, p[6], g)
  /\ At(w, p[7], h)
  /\ At(w, p[8], i)

\* Nine strings, appended one by one.
LEMMA NineParts ==
  \A a \in Str, b \in Str, c \in Str, d \in Str, e \in Str, f \in Str, g \in Str, h \in Str,
     i \in Str : \A w : w = a \o b \o c \o d \o e \o f \o g \o h \o i
     => \E p : Nine(w, p, a, b, c, d, e, f, g, h, i)

\* What begins with two strings in a row begins with the first and has the second behind it.
<1>BeginsCat.
  ASSUME NEW b \in Str, NEW s \in Str, NEW t \in Str, Begins(b, s \o t)
  PROVE  Begins(b, s) /\ At(b, Len(s), t)
  <2> USE <1>BeginsCat
  <2>1. /\ Len(s) \in Nat /\ Len(t) \in Nat /\ Len(s \o t) = Len(s) + Len(t)
        /\ \A i \in 1..Len(s) : (s \o t)[i] = s[i]
        /\ \A i \in 1..Len(t) : (s \o t)[Len(s) + i] = t[i]
    BY Cat
  <2>2. /\ Len(s \o t) <= Len(b) /\ Len(b) \in Nat
        /\ \A i \in 1..Len(s \o t) : b[i] = (s \o t)[i]
    BY SMT DEF Begins, Str
  <2> HIDE DEF Str
  <2>3. Begins(b, s)
    BY SMT, <2>1, <2>2 DEF Begins
  <2>4. At(b, Len(s), t)
    <3>1. Len(s) + Len(t) <= Len(b)
      BY <2>1, <2>2
    <3>2. ASSUME NEW i \in 1..Len(t) PROVE b[Len(s) + i] = t[i]
      <4>1. Len(s) + i \in 1..Len(s \o t)
        BY SMT, <2>1
      <4> QED
        BY <2>1, <2>2, <4>1
    <3> QED
      BY <3>1, <3>2 DEF At
  <2> QED
    BY <2>3, <2>4

\* What a string begins with lies at its start.
<1>BeginsAt.
  ASSUME NEW w, NEW s \in Str, Begins(w, s)
  PROVE  At(w, 0, s)
  <2> USE <1>BeginsAt
  <2>1. Len(s) \in Nat
    BY SMT DEF Str
  <2>2. 0 + Len(s) = Len(s) /\ \A i \in 1..Len(s) : 0 + i = i
    BY SMT, <2>1
  <2> QED
    BY <2>2 DEF At, Begins

\* Nine strings, appended one by one.
<1>NineParts.
  ASSUME NEW a \in Str, NEW b \in Str, NEW c \in Str, NEW d \in Str, NEW e \in Str,
         NEW f \in Str, NEW g \in Str, NEW h \in Str, NEW i \in Str,
         NEW w, w = a \o b \o c \o d \o e \o f \o g \o h \o i
  PROVE  \E p : Nine(w, p, a, b, c, d, e, f, g, h, i)
  <2> USE <1>NineParts
  <2> DEFINE s1 == a
             s2 == s1 \o b
             s3 == s2 \o c
             s4 == s3 \o d
             s5 == s4 \o e
             s6 == s5 \o f
             s7 == s6 \o g
             s8 == s7 \o h
             s9 == s8 \o i
  <2>0. w = s9
    OBVIOUS
  <2>1. s1 \in Str /\ Len(s1) = Len(a)
    OBVIOUS
  <2> HIDE DEF s1
  <2>2. s2 \in Str /\ Len(s2) = Len(s1) + Len(b)
    BY <2>1, Cat
  <2> HIDE DEF s2
  <2>3. s3 \in Str /\ Len(s3) = Len(s2) + Len(c)
    BY <2>2, Cat
  <2> HIDE DEF s3
  <2>4. s4 \in Str /\ Len(s4) = Len(s3) + Len(d)
    BY <2>3, Cat
  <2> HIDE DEF s4
  <2>5. s5 \in Str /\ Len(s5) = Len(s4) + Len(e)
    BY <2>4, Cat
  <2> HIDE DEF s5
  <2>6. s6 \in Str /\ Len(s6) = Len(s5) + Len(f)
    BY <2>5, Cat
  <2> HIDE DEF s6
  <2>7. s7 \in Str /\ Len(s7) = Len(s6) + Len(g)
    BY <2>6, Cat
  <2> HIDE DEF s7
  <2>8. s8 \in Str /\ Len(s8) = Len(s7) + Len(h)
    BY <2>7, Cat
  <2> HIDE DEF s8
  <2>9. s9 \in Str /\ Len(s9) = Len(s8) + Len(i)
    BY <2>8, Cat
  <2> HIDE DEF s9
  <2>10. w \in Str /\ Begins(w, s9)
    BY <2>0, <2>9, BeginsWhole
  <2>11. Begins(w, s8) /\ At(w, Len(s8), i)
    BY <2>8, <2>10, <2>10, <1>BeginsCat DEF s9
  <2>12. Begins(w, s7) /\ At(w, Len(s7), h)
    BY <2>7, <2>10, <2>11, <1>BeginsCat DEF s8
  <2>13. Begins(w, s6) /\ At(w, Len(s6), g)
    BY <2>6, <2>10, <2>12, <1>BeginsCat DEF s7
  <2>14. Begins(w, s5) /\ At(w, Len(s5), f)
    BY <2>5, <2>10, <2>13, <1>BeginsCat DEF s6
  <2>15. Begins(w, s4) /\ At(w, Len(s4), e)
    BY <2>4, <2>10, <2>14, <1>BeginsCat DEF s5
  <2>16. Begins(w, s3) /\ At(w, Len(s3), d)
    BY <2>3, <2>10, <2>15, <1>BeginsCat DEF s4
  <2>17. Begins(w, s2) /\ At(w, Len(s2), c)
    BY <2>2, <2>10, <2>16, <1>BeginsCat DEF s3
  <2>18. Begins(w, s1) /\ At(w, Len(s1), b)
    BY <2>1, <2>10, <2>17, <1>BeginsCat DEF s2
  <2>19. At(w, 0, a)
    BY <2>18, <1>BeginsAt DEF s1
  <2> DEFINE p == <<Len(s1), Len(s2), Len(s3), Len(s4), Len(s5), Len(s6), Len(s7), Len(s8), Len(s9)>>
  <2>20. p \in [1..9 -> Nat]
    <3>1. Len(s1) \in Nat /\ Len(s2) \in Nat /\ Len(s3) \in Nat /\ Len(s4) \in Nat /\ Len(s5) \in Nat
          /\ Len(s6) \in Nat /\ Len(s7) \in Nat /\ Len(s8) \in Nat /\ Len(s9) \in Nat
      BY SMTT(30), <2>1, <2>2, <2>3, <2>4, <2>5, <2>6, <2>7, <2>8, <2>9 DEF Str
    <3> QED
      BY SMT, <3>1
  <2>21. /\ p[1] = Len(s1) /\ p[2] = Len(s2) /\ p[3] = Len(s3) /\ p[4] = Len(s4) /\ p[5] = Len(s5)
         /\ p[6] = Len(s6) /\ p[7] = Len(s7) /\ p[8] = Len(s8) /\ p[9] = Len(s9)
    BY SMTT(30)
  <2> HIDE DEF p
  <2> QED
    BY <2>0, <2>1, <2>2, <2>3, <2>4, <2>5, <2>6, <2>7, <2>8, <2>9, <2>10, <2>11, <2>12, <2>13,
       <2>14, <2>15, <2>16, <2>17, <2>18, <2>19, <2>20, <2>21 DEF Nine

<1> QED
  BY <1>NineParts

-----------------------------------------------------------------------------
(* Teranode's serialization. *)

\* The parts of a block.
LEMMA BlockIs ==
  ASSUME NEW x \in Block144
  PROVE  /\ x.header \in Str /\ Len(x.header) = HeaderLen
         /\ x.txCount \in Count /\ x.size \in Count /\ x.height \in Count
         /\ x.roots \in Seq(Hash) /\ Len(x.roots) \in Nat /\ Len(x.roots) < MaxLen
         /\ x.coinbase \in Str /\ Tx(x.coinbase) /\ Len(x.coinbase) >= 10
         /\ x.bump \in Str /\ Len(x.bump) \in Nat /\ Len(x.bump) < MaxLen
<1>1. /\ x \in [header : [1..HeaderLen -> Byte], txCount : Count, size : Count, roots : Seq(Hash),
                coinbase : Seq(Byte), height : Count, bump : Seq(Byte)]
      /\ TxSize(x.coinbase) = Len(x.coinbase) /\ Len(x.coinbase) >= 10
      /\ Len(x.roots) < MaxLen /\ Len(x.bump) < MaxLen
  BY DEF Block144
<1>2. /\ x.header \in [1..HeaderLen -> Byte] /\ x.txCount \in Count /\ x.size \in Count
      /\ x.roots \in Seq(Hash) /\ x.coinbase \in Str /\ x.height \in Count /\ x.bump \in Str
  BY SMT, <1>1 DEF Str
<1>3. x.header \in Str /\ Len(x.header) = HeaderLen
  BY <1>2, FramesAssumption, Array
<1>4. Len(x.roots) \in Nat
  BY SMT, <1>2
<1>5. Len(x.bump) \in Nat /\ Len(x.coinbase) \in Nat \ {0}
  BY SMT, <1>1, <1>2 DEF Str
<1> QED
  BY <1>1, <1>2, <1>3, <1>4, <1>5 DEF Tx

\* A block as Teranode writes it.
Wire(x) ==
  x.header \o AppendVarInt(x.txCount) \o AppendVarInt(x.size) \o AppendVarInt(U64(Len(x.roots)))
    \o Flatten(x.roots) \o x.coinbase \o AppendVarInt(x.height)
    \o AppendVarInt(U64(Len(x.bump))) \o x.bump

\* Where its parts end.
Layout(x, p) ==
  Nine(Wire(x), p, x.header, AppendVarInt(x.txCount), AppendVarInt(x.size),
       AppendVarInt(U64(Len(x.roots))), Flatten(x.roots), x.coinbase, AppendVarInt(x.height),
       AppendVarInt(U64(Len(x.bump))), x.bump)

\* They do, somewhere.
LEMMA WireIs ==
  ASSUME NEW x \in Block144
  PROVE  \E p : Layout(x, p)
<1>1. /\ x.header \in Str /\ x.txCount \in Count /\ x.size \in Count /\ x.height \in Count
      /\ x.roots \in Seq(Hash) /\ x.coinbase \in Str /\ x.bump \in Str
      /\ U64(Len(x.roots)) \in Count /\ U64(Len(x.bump)) \in Count
  BY BlockIs, U64Is
<1>2. /\ AppendVarInt(x.txCount) \in Str /\ AppendVarInt(x.size) \in Str
      /\ AppendVarInt(U64(Len(x.roots))) \in Str /\ AppendVarInt(x.height) \in Str
      /\ AppendVarInt(U64(Len(x.bump))) \in Str
  BY <1>1, VarIntCodec
<1>3. Flatten(x.roots) \in Str
  BY <1>1, FlattenLays DEF Laid
<1> QED
  BY <1>1, <1>2, <1>3, NineParts DEF Layout, Wire

\* b is the beginning of a block that Teranode wrote, or all of it.
Cut(x, p, b) == x \in Block144 /\ Layout(x, p) /\ b \in Str /\ Begins(Wire(x), b)

\* What readVarInt makes of a varint of value v, in a beginning b of w, that starts
\* behind off bytes and ends behind end.
Reads(b, off, end, v) ==
  /\ end <= Len(b) => ReadVarInt(b, off) = [v |-> v, next |-> end]
  /\ Len(b) < end => ReadVarInt(b, off) = [v |-> Zeros(8), next |-> 0]

\* One end is not behind another.
Upon(k, l) == k \in Nat /\ l \in Nat /\ k <= l

\* What reaches the later end reaches the earlier one.
LEMMA Reaches ==
  ASSUME NEW k, NEW l, Upon(k, l), NEW n \in Nat
  PROVE  (l <= n => k <= n) /\ (n < k => n < l)
BY SMT DEF Upon

\* Nine ends: five of varints, one of a list, one of a transaction and one of a BUMP.
Ending(p1, p2, p3, p4, p5, p6, p7, p8, p9, t, s, c, r, l, h, k, m) ==
  /\ p1 \in Nat /\ p2 \in Nat /\ p3 \in Nat /\ p4 \in Nat /\ p5 \in Nat
  /\ p6 \in Nat /\ p7 \in Nat /\ p8 \in Nat /\ p9 \in Nat
  /\ t \in 1..9 /\ s \in 1..9 /\ c \in 1..9 /\ r \in Nat
  /\ l \in Nat /\ l >= 10 /\ h \in 1..9 /\ k \in 1..9 /\ m \in Nat
  /\ p1 = HeaderLen /\ p2 = p1 + t /\ p3 = p2 + s /\ p4 = p3 + c /\ p5 = p4 + r
  /\ p6 = p5 + l /\ p7 = p6 + h /\ p8 = p7 + k /\ p9 = p8 + m

\* They are in order, none but the first is 0, and a block without BUMP is not too
\* short.
InOrder(p1, p2, p3, p4, p5, p6, p7, p8, p9) ==
  /\ Upon(p1, p2) /\ Upon(p2, p3) /\ Upon(p3, p4) /\ Upon(p4, p5) /\ Upon(p5, p6)
  /\ Upon(p6, p7) /\ Upon(p7, p8) /\ Upon(p8, p9)
  /\ p2 # 0 /\ p3 # 0 /\ p4 # 0 /\ p7 # 0 /\ p8 # 0 /\ p7 < p8
  /\ MinTeranode \in Nat /\ Upon(MinTeranode, p7)

\* The parts of a block and of a beginning of it.
Ordered(x, p, b) ==
  /\ p[5] = p[4] + Len(x.roots) * HashLen
  /\ p[6] = p[5] + Len(x.coinbase) /\ p[9] = p[8] + Len(x.bump)
  /\ InOrder(p[1], p[2], p[3], p[4], p[5], p[6], p[7], p[8], p[9])
  /\ p[1] = HeaderLen /\ Len(b) \in Nat /\ Len(b) <= p[9] /\ Len(Wire(x)) = p[9]

\* They do so in every block.
LEMMA OrderedIs ==
  \A x, p, b : Cut(x, p, b) => Ordered(x, p, b)

\* Nine ends are in order.
<1>Ends.
  ASSUME NEW p1, NEW p2, NEW p3, NEW p4, NEW p5, NEW p6, NEW p7, NEW p8, NEW p9,
         NEW t, NEW s, NEW c, NEW r, NEW l, NEW h, NEW k, NEW m,
         Ending(p1, p2, p3, p4, p5, p6, p7, p8, p9, t, s, c, r, l, h, k, m)
  PROVE  InOrder(p1, p2, p3, p4, p5, p6, p7, p8, p9)
  BY SMT, <1>Ends DEF Ending, InOrder, Upon, MinTeranode

\* The nine ends.
<1>NineNat.
  ASSUME NEW p \in [1..9 -> Nat]
  PROVE  /\ p[1] \in Nat /\ p[2] \in Nat /\ p[3] \in Nat /\ p[4] \in Nat /\ p[5] \in Nat
         /\ p[6] \in Nat /\ p[7] \in Nat /\ p[8] \in Nat /\ p[9] \in Nat
  <2> USE <1>NineNat
  <2>1. {1, 2, 3, 4, 5, 6, 7, 8, 9} \subseteq 1..9
    BY SMT
  <2>2. \A k \in 1..9 : p[k] \in Nat
    OBVIOUS
  <2> QED
    BY <2>1, <2>2

\* They do so in every block.
<1>OrderedIs.
  ASSUME NEW x, NEW p, NEW b, Cut(x, p, b)
  PROVE  Ordered(x, p, b)
  <2> USE <1>OrderedIs
  <2>1. x \in Block144 /\ Layout(x, p) /\ b \in Str /\ Begins(Wire(x), b)
    BY DEF Cut
  <2>2. /\ Len(x.header) = HeaderLen /\ x.txCount \in Count /\ x.size \in Count /\ x.height \in Count
        /\ U64(Len(x.roots)) \in Count /\ U64(Len(x.bump)) \in Count
        /\ x.roots \in Seq(Hash) /\ Len(x.roots) \in Nat /\ x.coinbase \in Str
        /\ Len(x.coinbase) >= 10 /\ Len(x.bump) \in Nat
    BY <2>1, BlockIs, U64Is
  <2>3. /\ p \in [1..9 -> Nat] /\ p[1] = Len(x.header)
        /\ p[2] = p[1] + Len(AppendVarInt(x.txCount)) /\ p[3] = p[2] + Len(AppendVarInt(x.size))
        /\ p[4] = p[3] + Len(AppendVarInt(U64(Len(x.roots)))) /\ p[5] = p[4] + Len(Flatten(x.roots))
        /\ p[6] = p[5] + Len(x.coinbase) /\ p[7] = p[6] + Len(AppendVarInt(x.height))
        /\ p[8] = p[7] + Len(AppendVarInt(U64(Len(x.bump)))) /\ p[9] = p[8] + Len(x.bump)
        /\ Len(Wire(x)) = p[9]
    BY <2>1 DEF Layout, Nine
  <2>4. /\ Len(AppendVarInt(x.txCount)) \in 1..9 /\ Len(AppendVarInt(x.size)) \in 1..9
        /\ Len(AppendVarInt(U64(Len(x.roots)))) \in 1..9 /\ Len(AppendVarInt(x.height)) \in 1..9
        /\ Len(AppendVarInt(U64(Len(x.bump)))) \in 1..9
    BY <2>2, VarIntCodec
  <2>5. Len(Flatten(x.roots)) = Len(x.roots) * HashLen /\ Len(x.roots) * HashLen \in Nat
    BY <2>2, FlattenLays, Places DEF Laid
  <2>6. Len(x.coinbase) \in Nat /\ Len(b) \in Nat
    BY SMT, <2>1, <2>2 DEF Str
  <2>7. Len(b) <= Len(Wire(x))
    BY <2>1 DEF Begins
  <2>8. /\ p[1] \in Nat /\ p[2] \in Nat /\ p[3] \in Nat /\ p[4] \in Nat /\ p[5] \in Nat
        /\ p[6] \in Nat /\ p[7] \in Nat /\ p[8] \in Nat /\ p[9] \in Nat
    BY <2>3, <1>NineNat
  <2>9. InOrder(p[1], p[2], p[3], p[4], p[5], p[6], p[7], p[8], p[9])
    <3>1. Ending(p[1], p[2], p[3], p[4], p[5], p[6], p[7], p[8], p[9],
                 Len(AppendVarInt(x.txCount)), Len(AppendVarInt(x.size)),
                 Len(AppendVarInt(U64(Len(x.roots)))), Len(Flatten(x.roots)), Len(x.coinbase),
                 Len(AppendVarInt(x.height)), Len(AppendVarInt(U64(Len(x.bump)))), Len(x.bump))
      BY <2>2, <2>3, <2>4, <2>5, <2>6, <2>8 DEF Ending
    <3> QED
      BY <3>1, <1>Ends
  <2> QED
    BY <2>2, <2>3, <2>5, <2>6, <2>7, <2>9 DEF Ordered

<1> QED
  BY <1>OrderedIs

\* r is a varint of value v that ends behind end bytes.
Got(r, v, end) == r.v = v /\ r.next = end

\* The roots, cut out of the block one by one.
LEMMA RootsAt ==
  ASSUME NEW w \in Str, NEW roots \in Seq(Hash), NEW off \in Nat, At(w, off, Flatten(roots))
  PROVE  [i \in 1..Len(roots) |-> Slice(w, off + (i - 1) * HashLen, HashLen)] = roots
<1>1. /\ Flatten(roots) \in Str
      /\ \A i \in 1..Len(roots) : /\ roots[i] \in Str
                                  /\ At(Flatten(roots), (i - 1) * HashLen, roots[i])
  BY FlattenLays DEF Laid
<1>2. Len(roots) \in Nat /\ \A i \in 1..Len(roots) : roots[i] \in Hash
  BY SMT
<1>3. roots = [i \in 1..Len(roots) |-> roots[i]]
  BY SMT
<1>4. ASSUME NEW i \in 1..Len(roots)
      PROVE  Slice(w, off + (i - 1) * HashLen, HashLen) = roots[i]
  <2>1. i - 1 \in Nat
    BY SMT, <1>2
  <2>2. (i - 1) * HashLen \in Nat
    BY <2>1, Places
  <2>3. At(w, off + (i - 1) * HashLen, roots[i])
    BY <1>1, <2>2, AtWithin
  <2>4. Len(roots[i]) = HashLen /\ roots[i] \in Str
    BY <1>2, HashIs
  <2>5. off + (i - 1) * HashLen \in Nat
    BY SMT, <2>2
  <2>6. Slice(w, off + (i - 1) * HashLen, Len(roots[i])) = roots[i]
    BY <2>3, <2>4, <2>5, SliceAt
  <2> QED
    BY <2>4, <2>6
<1> QED
  BY <1>3, <1>4

\* The block with another BUMP.
WithBump(x, bump) ==
  [header |-> x.header, txCount |-> x.txCount, size |-> x.size, roots |-> x.roots,
   coinbase |-> x.coinbase, height |-> x.height, bump |-> bump]

\* A block is its parts.
LEMMA WithBumpIs ==
  ASSUME NEW x \in Block144
  PROVE  WithBump(x, x.bump) = x /\ WithBump(x, <<>>) = [x EXCEPT !.bump = <<>>]
<1>1. x \in [header : [1..HeaderLen -> Byte], txCount : Count, size : Count, roots : Seq(Hash),
             coinbase : Seq(Byte), height : Count, bump : Seq(Byte)]
  BY DEF Block144
<1> QED
  BY SMTT(30), <1>1 DEF WithBump

\* What is refused and what is returned.
Rejects(b) ==
  \/ Len(b) < MinTeranode
  \/ TxCount(b).next = 0 \/ SizeInBytes(b).next = 0 \/ SubtreeCount(b).next = 0
  \/ CoinbaseAt(b) > Len(b) \/ cbLen(b) = 0 \/ Height(b).next = 0
  \/ /\ Height(b).next < Len(b)
     /\ BumpLength(b).next = 0 \/ BumpLength(b).next + IntOf(BumpLength(b).v) > Len(b)
Returns(b) ==
  [header |-> Slice(b, 0, HeaderLen), txCount |-> TxCount(b).v, size |-> SizeInBytes(b).v,
   roots |-> [i \in 1..IntOf(SubtreeCount(b).v) |->
                Slice(b, SubtreeCount(b).next + (i - 1) * HashLen, HashLen)],
   coinbase |-> Slice(b, CoinbaseAt(b), cbLen(b)), height |-> Height(b).v,
   bump |-> CoinbaseBUMP(b)]

\* What BlockFromTeranode makes of a beginning of a block that Teranode wrote: a block that
\* ends within its height, or within its BUMP, is refused, and one that ends behind either is
\* read, in the former case without its BUMP.
LEMMA WireDecoded ==
  /\ \A x, p, b : Cut(x, p, b) /\ (Len(b) < p[7] \/ (p[7] < Len(b) /\ Len(b) < p[9]))
       => FromTeranode(b) = Refused
  /\ \A x, p, b : Cut(x, p, b) /\ (Len(b) = p[7] \/ Len(b) = p[9])
       => FromTeranode(b) = WithBump(x, IF Len(b) = p[7] THEN <<>> ELSE x.bump)

\* It reads all of it or fails.
<1>ReadsIs.
  ASSUME NEW w \in Str, NEW b \in Str, NEW off \in Nat, NEW v \in Count, NEW end,
         At(w, off, AppendVarInt(v)), Begins(w, b), end = off + Len(AppendVarInt(v))
  PROVE  Reads(b, off, end, v)
  <2> USE <1>ReadsIs
  <2>1. AppendVarInt(v) \in Str
    BY VarIntCodec
  <2>2. ASSUME end <= Len(b) PROVE ReadVarInt(b, off) = [v |-> v, next |-> end]
    <3>1. At(b, off, AppendVarInt(v))
      BY <2>1, <2>2, AtCut
    <3> QED
      BY <3>1, VarIntCodec
  <2>3. ASSUME Len(b) < end PROVE ReadVarInt(b, off) = [v |-> Zeros(8), next |-> 0]
    BY <2>3, VarIntCodec
  <2> QED
    BY <2>2, <2>3 DEF Reads

\* The five varints of a block.
<1>VarInts.
  ASSUME NEW x, NEW p, NEW b, Cut(x, p, b)
  PROVE  /\ Reads(b, HeaderLen, p[2], x.txCount) /\ Reads(b, p[2], p[3], x.size)
         /\ Reads(b, p[3], p[4], U64(Len(x.roots))) /\ Reads(b, p[6], p[7], x.height)
         /\ Reads(b, p[7], p[8], U64(Len(x.bump)))
  <2> USE <1>VarInts
  <2>1. x \in Block144 /\ Layout(x, p) /\ b \in Str /\ Begins(Wire(x), b)
    BY DEF Cut
  <2>2. /\ Len(x.header) = HeaderLen /\ x.txCount \in Count /\ x.size \in Count /\ x.height \in Count
        /\ U64(Len(x.roots)) \in Count /\ U64(Len(x.bump)) \in Count
    BY <2>1, BlockIs, U64Is
  <2>3. /\ Wire(x) \in Str /\ p \in [1..9 -> Nat] /\ p[1] = HeaderLen
        /\ p[2] = p[1] + Len(AppendVarInt(x.txCount)) /\ At(Wire(x), p[1], AppendVarInt(x.txCount))
        /\ p[3] = p[2] + Len(AppendVarInt(x.size)) /\ At(Wire(x), p[2], AppendVarInt(x.size))
        /\ p[4] = p[3] + Len(AppendVarInt(U64(Len(x.roots))))
        /\ At(Wire(x), p[3], AppendVarInt(U64(Len(x.roots))))
        /\ p[7] = p[6] + Len(AppendVarInt(x.height)) /\ At(Wire(x), p[6], AppendVarInt(x.height))
        /\ p[8] = p[7] + Len(AppendVarInt(U64(Len(x.bump))))
        /\ At(Wire(x), p[7], AppendVarInt(U64(Len(x.bump))))
    BY <2>1, <2>2 DEF Layout, Nine
  <2>4. p[1] \in Nat /\ p[2] \in Nat /\ p[3] \in Nat /\ p[6] \in Nat /\ p[7] \in Nat
    BY SMT, <2>3
  <2>5. Reads(b, HeaderLen, p[2], x.txCount)
    BY <2>1, <2>2, <2>3, <2>4, <1>ReadsIs
  <2>6. Reads(b, p[2], p[3], x.size)
    BY <2>1, <2>2, <2>3, <2>4, <1>ReadsIs
  <2>7. Reads(b, p[3], p[4], U64(Len(x.roots)))
    BY <2>1, <2>2, <2>3, <2>4, <1>ReadsIs
  <2>8. Reads(b, p[6], p[7], x.height)
    BY <2>1, <2>2, <2>3, <2>4, <1>ReadsIs
  <2>9. Reads(b, p[7], p[8], U64(Len(x.bump)))
    BY <2>1, <2>2, <2>3, <2>4, <1>ReadsIs
  <2> QED
    BY <2>5, <2>6, <2>7, <2>8, <2>9

\* The fields of what readVarInt returns.
<1>ReadsGot.
  ASSUME NEW b, NEW off, NEW end, NEW v, Reads(b, off, end, v)
  PROVE  /\ end <= Len(b) => Got(ReadVarInt(b, off), v, end)
         /\ Len(b) < end => ReadVarInt(b, off).next = 0
  <2> USE <1>ReadsGot
  <2>1. ASSUME end <= Len(b) PROVE Got(ReadVarInt(b, off), v, end)
    <3>1. ReadVarInt(b, off) = [v |-> v, next |-> end]
      BY <2>1 DEF Reads
    <3> QED
      BY SMT, <3>1 DEF Got
  <2>2. ASSUME Len(b) < end PROVE ReadVarInt(b, off).next = 0
    <3>1. ReadVarInt(b, off) = [v |-> Zeros(8), next |-> 0]
      BY <2>2 DEF Reads
    <3> QED
      BY SMT, <3>1
  <2> QED
    BY <2>1, <2>2

\* The counts before the roots: each is read, or what is left of it is refused.
<1>CountsRead.
  ASSUME NEW x, NEW p, NEW b, Cut(x, p, b)
  PROVE  /\ p[2] <= Len(b) => Got(TxCount(b), x.txCount, p[2])
         /\ Len(b) < p[2] => TxCount(b).next = 0
         /\ p[3] <= Len(b) => Got(SizeInBytes(b), x.size, p[3])
         /\ p[2] <= Len(b) /\ Len(b) < p[3] => SizeInBytes(b).next = 0
         /\ p[4] <= Len(b) => Got(SubtreeCount(b), U64(Len(x.roots)), p[4])
         /\ p[3] <= Len(b) /\ Len(b) < p[4] => SubtreeCount(b).next = 0
  <2> USE <1>CountsRead
  <2>1. /\ Reads(b, HeaderLen, p[2], x.txCount) /\ Reads(b, p[2], p[3], x.size)
        /\ Reads(b, p[3], p[4], U64(Len(x.roots)))
    BY <1>VarInts
  <2>2. Len(b) \in Nat /\ Upon(p[2], p[3]) /\ Upon(p[3], p[4])
    BY OrderedIs DEF Ordered, InOrder
  <2>3. (p[3] <= Len(b) => p[2] <= Len(b)) /\ (p[4] <= Len(b) => p[3] <= Len(b))
    BY <2>2, Reaches
  <2>4. /\ p[2] <= Len(b) => Got(TxCount(b), x.txCount, p[2])
        /\ Len(b) < p[2] => TxCount(b).next = 0
    BY <2>1, <1>ReadsGot DEF TxCount
  <2>5. p[2] <= Len(b) => SizeInBytes(b) = ReadVarInt(b, p[2])
    BY <2>4 DEF SizeInBytes, Got
  <2>6. /\ p[3] <= Len(b) => Got(SizeInBytes(b), x.size, p[3])
        /\ p[2] <= Len(b) /\ Len(b) < p[3] => SizeInBytes(b).next = 0
    BY <2>1, <2>3, <2>5, <1>ReadsGot
  <2>7. p[3] <= Len(b) => SubtreeCount(b) = ReadVarInt(b, p[3])
    BY <2>6 DEF SubtreeCount, Got
  <2>8. /\ p[4] <= Len(b) => Got(SubtreeCount(b), U64(Len(x.roots)), p[4])
        /\ p[3] <= Len(b) /\ Len(b) < p[4] => SubtreeCount(b).next = 0
    BY <2>1, <2>3, <2>7, <1>ReadsGot
  <2> QED
    BY <2>4, <2>6, <2>8

\* The coinbase, the height and the length of the BUMP likewise.
<1>RestRead.
  ASSUME NEW x, NEW p, NEW b, Cut(x, p, b), p[4] <= Len(b)
  PROVE  /\ CoinbaseAt(b) = p[5]
         /\ p[6] <= Len(b) => cbLen(b) = Len(x.coinbase)
         /\ p[5] <= Len(b) /\ Len(b) < p[6] => cbLen(b) = 0
         /\ p[7] <= Len(b) => Got(Height(b), x.height, p[7])
         /\ p[6] <= Len(b) /\ Len(b) < p[7] => Height(b).next = 0
         /\ p[8] <= Len(b) => Got(BumpLength(b), U64(Len(x.bump)), p[8])
         /\ p[7] <= Len(b) /\ Len(b) < p[8] => BumpLength(b).next = 0
  <2> USE <1>RestRead
  <2>1. Reads(b, p[6], p[7], x.height) /\ Reads(b, p[7], p[8], U64(Len(x.bump)))
    BY <1>VarInts
  <2>2. Ordered(x, p, b)
    BY OrderedIs
  <2>3. x \in Block144 /\ Layout(x, p) /\ b \in Str /\ Begins(Wire(x), b)
    BY DEF Cut
  <2>4. /\ Len(x.roots) \in Nat /\ Len(x.roots) < MaxLen /\ Tx(x.coinbase) /\ x.coinbase \in Str
        /\ Wire(x) \in Str /\ At(Wire(x), p[5], x.coinbase)
    BY <2>3, BlockIs DEF Layout, Nine
  <2>5. /\ p[5] \in Nat /\ p[5] = p[4] + Len(x.roots) * HashLen /\ p[6] = p[5] + Len(x.coinbase)
        /\ p[7] <= Len(b) => p[6] <= Len(b)
        /\ p[8] <= Len(b) => p[7] <= Len(b)
    <3>1. /\ Upon(p[5], p[6]) /\ Upon(p[6], p[7]) /\ Upon(p[7], p[8]) /\ Len(b) \in Nat
          /\ p[5] = p[4] + Len(x.roots) * HashLen /\ p[6] = p[5] + Len(x.coinbase)
      BY <2>2 DEF Ordered, InOrder
    <3>2. p[5] \in Nat
      BY <3>1 DEF Upon
    <3> QED
      BY <3>1, <3>2, Reaches
  <2>6. CoinbaseAt(b) = p[5]
    <3>1. Got(SubtreeCount(b), U64(Len(x.roots)), p[4])
      BY <1>CountsRead
    <3>2. IntOf(U64(Len(x.roots))) = Len(x.roots)
      BY <2>4, U64Is
    <3> QED
      BY <2>5, <3>1, <3>2 DEF CoinbaseAt, Got
  <2>7. ASSUME p[6] <= Len(b) PROVE cbLen(b) = Len(x.coinbase)
    <3>1. At(b, p[5], x.coinbase)
      BY <2>3, <2>4, <2>5, <2>7, AtCut
    <3> QED
      BY <2>3, <2>4, <2>5, <2>6, <3>1, TxMeasured DEF cbLen
  <2>8. ASSUME p[5] <= Len(b), Len(b) < p[6] PROVE cbLen(b) = 0
    <3>1. Len(b) < p[5] + Len(x.coinbase)
      BY <2>5, <2>8
    <3>2. TxSize(From(b, p[5])) = 0
      BY ZenonT(60), <2>3, <2>4, <2>5, <2>8, <3>1, TxMeasured
    <3> QED
      BY <2>6, <3>2 DEF cbLen
  <2>9. p[6] <= Len(b) => Height(b) = ReadVarInt(b, p[6])
    BY <2>5, <2>6, <2>7 DEF Height
  <2>10. /\ p[7] <= Len(b) => Got(Height(b), x.height, p[7])
         /\ p[6] <= Len(b) /\ Len(b) < p[7] => Height(b).next = 0
    BY <2>1, <2>5, <2>9, <1>ReadsGot
  <2>11. p[7] <= Len(b) => BumpLength(b) = ReadVarInt(b, p[7])
    BY <2>10 DEF BumpLength, Got
  <2>12. /\ p[8] <= Len(b) => Got(BumpLength(b), U64(Len(x.bump)), p[8])
         /\ p[7] <= Len(b) /\ Len(b) < p[8] => BumpLength(b).next = 0
    BY ZenonT(60), <2>1, <2>5, <2>11, <1>ReadsGot
  <2> QED
    BY <2>6, <2>7, <2>8, <2>10, <2>12

\* A block that ends within its height, or within its BUMP, is refused.
<1>FromCut.
  ASSUME NEW x, NEW p, NEW b, Cut(x, p, b),
         Len(b) < p[7] \/ (p[7] < Len(b) /\ Len(b) < p[9])
  PROVE  FromTeranode(b) = Refused
  <2> USE <1>FromCut
  <2>1. /\ Upon(p[1], p[2]) /\ Upon(p[2], p[3]) /\ Upon(p[3], p[4]) /\ Upon(p[4], p[5])
        /\ Upon(p[5], p[6]) /\ Upon(p[6], p[7]) /\ Upon(p[7], p[8]) /\ Upon(p[8], p[9])
        /\ Len(b) \in Nat /\ p[9] = p[8] + Len(x.bump)
    BY OrderedIs DEF Ordered, InOrder
  <2>2. Len(x.bump) \in Nat /\ IntOf(U64(Len(x.bump))) = Len(x.bump)
    <3>1. x \in Block144
      BY DEF Cut
    <3> QED
      BY <3>1, BlockIs, U64Is
  <2>3. CASE Len(b) < p[2]
    <3>1. TxCount(b).next = 0
      BY <2>3, <1>CountsRead
    <3> QED
      BY <3>1 DEF FromTeranode
  <2>4. CASE p[2] <= Len(b) /\ Len(b) < p[3]
    <3>1. SizeInBytes(b).next = 0
      BY <2>4, <1>CountsRead
    <3> QED
      BY <3>1 DEF FromTeranode
  <2>5. CASE p[3] <= Len(b) /\ Len(b) < p[4]
    <3>1. SubtreeCount(b).next = 0
      BY <2>5, <1>CountsRead
    <3> QED
      BY <3>1 DEF FromTeranode
  <2>6. CASE p[4] <= Len(b) /\ Len(b) < p[5]
    <3>1. CoinbaseAt(b) = p[5]
      BY <2>6, <1>RestRead
    <3>2. p[5] > Len(b)
      BY SMT, <2>1, <2>6 DEF Upon
    <3> QED
      BY <3>1, <3>2 DEF FromTeranode
  <2>7. CASE p[5] <= Len(b) /\ Len(b) < p[6]
    <3>1. p[4] <= Len(b)
      BY <2>1, <2>7, Reaches
    <3>2. cbLen(b) = 0
      BY <2>7, <3>1, <1>RestRead
    <3> QED
      BY <3>2 DEF FromTeranode
  <2>8. CASE p[6] <= Len(b) /\ Len(b) < p[7]
    <3>0. p[5] <= Len(b)
      BY <2>1, <2>8, Reaches
    <3>1. p[4] <= Len(b)
      BY <2>1, <3>0, Reaches
    <3>2. Height(b).next = 0
      BY <2>8, <3>1, <1>RestRead
    <3> QED
      BY <3>2 DEF FromTeranode
  <2>9. CASE p[7] < Len(b) /\ Len(b) < p[9]
    <3>1. p[7] <= Len(b)
      BY SMTT(30), <2>1, <2>9 DEF Upon
    <3>2. p[4] <= Len(b)
      <4>1. p[6] <= Len(b)
        BY <2>1, <3>1, Reaches
      <4>2. p[5] <= Len(b)
        BY <2>1, <4>1, Reaches
      <4> QED
        BY <2>1, <4>2, Reaches
    <3>3. Height(b).next < Len(b)
      <4>1. Got(Height(b), x.height, p[7])
        BY <3>1, <3>2, <1>RestRead
      <4> QED
        BY <2>9, <4>1 DEF Got
    <3>4. CASE Len(b) < p[8]
      <4>1. BumpLength(b).next = 0
        BY <3>1, <3>2, <3>4, <1>RestRead
      <4> QED
        BY <3>3, <4>1 DEF FromTeranode
    <3>5. CASE p[8] <= Len(b)
      <4>1. BumpLength(b).next + IntOf(BumpLength(b).v) = p[9]
        <5>1. Got(BumpLength(b), U64(Len(x.bump)), p[8])
          BY <3>2, <3>5, <1>RestRead
        <5> QED
          BY <2>1, <2>2, <5>1 DEF Got
      <4>2. p[9] > Len(b)
        BY SMTT(30), <2>1, <2>9 DEF Upon
      <4> QED
        BY <3>3, <4>1, <4>2 DEF FromTeranode
    <3> QED
      BY SMTT(30), <2>1, <3>4, <3>5 DEF Upon
  <2>10. \/ Len(b) < p[2] \/ (p[2] <= Len(b) /\ Len(b) < p[3]) \/ (p[3] <= Len(b) /\ Len(b) < p[4])
         \/ (p[4] <= Len(b) /\ Len(b) < p[5]) \/ (p[5] <= Len(b) /\ Len(b) < p[6])
         \/ (p[6] <= Len(b) /\ Len(b) < p[7]) \/ (p[7] < Len(b) /\ Len(b) < p[9])
    <3> DEFINE n == Len(b)
               p2 == p[2]
               p3 == p[3]
               p4 == p[4]
               p5 == p[5]
               p6 == p[6]
               p7 == p[7]
    <3>1. p2 \in Nat /\ p3 \in Nat /\ p4 \in Nat /\ p5 \in Nat /\ p6 \in Nat /\ p7 \in Nat /\ n \in Nat
      BY <2>1 DEF Upon
    <3> HIDE DEF n, p2, p3, p4, p5, p6, p7
    <3>2. n < p7 => \/ n < p2 \/ (p2 <= n /\ n < p3) \/ (p3 <= n /\ n < p4) \/ (p4 <= n /\ n < p5)
                    \/ (p5 <= n /\ n < p6) \/ (p6 <= n /\ n < p7)
      BY SMT, <3>1
    <3> QED
      BY <3>2 DEF n, p2, p3, p4, p5, p6, p7
  <2> QED
    BY <2>3, <2>4, <2>5, <2>6, <2>7, <2>8, <2>9, <2>10

\* The parts that a beginning holds which reaches behind the height.
<1>PartsRead.
  ASSUME NEW x, NEW p, NEW b, Cut(x, p, b), p[7] <= Len(b)
  PROVE  /\ Slice(b, 0, HeaderLen) = x.header
         /\ Got(TxCount(b), x.txCount, p[2]) /\ Got(SizeInBytes(b), x.size, p[3])
         /\ Got(SubtreeCount(b), U64(Len(x.roots)), p[4])
         /\ [i \in 1..Len(x.roots) |-> Slice(b, p[4] + (i - 1) * HashLen, HashLen)] = x.roots
         /\ CoinbaseAt(b) = p[5] /\ p[5] <= Len(b) /\ cbLen(b) = Len(x.coinbase)
         /\ Slice(b, p[5], Len(x.coinbase)) = x.coinbase
         /\ Got(Height(b), x.height, p[7])
  <2> USE <1>PartsRead
  <2>1. /\ Upon(p[1], p[2]) /\ Upon(p[2], p[3]) /\ Upon(p[3], p[4]) /\ Upon(p[4], p[5])
        /\ Upon(p[5], p[6]) /\ Upon(p[6], p[7]) /\ Len(b) \in Nat /\ p[1] = HeaderLen
        /\ p[6] = p[5] + Len(x.coinbase)
    BY OrderedIs DEF Ordered, InOrder
  <2>2. p[6] <= Len(b)
    BY <2>1, Reaches
  <2>3. p[5] <= Len(b)
    BY <2>1, <2>2, Reaches
  <2>4. p[4] <= Len(b)
    BY <2>1, <2>3, Reaches
  <2>5. p[3] <= Len(b)
    BY <2>1, <2>4, Reaches
  <2>6. p[2] <= Len(b)
    BY <2>1, <2>5, Reaches
  <2>7. p[1] <= Len(b)
    BY <2>1, <2>6, Reaches
  <2>8. x \in Block144 /\ Layout(x, p) /\ b \in Str /\ Begins(Wire(x), b)
    BY DEF Cut
  <2>9. /\ Wire(x) \in Str /\ At(Wire(x), 0, x.header) /\ At(Wire(x), p[5], x.coinbase)
        /\ At(Wire(x), p[4], Flatten(x.roots)) /\ p[5] = p[4] + Len(Flatten(x.roots))
    BY <2>8 DEF Layout, Nine
  <2>10. /\ x.header \in Str /\ Len(x.header) = HeaderLen /\ x.coinbase \in Str /\ x.roots \in Seq(Hash)
         /\ Flatten(x.roots) \in Str
    BY <2>8, BlockIs, FlattenLays DEF Laid
  <2>11. p[4] \in Nat /\ p[5] \in Nat /\ 0 \in Nat /\ 0 + HeaderLen = p[1]
    BY SMT, <2>1 DEF Upon
  <2>12. At(b, 0, x.header)
    BY <2>7, <2>8, <2>9, <2>10, <2>11, AtCut
  <2>13. At(b, p[4], Flatten(x.roots))
    BY <2>3, <2>8, <2>9, <2>10, <2>11, AtCut
  <2>14. At(b, p[5], x.coinbase)
    BY <2>1, <2>2, <2>8, <2>9, <2>10, <2>11, AtCut
  <2>15. Slice(b, 0, HeaderLen) = x.header
    BY <2>8, <2>10, <2>11, <2>12, SliceAt
  <2>16. Slice(b, p[5], Len(x.coinbase)) = x.coinbase
    BY <2>8, <2>10, <2>11, <2>14, SliceAt
  <2>17. [i \in 1..Len(x.roots) |-> Slice(b, p[4] + (i - 1) * HashLen, HashLen)] = x.roots
    BY <2>8, <2>10, <2>11, <2>13, RootsAt
  <2>18. /\ Got(TxCount(b), x.txCount, p[2]) /\ Got(SizeInBytes(b), x.size, p[3])
         /\ Got(SubtreeCount(b), U64(Len(x.roots)), p[4])
    BY <2>4, <2>5, <2>6, <1>CountsRead
  <2>19. CoinbaseAt(b) = p[5] /\ cbLen(b) = Len(x.coinbase) /\ Got(Height(b), x.height, p[7])
    BY <2>2, <2>4, <1>RestRead
  <2> QED
    BY <2>3, <2>15, <2>16, <2>17, <2>18, <2>19

\* A block, whole or without its BUMP, is read as it was written.
<1>FromWhole.
  ASSUME NEW x, NEW p, NEW b, Cut(x, p, b), Len(b) = p[7] \/ Len(b) = p[9]
  PROVE  FromTeranode(b) = WithBump(x, IF Len(b) = p[7] THEN <<>> ELSE x.bump)
  <2> USE <1>FromWhole
  <2> DEFINE bump == IF Len(b) = p[7] THEN <<>> ELSE x.bump
             bad == /\ Height(b).next < Len(b)
                    /\ \/ BumpLength(b).next = 0
                       \/ BumpLength(b).next + IntOf(BumpLength(b).v) > Len(b)
  <2>1. /\ Upon(p[7], p[8]) /\ Upon(p[8], p[9]) /\ Upon(MinTeranode, p[7])
        /\ p[2] # 0 /\ p[3] # 0 /\ p[4] # 0 /\ p[7] # 0 /\ p[8] # 0 /\ p[7] < p[8]
        /\ p[9] = p[8] + Len(x.bump) /\ Len(b) \in Nat
    BY OrderedIs DEF Ordered, InOrder
  <2>2. p[7] <= Len(b) /\ p[5] \in Nat /\ ~(Len(b) < MinTeranode)
    <3>1. p[7] <= Len(b) /\ ~(Len(b) < MinTeranode)
      BY SMTT(30), <2>1 DEF Upon
    <3>2. p[5] \in Nat
      BY OrderedIs DEF Ordered, InOrder, Upon
    <3> QED
      BY <3>1, <3>2
  <2>3. /\ Slice(b, 0, HeaderLen) = x.header
        /\ Got(TxCount(b), x.txCount, p[2]) /\ Got(SizeInBytes(b), x.size, p[3])
        /\ Got(SubtreeCount(b), U64(Len(x.roots)), p[4])
        /\ [i \in 1..Len(x.roots) |-> Slice(b, p[4] + (i - 1) * HashLen, HashLen)] = x.roots
        /\ CoinbaseAt(b) = p[5] /\ p[5] <= Len(b) /\ cbLen(b) = Len(x.coinbase)
        /\ Slice(b, p[5], Len(x.coinbase)) = x.coinbase
        /\ Got(Height(b), x.height, p[7])
    BY <2>2, <1>PartsRead
  <2>4. x \in Block144 /\ Layout(x, p) /\ b \in Str /\ Begins(Wire(x), b)
    BY DEF Cut
  <2>5. /\ IntOf(U64(Len(x.roots))) = Len(x.roots) /\ IntOf(U64(Len(x.bump))) = Len(x.bump)
        /\ x.bump \in Str /\ Len(x.coinbase) # 0
    <3>1. Tx(x.coinbase)
      BY <2>4, BlockIs
    <3> QED
      BY <2>4, <3>1, BlockIs, U64Is DEF Tx
  <2>6. CoinbaseBUMP(b) = bump /\ ~bad
    <3>1. CASE Len(b) = p[7]
      <4>1. ~(p[7] < p[7])
        BY SMT, <2>1 DEF Upon
      <4>2. Height(b).next = Len(b)
        BY <2>3, <3>1 DEF Got
      <4> QED
        BY <3>1, <4>1, <4>2 DEF CoinbaseBUMP
    <3>2. CASE Len(b) = p[9] /\ Len(b) # p[7]
      <4>1. p[8] <= Len(b) /\ p[8] \in Nat /\ p[8] + Len(x.bump) <= Len(b) /\ ~(p[9] > Len(b))
        BY SMT, <2>1, <3>2 DEF Upon
      <4>2. p[4] <= Len(b)
        <5>1. Upon(p[4], p[5])
          BY OrderedIs DEF Ordered, InOrder
        <5> QED
          BY <2>1, <2>3, <5>1, Reaches
      <4>3. Got(BumpLength(b), U64(Len(x.bump)), p[8])
        BY <4>1, <4>2, <1>RestRead
      <4>4. BumpLength(b).next = p[8] /\ IntOf(BumpLength(b).v) = Len(x.bump)
        BY <2>5, <4>3 DEF Got
      <4>5. Height(b).next # Len(b)
        BY <2>3, <3>2 DEF Got
      <4>6. Wire(x) \in Str /\ At(Wire(x), p[8], x.bump)
        BY <2>4 DEF Layout, Nine
      <4>7. At(b, p[8], x.bump)
        BY <2>4, <2>5, <4>1, <4>6, AtCut
      <4>8. Slice(b, p[8], Len(x.bump)) = x.bump
        BY <2>4, <2>5, <4>1, <4>7, SliceAt
      <4>9. CoinbaseBUMP(b) = x.bump
        BY <4>4, <4>5, <4>8 DEF CoinbaseBUMP
      <4> QED
        BY <2>1, <3>2, <4>1, <4>4, <4>9
    <3> QED
      BY <3>1, <3>2
  <2> HIDE DEF bump, bad
  <2>7. ~Rejects(b)
    <3>1. ~(p[5] > Len(b))
      BY SMTT(30), <2>1, <2>2, <2>3
    <3> QED
      BY <2>1, <2>2, <2>3, <2>5, <2>6, <3>1 DEF Rejects, Got, bad
  <2>8. FromTeranode(b) = Returns(b)
    BY <2>7 DEF FromTeranode, Rejects, Returns
  <2>9. Returns(b) = WithBump(x, bump)
    <3>1. /\ TxCount(b).v = x.txCount /\ SizeInBytes(b).v = x.size /\ Height(b).v = x.height
          /\ IntOf(SubtreeCount(b).v) = Len(x.roots) /\ SubtreeCount(b).next = p[4]
      BY <2>3, <2>5 DEF Got
    <3>2. [i \in 1..IntOf(SubtreeCount(b).v) |->
             Slice(b, SubtreeCount(b).next + (i - 1) * HashLen, HashLen)] = x.roots
      BY <2>3, <3>1
    <3>3. Slice(b, CoinbaseAt(b), cbLen(b)) = x.coinbase
      BY <2>3
    <3> QED
      BY <2>3, <2>6, <3>1, <3>2, <3>3 DEF Returns, WithBump
  <2> QED
    BY <2>8, <2>9 DEF bump

<1> QED
  BY <1>FromCut, <1>FromWhole

-----------------------------------------------------------------------------
(* The frame of a block. *)

\* Where its roots and its coinbase end, and where it ends.
REnd(x) == PrefixLen + Len(x.roots) * HashLen
CEnd(x) == REnd(x) + Len(x.coinbase)
FEnd(x) == CEnd(x) + 16 + Len(x.bump)

\* The parts of the frame w of x.
Placed(x, w) ==
  /\ w \in Str /\ Len(w) = FEnd(x)
  /\ At(w, 0, x.header)
  /\ At(w, HeaderLen, x.txCount)
  /\ At(w, HeaderLen + 8, x.size)
  /\ At(w, HeaderLen + 16, U64(Len(x.roots)))
  /\ At(w, PrefixLen, Flatten(x.roots))
  /\ At(w, REnd(x), x.coinbase)
  /\ At(w, CEnd(x), x.height)
  /\ At(w, CEnd(x) + 8, U64(Len(x.bump)))
  /\ At(w, CEnd(x) + 16, x.bump)

\* Nine ends of which four are of counts.
FrameEnding(p1, p2, p3, p4, p5, p6, p7, p8, p9, r, l, m) ==
  /\ HeaderLen \in Nat /\ r \in Nat /\ l \in Nat /\ m \in Nat
  /\ p1 = HeaderLen /\ p2 = p1 + 8 /\ p3 = p2 + 8 /\ p4 = p3 + 8 /\ p5 = p4 + r
  /\ p6 = p5 + l /\ p7 = p6 + 8 /\ p8 = p7 + 8 /\ p9 = p8 + m

\* Where they are.
FrameOrder(p1, p2, p3, p4, p5, p6, p7, p8, p9, r, l, m) ==
  /\ p1 = HeaderLen /\ p2 = HeaderLen + 8 /\ p3 = HeaderLen + 16 /\ p4 = PrefixLen
  /\ p5 = PrefixLen + r /\ p6 = PrefixLen + r + l /\ p7 = PrefixLen + r + l + 8
  /\ p8 = PrefixLen + r + l + 16 /\ p9 = PrefixLen + r + l + 16 + m

LEMMA FrameEnds ==
  ASSUME NEW p1, NEW p2, NEW p3, NEW p4, NEW p5, NEW p6, NEW p7, NEW p8, NEW p9,
         NEW r, NEW l, NEW m, FrameEnding(p1, p2, p3, p4, p5, p6, p7, p8, p9, r, l, m)
  PROVE  FrameOrder(p1, p2, p3, p4, p5, p6, p7, p8, p9, r, l, m)
BY SMT DEF FrameEnding, FrameOrder, PrefixLen

\* The lengths of the parts of a block.
LEMMA Lengths ==
  ASSUME NEW x \in Block144
  PROVE  /\ U64(Len(x.roots)) \in Count /\ U64(Len(x.bump)) \in Count
         /\ IntOf(U64(Len(x.roots))) = Len(x.roots) /\ IntOf(U64(Len(x.bump))) = Len(x.bump)
         /\ Flatten(x.roots) \in Str /\ Len(Flatten(x.roots)) = Len(x.roots) * HashLen
         /\ Len(x.roots) * HashLen \in Nat /\ Len(x.coinbase) \in Nat /\ Len(x.bump) \in Nat
         /\ Len(x.roots) \in Nat
<1>1. /\ x.roots \in Seq(Hash) /\ Len(x.roots) \in Nat /\ Len(x.roots) < MaxLen
      /\ x.coinbase \in Str /\ Len(x.bump) \in Nat /\ Len(x.bump) < MaxLen
  BY BlockIs
<1>2. /\ U64(Len(x.roots)) \in Count /\ U64(Len(x.bump)) \in Count
      /\ IntOf(U64(Len(x.roots))) = Len(x.roots) /\ IntOf(U64(Len(x.bump))) = Len(x.bump)
  BY <1>1, U64Is
<1>3. /\ Flatten(x.roots) \in Str /\ Len(Flatten(x.roots)) = Len(x.roots) * HashLen
      /\ Len(x.roots) * HashLen \in Nat
  BY <1>1, FlattenLays, Places DEF Laid
<1>4. Len(x.coinbase) \in Nat
  BY SMT, <1>1 DEF Str
<1> QED
  BY <1>1, <1>2, <1>3, <1>4

\* The parts of a frame are where they belong.
LEMMA FrameIs ==
  ASSUME NEW x \in Block144
  PROVE  Placed(x, BlockFrame(x))
<1> DEFINE w == BlockFrame(x)
<1>1. /\ x.header \in Str /\ x.txCount \in Count /\ x.size \in Count /\ x.height \in Count
      /\ x.coinbase \in Str /\ x.bump \in Str /\ Len(x.header) = HeaderLen
  BY BlockIs
<1>2. /\ U64(Len(x.roots)) \in Count /\ U64(Len(x.bump)) \in Count
      /\ Flatten(x.roots) \in Str /\ Len(Flatten(x.roots)) = Len(x.roots) * HashLen
      /\ Len(x.roots) * HashLen \in Nat /\ Len(x.coinbase) \in Nat /\ Len(x.bump) \in Nat
  BY Lengths
<1>3. /\ x.txCount \in Str /\ x.size \in Str /\ x.height \in Str
      /\ U64(Len(x.roots)) \in Str /\ U64(Len(x.bump)) \in Str
      /\ Len(x.txCount) = 8 /\ Len(x.size) = 8 /\ Len(x.height) = 8
      /\ Len(U64(Len(x.roots))) = 8 /\ Len(U64(Len(x.bump))) = 8
  BY <1>1, <1>2, CountIs
<1>4. PICK p : Nine(w, p, x.header, x.txCount, x.size, U64(Len(x.roots)), Flatten(x.roots),
                    x.coinbase, x.height, U64(Len(x.bump)), x.bump)
  BY <1>1, <1>2, <1>3, NineParts DEF BlockFrame
<1> HIDE DEF w
<1>5. FrameEnding(p[1], p[2], p[3], p[4], p[5], p[6], p[7], p[8], p[9],
                  Len(x.roots) * HashLen, Len(x.coinbase), Len(x.bump))
  BY <1>1, <1>2, <1>3, <1>4, FramesAssumption DEF Nine, FrameEnding
<1>6. FrameOrder(p[1], p[2], p[3], p[4], p[5], p[6], p[7], p[8], p[9],
                 Len(x.roots) * HashLen, Len(x.coinbase), Len(x.bump))
  BY <1>5, FrameEnds
<1>7. /\ p[1] = HeaderLen /\ p[2] = HeaderLen + 8 /\ p[3] = HeaderLen + 16 /\ p[4] = PrefixLen
      /\ p[5] = REnd(x) /\ p[6] = CEnd(x) /\ p[7] = CEnd(x) + 8 /\ p[8] = CEnd(x) + 16
      /\ p[9] = FEnd(x)
  BY <1>6 DEF FrameOrder, REnd, CEnd, FEnd
<1>8. Placed(x, w)
  BY <1>4, <1>7 DEF Nine, Placed
<1> QED
  BY <1>8 DEF w

\* g is the beginning of the frame of a block, or all of it.
Part(x, g) == x \in Block144 /\ g \in Str /\ Begins(BlockFrame(x), g)

\* What BlockToTeranode makes of a frame: one that lost its end is refused, and so is a whole
\* one with a zero root; any other becomes the block as Teranode writes it, and its roots and
\* its coinbase are found in it.
LEMMA FrameConverted ==
  /\ \A x, g : Part(x, g) /\ Len(g) < FEnd(x) => ToTeranode(g) = Refused
  /\ \A x \in Block144 :
       /\ ToTeranode(BlockFrame(x)) = IF ZeroRoot \in Range(x.roots) THEN Refused ELSE Wire(x)
       /\ SubtreeRootsOf(BlockFrame(x)) = x.roots /\ CoinbaseOf(BlockFrame(x)) = x.coinbase

\* What follows ends no earlier.
<1>Further.
  ASSUME NEW k \in Nat, NEW d \in Nat
  PROVE  Upon(k, k + d) /\ k + d \in Nat
  BY SMT, <1>Further DEF Upon

\* Two counts and what follows them.
<1>TwoCounts.
  ASSUME NEW k \in Nat, NEW d \in Nat
  PROVE  Upon(k, k + 8) /\ Upon(k + 8, k + 16) /\ Upon(k + 16, k + 16 + d) /\ k + 8 + 8 = k + 16
  BY SMT, <1>TwoCounts DEF Upon

\* The ends in a frame are in order.
<1>FrameOrdered.
  ASSUME NEW x, NEW g, Part(x, g)
  PROVE  /\ Upon(PrefixLen, REnd(x)) /\ Upon(REnd(x), CEnd(x)) /\ Upon(CEnd(x), CEnd(x) + 8)
         /\ Upon(CEnd(x) + 8, CEnd(x) + 16) /\ Upon(CEnd(x) + 16, FEnd(x))
         /\ Len(g) \in Nat /\ Len(g) <= FEnd(x)
         /\ HeaderLen + 16 \in Nat /\ HeaderLen + 16 + 8 = PrefixLen
         /\ CEnd(x) + 8 + 8 = CEnd(x) + 16
  <2> USE <1>FrameOrdered
  <2>1. x \in Block144 /\ g \in Str /\ Begins(BlockFrame(x), g)
    BY DEF Part
  <2>2. Len(x.roots) * HashLen \in Nat /\ Len(x.coinbase) \in Nat /\ Len(x.bump) \in Nat
    BY <2>1, Lengths
  <2>3. PrefixLen \in Nat /\ HeaderLen + 16 \in Nat /\ HeaderLen + 16 + 8 = PrefixLen
    <3>1. HeaderLen \in Nat
      BY FramesAssumption
    <3> QED
      BY SMT, <3>1 DEF PrefixLen
  <2>4. Upon(PrefixLen, REnd(x)) /\ REnd(x) \in Nat
    BY <2>2, <2>3, <1>Further DEF REnd
  <2>5. Upon(REnd(x), CEnd(x)) /\ CEnd(x) \in Nat
    BY <2>2, <2>4, <1>Further DEF CEnd
  <2>6. /\ Upon(CEnd(x), CEnd(x) + 8) /\ Upon(CEnd(x) + 8, CEnd(x) + 16)
        /\ Upon(CEnd(x) + 16, FEnd(x)) /\ CEnd(x) + 8 + 8 = CEnd(x) + 16
    BY <2>2, <2>5, <1>TwoCounts DEF FEnd
  <2>7. Len(g) \in Nat
    BY SMT, <2>1 DEF Str
  <2>8. Len(g) <= FEnd(x)
    BY <2>1, FrameIs DEF Placed, Begins
  <2> QED
    BY <2>3, <2>4, <2>5, <2>6, <2>7, <2>8

\* A part of the frame that a beginning holds lies in it, too.
<1>PartAt.
  ASSUME NEW x, NEW g, Part(x, g), NEW off \in Nat, NEW s \in Str, At(BlockFrame(x), off, s),
         off + Len(s) <= Len(g)
  PROVE  At(g, off, s)
  <2> USE <1>PartAt
  <2>1. x \in Block144 /\ g \in Str /\ Begins(BlockFrame(x), g)
    BY DEF Part
  <2>2. BlockFrame(x) \in Str
    BY <2>1, FrameIs DEF Placed
  <2> QED
    BY <2>1, <2>2, AtCut

\* The count of the roots.
<1>FrameCount.
  ASSUME NEW x, NEW g, Part(x, g), PrefixLen <= Len(g)
  PROVE  RootCount(g) = Len(x.roots) /\ RootsEnd(g) = REnd(x)
  <2> USE <1>FrameCount
  <2>1. x \in Block144 /\ g \in Str
    BY DEF Part
  <2>2. At(BlockFrame(x), HeaderLen + 16, U64(Len(x.roots)))
    BY <2>1, FrameIs DEF Placed
  <2>3. /\ U64(Len(x.roots)) \in Str /\ Len(U64(Len(x.roots))) = 8
        /\ IntOf(U64(Len(x.roots))) = Len(x.roots)
    BY <2>1, Lengths, CountIs
  <2>4. HeaderLen + 16 \in Nat /\ HeaderLen + 16 + 8 = PrefixLen
    BY <1>FrameOrdered
  <2>5. At(g, HeaderLen + 16, U64(Len(x.roots)))
    BY <2>2, <2>3, <2>4, <1>PartAt
  <2>6. Slice(g, HeaderLen + 16, 8) = U64(Len(x.roots))
    BY <2>1, <2>3, <2>4, <2>5, SliceAt
  <2> QED
    BY <2>3, <2>6 DEF RootCount, RootsEnd, REnd

\* SubtreeRoots returns the roots of a frame that holds all of them, and refuses any other.
<1>FrameRoots.
  ASSUME NEW x, NEW g, Part(x, g)
  PROVE  /\ Len(g) < REnd(x) => SubtreeRootsOf(g) = Refused /\ CoinbaseOf(g) = Refused
         /\ REnd(x) <= Len(g) => /\ SubtreeRootsOf(g) = x.roots /\ RootsEnd(g) = REnd(x)
                                 /\ ~(Len(g) < PrefixLen) /\ ~(RootsEnd(g) > Len(g))
  <2> USE <1>FrameRoots
  <2>1. Upon(PrefixLen, REnd(x)) /\ Len(g) \in Nat /\ REnd(x) \in Nat /\ PrefixLen \in Nat
    BY <1>FrameOrdered DEF Upon
  <2>2. ASSUME Len(g) < REnd(x)
        PROVE  SubtreeRootsOf(g) = Refused /\ CoinbaseOf(g) = Refused
    <3>1. Len(g) < PrefixLen \/ PrefixLen <= Len(g)
      BY SMT, <2>1
    <3>2. ASSUME PrefixLen <= Len(g)
          PROVE  RootsEnd(g) > Len(g)
      <4>1. RootsEnd(g) = REnd(x)
        BY <3>2, <1>FrameCount
      <4>2. REnd(x) > Len(g)
        BY SMT, <2>1, <2>2
      <4> QED
        BY <4>1, <4>2
    <3> QED
      BY <3>1, <3>2 DEF SubtreeRootsOf, CoinbaseOf
  <2>3. ASSUME REnd(x) <= Len(g)
        PROVE  /\ SubtreeRootsOf(g) = x.roots /\ RootsEnd(g) = REnd(x)
               /\ ~(Len(g) < PrefixLen) /\ ~(RootsEnd(g) > Len(g))
    <3>1. PrefixLen <= Len(g) /\ ~(Len(g) < PrefixLen) /\ ~(REnd(x) > Len(g))
      BY SMT, <2>1, <2>3 DEF Upon
    <3>2. RootCount(g) = Len(x.roots) /\ RootsEnd(g) = REnd(x)
      BY <3>1, <1>FrameCount
    <3>3. x \in Block144 /\ g \in Str
      BY DEF Part
    <3>4. /\ At(BlockFrame(x), PrefixLen, Flatten(x.roots)) /\ Flatten(x.roots) \in Str
          /\ Len(Flatten(x.roots)) = Len(x.roots) * HashLen /\ x.roots \in Seq(Hash)
      BY <3>3, FrameIs, Lengths, BlockIs DEF Placed
    <3>5. PrefixLen + Len(Flatten(x.roots)) <= Len(g)
      BY <2>3, <3>4 DEF REnd
    <3>6. At(g, PrefixLen, Flatten(x.roots))
      BY <2>1, <3>4, <3>5, <1>PartAt
    <3>7. [i \in 1..Len(x.roots) |-> Slice(g, PrefixLen + (i - 1) * HashLen, HashLen)] = x.roots
      BY <2>1, <3>3, <3>4, <3>6, RootsAt
    <3>8. SubtreeRootsOf(g) = [i \in 1..RootCount(g) |-> Slice(g, PrefixLen + (i - 1) * HashLen, HashLen)]
      BY <3>1, <3>2 DEF SubtreeRootsOf
    <3> QED
      BY <3>1, <3>2, <3>7, <3>8
  <2> QED
    BY <2>2, <2>3

\* CoinbaseTx returns the coinbase of a frame that holds all of it, and refuses any other.
<1>FrameCoinbase.
  ASSUME NEW x, NEW g, Part(x, g), REnd(x) <= Len(g)
  PROVE  /\ Len(g) < CEnd(x) => CoinbaseOf(g) = Refused
         /\ CEnd(x) <= Len(g) => CoinbaseOf(g) = x.coinbase /\ HeightAt(g) = CEnd(x)
  <2> USE <1>FrameCoinbase
  <2>1. x \in Block144 /\ g \in Str /\ Begins(BlockFrame(x), g)
    BY DEF Part
  <2>2. BlockFrame(x) \in Str /\ At(BlockFrame(x), REnd(x), x.coinbase)
    BY <2>1, FrameIs DEF Placed
  <2>3. x.coinbase \in Str /\ Tx(x.coinbase) /\ Len(x.coinbase) # 0
    BY <2>1, BlockIs DEF Tx
  <2>4. /\ REnd(x) \in Nat /\ RootsEnd(g) = REnd(x) /\ ~(Len(g) < PrefixLen)
        /\ ~(RootsEnd(g) > Len(g)) /\ CEnd(x) = REnd(x) + Len(x.coinbase)
    BY <1>FrameOrdered, <1>FrameRoots DEF Upon, CEnd
  <2>5. CoinbaseOf(g) = IF TxSize(From(g, REnd(x))) = 0 THEN Refused
                        ELSE Slice(g, REnd(x), TxSize(From(g, REnd(x))))
    BY <2>4 DEF CoinbaseOf
  <2>6. ASSUME Len(g) < CEnd(x)
        PROVE  CoinbaseOf(g) = Refused
    <3>1. TxSize(From(g, REnd(x))) = 0
      BY <2>1, <2>2, <2>3, <2>4, <2>6, TxMeasured
    <3> QED
      BY <2>5, <3>1
  <2>7. ASSUME CEnd(x) <= Len(g)
        PROVE  CoinbaseOf(g) = x.coinbase
    <3>1. At(g, REnd(x), x.coinbase)
      BY <2>2, <2>3, <2>4, <2>7, <1>PartAt
    <3>2. TxSize(From(g, REnd(x))) = Len(x.coinbase)
      BY <2>1, <2>3, <2>4, <3>1, TxMeasured
    <3>3. Slice(g, REnd(x), Len(x.coinbase)) = x.coinbase
      BY <2>1, <2>3, <2>4, <3>1, SliceAt
    <3> QED
      BY <2>3, <2>5, <3>2, <3>3
  <2> QED
    BY <2>4, <2>6, <2>7 DEF HeightAt

\* The length of the BUMP.
<1>FrameBump.
  ASSUME NEW x, NEW g, Part(x, g), CEnd(x) + 16 <= Len(g), HeightAt(g) = CEnd(x)
  PROVE  BumpLen(g) = Len(x.bump)
  <2> USE <1>FrameBump
  <2>1. x \in Block144 /\ g \in Str
    BY DEF Part
  <2>2. At(BlockFrame(x), CEnd(x) + 8, U64(Len(x.bump)))
    BY <2>1, FrameIs DEF Placed
  <2>3. /\ U64(Len(x.bump)) \in Str /\ Len(U64(Len(x.bump))) = 8
        /\ IntOf(U64(Len(x.bump))) = Len(x.bump)
    BY <2>1, Lengths, CountIs
  <2>4. CEnd(x) + 8 \in Nat /\ CEnd(x) + 8 + 8 = CEnd(x) + 16
    BY <1>FrameOrdered DEF Upon
  <2>5. At(g, CEnd(x) + 8, U64(Len(x.bump)))
    BY <2>2, <2>3, <2>4, <1>PartAt
  <2>6. Slice(g, CEnd(x) + 8, 8) = U64(Len(x.bump))
    BY <2>1, <2>3, <2>4, <2>5, SliceAt
  <2> QED
    BY <2>3, <2>6 DEF BumpLen

\* ToTeranode refuses a frame that lost its end.
<1>ToCut.
  ASSUME NEW x, NEW g, Part(x, g), Len(g) < FEnd(x)
  PROVE  ToTeranode(g) = Refused
  <2> USE <1>ToCut
  <2>1. /\ Upon(REnd(x), CEnd(x)) /\ Upon(CEnd(x), CEnd(x) + 8) /\ Upon(CEnd(x) + 8, CEnd(x) + 16)
        /\ Len(g) \in Nat
    BY <1>FrameOrdered
  <2>2. REnd(x) \in Nat /\ CEnd(x) \in Nat /\ CEnd(x) + 16 \in Nat
    BY <2>1 DEF Upon
  <2>3. \/ Len(g) < REnd(x) \/ (REnd(x) <= Len(g) /\ Len(g) < CEnd(x))
        \/ (CEnd(x) <= Len(g) /\ Len(g) < CEnd(x) + 16) \/ CEnd(x) + 16 <= Len(g)
    BY SMTT(30), <2>1, <2>2
  <2>4. CASE Len(g) < REnd(x)
    BY <2>4, <1>FrameRoots DEF ToTeranode
  <2>5. CASE REnd(x) <= Len(g) /\ Len(g) < CEnd(x)
    BY <2>5, <1>FrameCoinbase DEF ToTeranode
  <2>6. ASSUME CEnd(x) <= Len(g)
        PROVE  HeightAt(g) = CEnd(x)
    <3>1. REnd(x) <= Len(g)
      BY <2>1, <2>6, Reaches
    <3> QED
      BY <2>6, <3>1, <1>FrameCoinbase
  <2>7. CASE CEnd(x) <= Len(g) /\ Len(g) < CEnd(x) + 16
    <3>1. CEnd(x) + 16 > Len(g)
      BY SMTT(30), <2>1, <2>2, <2>7
    <3> QED
      BY <2>6, <2>7, <3>1 DEF ToTeranode
  <2>8. CASE CEnd(x) + 16 <= Len(g)
    <3>1. CEnd(x) + 8 <= Len(g)
      BY <2>1, <2>8, Reaches
    <3>2. CEnd(x) <= Len(g)
      BY <2>1, <3>1, Reaches
    <3>3. HeightAt(g) = CEnd(x)
      BY <2>6, <3>2
    <3>4. BumpLen(g) = Len(x.bump)
      BY <2>8, <3>3, <1>FrameBump
    <3>5. HeightAt(g) + 16 + BumpLen(g) = FEnd(x)
      BY <3>3, <3>4 DEF FEnd
    <3>6. FEnd(x) # Len(g)
      <4>1. FEnd(x) \in Nat
        BY <1>FrameOrdered DEF Upon
      <4> QED
        BY SMTT(30), <2>1, <4>1
    <3> QED
      BY <3>5, <3>6 DEF ToTeranode
  <2> QED
    BY <2>3, <2>4, <2>5, <2>7, <2>8

\* The eight bytes where a count lies are that count.
<1>CountSlice.
  ASSUME NEW b \in Str, NEW off \in Nat, NEW v \in Count, At(b, off, v)
  PROVE  Slice(b, off, 8) = v
  <2> USE <1>CountSlice
  <2>1. v \in Str /\ Len(v) = 8
    BY CountIs
  <2>2. Slice(b, off, Len(v)) = v
    BY <2>1, SliceAt
  <2> QED
    BY <2>1, <2>2

\* ToTeranode writes the whole frame of a block as Teranode does, unless a root is the
\* coinbase placeholder.
<1>ToWhole.
  ASSUME NEW x \in Block144
  PROVE  /\ ToTeranode(BlockFrame(x)) = IF ZeroRoot \in Range(x.roots) THEN Refused ELSE Wire(x)
         /\ SubtreeRootsOf(BlockFrame(x)) = x.roots /\ CoinbaseOf(BlockFrame(x)) = x.coinbase
  <2> USE <1>ToWhole
  <2> DEFINE g == BlockFrame(x)
  <2>1. /\ g \in Str /\ Len(g) = FEnd(x) /\ At(g, 0, x.header) /\ At(g, HeaderLen, x.txCount)
        /\ At(g, HeaderLen + 8, x.size) /\ At(g, CEnd(x), x.height) /\ At(g, CEnd(x) + 16, x.bump)
    BY FrameIs DEF Placed
  <2>2. Part(x, g)
    BY <2>1, BeginsWhole DEF Part
  <2> HIDE DEF g
  <2>3. /\ Upon(REnd(x), CEnd(x)) /\ Upon(CEnd(x), CEnd(x) + 8) /\ Upon(CEnd(x) + 8, CEnd(x) + 16)
        /\ Upon(CEnd(x) + 16, FEnd(x)) /\ Len(g) \in Nat
    BY <2>2, <1>FrameOrdered
  <2>4. /\ REnd(x) \in Nat /\ CEnd(x) \in Nat /\ CEnd(x) + 16 \in Nat /\ FEnd(x) \in Nat
        /\ CEnd(x) + 16 <= FEnd(x)
    BY <2>3 DEF Upon
  <2>5. CEnd(x) + 16 <= Len(g) /\ ~(CEnd(x) + 16 > Len(g))
    BY SMTT(30), <2>1, <2>4
  <2>6. CEnd(x) + 8 <= Len(g)
    BY <2>3, <2>5, Reaches
  <2>7. CEnd(x) <= Len(g)
    BY <2>3, <2>6, Reaches
  <2>8. REnd(x) <= Len(g)
    BY <2>3, <2>7, Reaches
  <2>9. SubtreeRootsOf(g) = x.roots
    BY <2>2, <2>8, <1>FrameRoots
  <2>10. CoinbaseOf(g) = x.coinbase /\ HeightAt(g) = CEnd(x)
    BY <2>2, <2>7, <2>8, <1>FrameCoinbase
  <2>11. BumpLen(g) = Len(x.bump)
    BY <2>2, <2>5, <2>10, <1>FrameBump
  <2>12. HeightAt(g) + 16 + BumpLen(g) = Len(g)
    BY <2>1, <2>10, <2>11 DEF FEnd
  <2>13. /\ x.header \in Str /\ Len(x.header) = HeaderLen /\ x.roots \in Seq(Hash)
         /\ x.txCount \in Count /\ x.size \in Count /\ x.height \in Count
         /\ x.coinbase \in Str /\ x.bump \in Str
    BY BlockIs
  <2>14. x.roots # Refused /\ x.coinbase # Refused
    BY <2>13, FramesAssumption DEF Str
  <2>15. Converted(g) = Wire(x)
    <3>2. 0 \in Nat /\ HeaderLen \in Nat /\ HeaderLen + 8 \in Nat
      <4>1. HeaderLen \in Nat
        BY FramesAssumption
      <4> QED
        BY SMT, <4>1
    <3>3. Slice(g, 0, HeaderLen) = x.header
      BY <2>1, <2>13, <3>2, SliceAt
    <3>4. Slice(g, HeaderLen, 8) = x.txCount
      BY <2>1, <2>13, <3>2, <1>CountSlice
    <3>5. Slice(g, HeaderLen + 8, 8) = x.size
      BY <2>1, <2>13, <3>2, <1>CountSlice
    <3>6. Slice(g, CEnd(x), 8) = x.height
      BY <2>1, <2>4, <2>13, <1>CountSlice
    <3>7. From(g, CEnd(x) + 16) = x.bump
      <4>1. Slice(g, CEnd(x) + 16, Len(x.bump)) = x.bump
        BY <2>1, <2>4, <2>13, SliceAt
      <4>2. Len(g) = CEnd(x) + 16 + Len(x.bump)
        BY <2>1 DEF FEnd
      <4> QED
        BY <4>1, <4>2 DEF Slice, From
    <3> QED
      BY <2>9, <2>10, <2>11, <3>3, <3>4, <3>5, <3>6, <3>7 DEF Converted, Wire
  <2>16. ToTeranode(g) = IF ZeroRoot \in Range(x.roots) THEN Refused ELSE Wire(x)
    BY <2>5, <2>9, <2>10, <2>12, <2>14, <2>15 DEF ToTeranode
  <2> QED
    BY <2>9, <2>10, <2>16 DEF g

<1> QED
  BY <1>ToCut, <1>ToWhole

-----------------------------------------------------------------------------
(* What the codecs promise. *)

\* The frame of a block without the coinbase placeholder among its roots.
LEMMA Encoded ==
  ASSUME NEW x \in Block144, ZeroRoot \notin Range(x.roots)
  PROVE  EncodeBlock(x) = BlockFrame(x) /\ ToTeranode(EncodeBlock(x)) = Wire(x)
<1>1. Len(x.header) = HeaderLen /\ Tx(x.coinbase)
  BY BlockIs
<1>2. TxSize(x.coinbase) = Len(x.coinbase) /\ Len(x.coinbase) # 0
  BY <1>1 DEF Tx
<1>3. x.coinbase # <<>>
  BY SMT, <1>2
<1>4. EncodeBlock(x) = BlockFrame(x)
  BY <1>1, <1>2, <1>3 DEF EncodeBlock
<1> QED
  BY <1>4, FrameConverted

\* Teranode's serialization of a block is read back as that block.
LEMMA ReadsBack ==
  ASSUME NEW x \in Block144
  PROVE  FromTeranode(Wire(x)) = x /\ Wire(x) \in Str
<1>1. PICK p : Layout(x, p)
  BY WireIs
<1>2. Wire(x) \in Str /\ Len(Wire(x)) = p[9]
  BY <1>1 DEF Layout, Nine
<1>3. Cut(x, p, Wire(x))
  BY <1>1, <1>2, BeginsWhole DEF Cut
<1>4. p[9] # p[7]
  <2>1. Upon(p[8], p[9]) /\ p[7] < p[8] /\ Upon(p[7], p[8])
    BY <1>3, OrderedIs DEF Ordered, InOrder
  <2> QED
    BY SMT, <2>1 DEF Upon
<1>5. FromTeranode(Wire(x)) = WithBump(x, x.bump)
  BY <1>2, <1>3, <1>4, WireDecoded
<1> QED
  BY <1>2, <1>5, WithBumpIs

\* The first bytes of a string are a beginning of it.
LEMMA FirstBytes ==
  ASSUME NEW w \in Str, NEW n \in Nat, n <= Len(w)
  PROVE  Slice(w, 0, n) \in Str /\ Len(Slice(w, 0, n)) = n /\ Begins(w, Slice(w, 0, n))
<1>1. 0 \in Nat /\ 0 + n = n /\ \A i \in 1..n : 0 + i = i
  BY SMT
<1>2. /\ Slice(w, 0, n) \in Str /\ Len(Slice(w, 0, n)) = n
      /\ \A i \in 1..n : Slice(w, 0, n)[i] = w[0 + i]
  BY <1>1, SliceIs
<1>3. ASSUME NEW i \in 1..n
      PROVE  w[i] = Slice(w, 0, n)[i]
  <2>1. 0 + i = i
    BY <1>1
  <2> QED
    BY <1>2, <2>1
<1> QED
  BY <1>2, <1>3 DEF Begins

\* Two parts behind the first a bytes, and back again.
Back(a, k, m) == (a + k + m) - k - m = a

\* They cancel.
LEMMA Backwards ==
  ASSUME NEW a \in Nat, NEW k \in Nat, NEW m \in Nat
  PROVE  Back(a, k, m)
BY SMT DEF Back

\* Every block without the coinbase placeholder among its roots survives the paths
\* between its forms: encode.Block, ToTeranode, FromTeranode, SubtreeRoots, CoinbaseTx.
THEOREM BlocksSurvive ==
  ASSUME NEW b \in Block144, ZeroRoot \notin Range(b.roots)
  PROVE  Survives(b)
<1>1. EncodeBlock(b) = BlockFrame(b) /\ ToTeranode(EncodeBlock(b)) = Wire(b)
  BY Encoded
<1>2. SubtreeRootsOf(BlockFrame(b)) = b.roots /\ CoinbaseOf(BlockFrame(b)) = b.coinbase
  BY FrameConverted
<1>3. FromTeranode(Wire(b)) = b
  BY ReadsBack
<1> QED
  BY <1>1, <1>2, <1>3 DEF Survives

\* No beginning of the frame of such a block is converted by ToTeranode; a beginning of
\* its Teranode form is read by FromTeranode only where the format may end without a BUMP.
THEOREM CutBlocksRefused ==
  ASSUME NEW b \in Block144, ZeroRoot \notin Range(b.roots)
  PROVE  CutsRefused(b)
<1> DEFINE frame == BlockFrame(b)
           wire == Wire(b)
           noBump == Len(wire) - Len(AppendVarInt(U64(Len(b.bump)))) - Len(b.bump)
<1>1. EncodeBlock(b) = frame /\ ToTeranode(EncodeBlock(b)) = wire
  BY Encoded
<1>2. ASSUME NEW n \in 0..(Len(frame) - 1)
      PROVE  ToTeranode(Slice(frame, 0, n)) = Refused
  <2>1. frame \in Str /\ Len(frame) = FEnd(b)
    BY FrameIs DEF Placed
  <2> HIDE DEF frame
  <2>2. n \in Nat /\ n <= Len(frame) /\ n < Len(frame)
    BY SMTT(30), <2>1 DEF Str
  <2>3. /\ Slice(frame, 0, n) \in Str /\ Len(Slice(frame, 0, n)) = n
        /\ Begins(frame, Slice(frame, 0, n))
    BY <2>1, <2>2, FirstBytes
  <2>4. Part(b, Slice(frame, 0, n)) /\ Len(Slice(frame, 0, n)) < FEnd(b)
    BY <2>1, <2>2, <2>3 DEF Part, frame
  <2> QED
    BY <2>4, FrameConverted
<1>3. ASSUME NEW n \in 0..(Len(wire) - 1)
      PROVE  FromTeranode(Slice(wire, 0, n)) =
               IF n = noBump THEN [b EXCEPT !.bump = <<>>] ELSE Refused
  <2>1. PICK p : Layout(b, p)
    BY WireIs
  <2>2. /\ wire \in Str /\ Len(wire) = p[9] /\ p[9] = p[8] + Len(b.bump)
        /\ p[8] = p[7] + Len(AppendVarInt(U64(Len(b.bump))))
    BY <2>1 DEF Layout, Nine
  <2> HIDE DEF wire
  <2>3. n \in Nat /\ n <= Len(wire) /\ n < Len(wire)
    BY SMTT(30), <2>2 DEF Str
  <2> DEFINE w == Slice(wire, 0, n)
  <2>4. w \in Str /\ Len(w) = n /\ Begins(wire, w)
    BY <2>2, <2>3, FirstBytes
  <2> HIDE DEF w
  <2>5. Cut(b, p, w)
    BY <2>1, <2>4 DEF Cut, wire
  <2>6. Upon(p[7], p[8]) /\ Upon(p[8], p[9])
    BY <2>5, OrderedIs DEF Ordered, InOrder
  <2>7. AppendVarInt(U64(Len(b.bump))) \in Str /\ b.bump \in Str
    BY Lengths, BlockIs, VarIntCodec
  <2> DEFINE k == Len(AppendVarInt(U64(Len(b.bump))))
             m == Len(b.bump)
  <2>8. k \in Nat /\ m \in Nat
    BY SMT, <2>7 DEF Str
  <2>9. p[7] \in Nat /\ p[8] \in Nat /\ p[9] \in Nat
    BY <2>6 DEF Upon
  <2> HIDE DEF k, m
  <2>10. noBump = p[7]
    <3>1. Len(wire) = p[7] + k + m
      BY <2>2 DEF k, m
    <3>2. Back(p[7], k, m)
      BY <2>8, <2>9, Backwards
    <3>3. Len(wire) - k - m = p[7]
      BY <3>1, <3>2 DEF Back
    <3> QED
      BY <3>3 DEF k, m
  <2> HIDE DEF noBump
  <2>11. CASE n = p[7]
    <3>1. FromTeranode(w) = WithBump(b, <<>>)
      BY <2>4, <2>5, <2>11, WireDecoded
    <3> QED
      BY <2>10, <2>11, <3>1, WithBumpIs DEF w
  <2>12. CASE n # p[7]
    <3>1. n < p[7] \/ (p[7] < n /\ n < p[9])
      BY SMTT(30), <2>2, <2>3, <2>9, <2>12
    <3>2. FromTeranode(w) = Refused
      BY <2>4, <2>5, <3>1, WireDecoded
    <3> QED
      BY <2>10, <2>12, <3>2 DEF w
  <2> QED
    BY <2>11, <2>12
<1> QED
  BY <1>1, <1>2, <1>3 DEF CutsRefused

-----------------------------------------------------------------------------
(* What the plane asks of its codecs, in every state. *)

\* THEOREM: the conversions the listening plane serves blocks with lose nothing: for
\* all blocks, not only those at the boundaries of CompactSize (RoundTrip).
THEOREM ConversionIsLossless == Spec => []RoundTrip
<1>1. AllSurvive
  BY FramesAssumption, BlocksSurvive DEF AllSurvive
<1>2. RoundTrip
  BY <1>1 DEF RoundTrip
<1> QED
  BY <1>2, PTL

\* THEOREM: nor do they let a cut pass: no frame that lost its end is converted, and
\* no Teranode block that did is read as a whole one (TruncationRefused).
THEOREM CutsAreRefused == Spec => []TruncationRefused
<1>1. AllCutsRefused
  BY FramesAssumption, CutBlocksRefused DEF AllCutsRefused
<1>2. TruncationRefused
  BY <1>1 DEF TruncationRefused
<1> QED
  BY <1>2, PTL

-----------------------------------------------------------------------------
(* The ids of a list but the coinbase's. *)

\* f is the function that Kept defines, on the first n ids.
Keeps(f, q, n) ==
  f = [i \in 0..n |-> IF i = 0 THEN <<>>
                      ELSE IF isPlaceholder(q[i]) THEN f[i - 1] ELSE Append(f[i - 1], q[i])]

\* There is one.
LEMMA KeepsExist ==
  ASSUME NEW q, NEW n \in Nat
  PROVE  \E f : Keeps(f, q, n)
<1> DEFINE S == {m \in Nat : \E f : Keeps(f, q, m)}
           More(s, h) == IF isPlaceholder(h) THEN s ELSE Append(s, h)
<1>1. 0 \in S
  <2> DEFINE g == [i \in 0..0 |-> <<>>]
  <2>1. Keeps(g, q, 0)
    BY SMT DEF Keeps
  <2> QED
    BY SMT, <2>1
<1>2. ASSUME NEW m \in Nat, m \in S PROVE m + 1 \in S
  <2>1. PICK f : Keeps(f, q, m)
    BY SMT, <1>2
  <2> DEFINE g == [i \in 0..(m + 1) |-> IF i = m + 1 THEN More(f[m], q[m + 1]) ELSE f[i]]
  <2>2. Keeps(g, q, m + 1)
    <3>1. \A i \in 0..(m + 1) :
            \/ i = m + 1 /\ i # 0 /\ i - 1 = m /\ m \in 0..(m + 1) /\ m # m + 1
            \/ i = 0 /\ i # m + 1 /\ i \in 0..m
            \/ i # m + 1 /\ i # 0 /\ i \in 0..m /\ i - 1 \in 0..(m + 1) /\ i - 1 # m + 1
      BY SMT
    <3>2. \A i \in 0..m : f[i] = IF i = 0 THEN <<>> ELSE More(f[i - 1], q[i])
      BY <2>1 DEF Keeps
    <3>3. \A i \in 0..(m + 1) : g[i] = IF i = m + 1 THEN More(f[m], q[m + 1]) ELSE f[i]
      OBVIOUS
    <3>4. g = [i \in 0..(m + 1) |-> g[i]]
      OBVIOUS
    <3> HIDE DEF g, More
    <3>5. ASSUME NEW i \in 0..(m + 1) PROVE g[i] = IF i = 0 THEN <<>> ELSE More(g[i - 1], q[i])
      BY <3>1, <3>2, <3>3
    <3>6. g = [i \in 0..(m + 1) |-> IF i = 0 THEN <<>> ELSE More(g[i - 1], q[i])]
      BY <3>4, <3>5
    <3> QED
      BY <3>6 DEF Keeps, More
  <2> QED
    BY SMTT(30), <2>2
<1> HIDE DEF S
<1>3. Nat \subseteq S
  BY <1>1, <1>2, SetInduction
<1> QED
  BY <1>3 DEF S

\* What the first n ids of a list leave.
LEMMA KeptIs ==
  ASSUME NEW q \in Seq(Hash)
  PROVE  /\ Kept(q)[0] = <<>>
         /\ \A n \in Nat : n < Len(q) =>
              /\ q[n + 1] \in Hash
              /\ isPlaceholder(q[n + 1]) => Kept(q)[n + 1] = Kept(q)[n]
              /\ ~isPlaceholder(q[n + 1]) => Kept(q)[n + 1] = Append(Kept(q)[n], q[n + 1])
<1>1. Len(q) \in Nat
  BY SMT
<1>2. \E f : Keeps(f, q, Len(q))
  BY <1>1, KeepsExist
<1>3. Keeps(Kept(q), q, Len(q))
  BY <1>2 DEF Kept, Keeps
<1>4. \A i \in 0..Len(q) :
        Kept(q)[i] = IF i = 0 THEN <<>>
                     ELSE IF isPlaceholder(q[i]) THEN Kept(q)[i - 1]
                     ELSE Append(Kept(q)[i - 1], q[i])
  BY <1>3 DEF Keeps
<1>5. 0 \in 0..Len(q)
  BY SMT, <1>1
<1>6. ASSUME NEW n \in Nat, n < Len(q)
      PROVE  /\ q[n + 1] \in Hash
             /\ isPlaceholder(q[n + 1]) => Kept(q)[n + 1] = Kept(q)[n]
             /\ ~isPlaceholder(q[n + 1]) => Kept(q)[n + 1] = Append(Kept(q)[n], q[n + 1])
  <2> DEFINE m == n + 1
  <2>1. m \in 0..Len(q) /\ m # 0 /\ m - 1 = n /\ m \in 1..Len(q)
    BY SMTT(30), <1>1, <1>6
  <2>2. q[m] \in Hash
    BY SMT, <2>1
  <2> HIDE DEF m
  <2>3. Kept(q)[m] = IF isPlaceholder(q[m]) THEN Kept(q)[n] ELSE Append(Kept(q)[n], q[m])
    BY <1>4, <2>1
  <2> QED
    BY <2>2, <2>3 DEF m
<1> QED
  BY <1>4, <1>5, <1>6

\* Lists of ids without the coinbase's.
Clean == Seq(Hash \ {Placeholder})

\* Kept leaves such a list.
LEMMA KeptClean ==
  ASSUME NEW q \in Seq(Hash), NEW n \in Nat, n <= Len(q)
  PROVE  Kept(q)[n] \in Clean
<1> DEFINE S == {m \in Nat : m <= Len(q) => Kept(q)[m] \in Clean}
<1>1. Len(q) \in Nat
  BY SMT
<1>2. 0 \in S
  <2>1. <<>> \in Clean
    BY SMT DEF Clean
  <2> QED
    BY <2>1, KeptIs
<1>3. ASSUME NEW m \in Nat, m \in S PROVE m + 1 \in S
  <2>1. m + 1 \in Nat
    BY SMT
  <2>2. ASSUME m + 1 <= Len(q) PROVE Kept(q)[m + 1] \in Clean
    <3>1. m < Len(q) /\ m <= Len(q)
      BY SMT, <1>1, <2>2
    <3>2. Kept(q)[m] \in Clean
      BY <1>3, <3>1
    <3>3. CASE isPlaceholder(q[m + 1])
      BY <3>1, <3>2, <3>3, KeptIs
    <3>4. CASE ~isPlaceholder(q[m + 1])
      <4>1. q[m + 1] \in Hash \ {Placeholder}
        BY <3>1, <3>4, KeptIs DEF isPlaceholder
      <4>2. Append(Kept(q)[m], q[m + 1]) \in Clean
        BY <3>2, <4>1, Longer DEF Clean
      <4> QED
        BY <3>1, <3>4, <4>2, KeptIs
    <3> QED
      BY <3>3, <3>4
  <2> QED
    BY <2>1, <2>2
<1> HIDE DEF S
<1>4. Nat \subseteq S
  BY <1>2, <1>3, SetInduction
<1> QED
  BY <1>4 DEF S

\* A clean list is a list of hashes, none of them the coinbase's.
LEMMA CleanIs ==
  ASSUME NEW q \in Clean
  PROVE  /\ q \in Seq(Hash) /\ Len(q) \in Nat
         /\ \A n \in Nat : n < Len(q) => ~isPlaceholder(q[n + 1])
<1>1. q \in Seq(Hash) /\ Len(q) \in Nat
  BY SMT DEF Clean
<1>2. ASSUME NEW n \in Nat, n < Len(q) PROVE ~isPlaceholder(q[n + 1])
  <2>1. n + 1 \in 1..Len(q)
    BY SMTT(30), <1>1, <1>2
  <2>2. q[n + 1] \in Hash \ {Placeholder}
    BY SMT, <2>1 DEF Clean
  <2> QED
    BY <2>2 DEF isPlaceholder
<1> QED
  BY <1>1, <1>2

\* It loses nothing more.
LEMMA MembersOnce ==
  ASSUME NEW q \in Clean
  PROVE  Members(q) = q
<1> DEFINE S == {m \in Nat : m <= Len(q) => Kept(q)[m] = SubSeq(q, 1, m)}
<1>1. q \in Seq(Hash) /\ Len(q) \in Nat /\ \A n \in Nat : n < Len(q) => ~isPlaceholder(q[n + 1])
  BY CleanIs
<1>2. 0 \in S
  <2>1. SubSeq(q, 1, 0) = <<>> /\ 0 \in Nat
    BY SMT, <1>1
  <2> QED
    BY <1>1, <2>1, KeptIs
<1>3. ASSUME NEW m \in Nat, m \in S PROVE m + 1 \in S
  <2>1. m + 1 \in Nat
    BY SMT
  <2>2. ASSUME m + 1 <= Len(q) PROVE Kept(q)[m + 1] = SubSeq(q, 1, m + 1)
    <3>1. m < Len(q) /\ m <= Len(q)
      BY SMT, <1>1, <2>2
    <3>2. Kept(q)[m] = SubSeq(q, 1, m)
      BY <1>3, <3>1
    <3>3. Append(SubSeq(q, 1, m), q[m + 1]) = SubSeq(q, 1, m + 1)
      BY SMT, <1>1, <3>1
    <3> QED
      BY <1>1, <3>1, <3>2, <3>3, KeptIs
  <2> QED
    BY <2>1, <2>2
<1> HIDE DEF S
<1>4. Nat \subseteq S
  BY <1>2, <1>3, SetInduction
<1>5. Len(q) <= Len(q) /\ SubSeq(q, 1, Len(q)) = q
  BY SMT, <1>1
<1> QED
  BY <1>1, <1>4, <1>5 DEF S, Members

\* The members of a subtree, and of that list again.
LEMMA MembersIs ==
  ASSUME NEW q \in Seq(Hash)
  PROVE  /\ Members(q) \in Clean /\ Members(q) \in Seq(Hash) /\ Members(Members(q)) = Members(q)
<1>1. Len(q) \in Nat /\ Len(q) <= Len(q)
  BY SMT
<1>2. Members(q) \in Clean
  BY <1>1, KeptClean DEF Members
<1> QED
  BY <1>2, CleanIs, MembersOnce

-----------------------------------------------------------------------------
(* The walk over the members. *)

\* A list of ids, each of them in standard form.
Std(s) == [j \in DOMAIN s |-> toStandard(s[j])]

\* One more id.
LEMMA StdMore ==
  ASSUME NEW s \in Seq(Hash), NEW h \in Hash
  PROVE  Append(Std(s), toStandard(h)) = Std(Append(s, h))
<1> DEFINE T == {toStandard(x) : x \in Hash}
           r == Append(s, h)
<1>1. /\ Len(s) \in Nat /\ DOMAIN s = 1..Len(s) /\ \A i \in 1..Len(s) : s[i] \in Hash
      /\ r \in Seq(Hash) /\ Len(r) = Len(s) + 1 /\ DOMAIN r = 1..Len(r)
      /\ \A i \in 1..Len(s) : r[i] = s[i]
      /\ r[Len(s) + 1] = h
  BY SMT
<1> HIDE DEF r
<1>2. Std(s) \in Seq(T) /\ Len(Std(s)) = Len(s) /\ \A i \in 1..Len(s) : Std(s)[i] = toStandard(s[i])
  <2> DEFINE a == Std(s)
             n == Len(s)
  <2>1. a \in [1..n -> T] /\ \A i \in 1..n : a[i] = toStandard(s[i])
    BY <1>1 DEF Std
  <2>2. n \in Nat
    BY <1>1
  <2> HIDE DEF a, n, T
  <2>3. a \in Seq(T) /\ Len(a) = n
    BY SMT, <2>1, <2>2
  <2> QED
    BY <2>1, <2>3 DEF a, n
<1>3. toStandard(h) \in T
  BY SMT
<1> HIDE DEF T
<1> DEFINE u == Append(Std(s), toStandard(h))
           v == Std(r)
<1>4. /\ u \in Seq(T) /\ Len(u) = Len(s) + 1 /\ \A i \in 1..Len(s) : u[i] = toStandard(s[i])
      /\ u[Len(s) + 1] = toStandard(h)
  BY SMTT(30), <1>1, <1>2, <1>3
<1>5. v = [i \in 1..(Len(s) + 1) |-> toStandard(r[i])]
  BY <1>1 DEF Std
<1> HIDE DEF u, v
<1>6. u = [i \in 1..(Len(s) + 1) |-> u[i]]
  <2>1. u \in [1..Len(u) -> T]
    BY <1>4, Indexed
  <2> QED
    BY <1>4, <2>1
<1>7. ASSUME NEW i \in 1..(Len(s) + 1) PROVE u[i] = toStandard(r[i])
  <2>1. i \in 1..Len(s) \/ i = Len(s) + 1
    BY SMT, <1>1
  <2> QED
    BY <1>1, <1>4, <2>1
<1>8. u = v
  BY <1>5, <1>6, <1>7
<1> QED
  BY <1>8 DEF u, v, r

\* What is left of a string, in two steps.
LEMMA FromFrom ==
  ASSUME NEW b \in Str, NEW o \in Nat, NEW h \in Nat \ {0}, o + h <= Len(b)
  PROVE  /\ Len(From(b, o)) \in Nat /\ Len(From(b, o)) >= h
         /\ From(From(b, o), h) = From(b, o + h)
         /\ Slice(From(b, o), 0, h) = Slice(b, o, h)
<1> DEFINE f == From(b, o)
           g == From(f, h)
           e == From(b, o + h)
           s == Slice(f, 0, h)
           t == Slice(b, o, h)
           n == Len(b)
<1>1. n \in Nat /\ o <= n /\ o + h \in Nat /\ h <= n - o /\ 0 + h <= n - o /\ (n - o) - h = n - (o + h)
  BY SMT DEF Str
<1>2. f \in Str /\ Len(f) = n - o /\ \A i \in 1..(n - o) : f[i] = b[o + i]
  BY <1>1, FromIs
<1>3. e \in Str /\ Len(e) = n - (o + h) /\ \A i \in 1..(n - (o + h)) : e[i] = b[(o + h) + i]
  BY <1>1, FromIs
<1>4. g \in Str /\ Len(g) = Len(f) - h /\ \A i \in 1..(Len(f) - h) : g[i] = f[h + i]
  BY <1>1, <1>2, FromIs
<1>5. s \in Str /\ Len(s) = h /\ \A i \in 1..h : s[i] = f[0 + i]
  <2> HIDE DEF f
  <2>1. 0 \in Nat /\ h \in Nat /\ 0 + h <= Len(f)
    BY SMT, <1>1, <1>2
  <2> QED
    BY <1>2, <2>1, SliceIs
<1>6. t \in Str /\ Len(t) = h /\ \A i \in 1..h : t[i] = b[o + i]
  BY <1>1, SliceIs
<1> HIDE DEF f, g, e, s, t, n
<1>7. Len(f) \in Nat /\ Len(f) >= h
  <2> DEFINE l == Len(f)
  <2>1. l = n - o
    BY <1>2
  <2> HIDE DEF l
  <2>2. l \in Nat /\ l >= h
    BY SMT, <1>1, <2>1
  <2> QED
    BY <2>2 DEF l
<1>8. g = e
  <2>1. Len(g) = Len(e)
    BY <1>1, <1>2, <1>3, <1>4
  <2>2. ASSUME NEW i \in 1..Len(g) PROVE g[i] = e[i]
    <3>1. i \in 1..(n - (o + h)) /\ i \in 1..(Len(f) - h) /\ h + i \in 1..(n - o) /\ o + (h + i) = (o + h) + i
      BY SMTT(30), <1>1, <1>2, <1>3, <1>4, <2>1
    <3> QED
      BY <1>2, <1>3, <1>4, <3>1
  <2> QED
    BY <1>3, <1>4, <2>1, <2>2, SameBytes
<1>9. s = t
  <2>1. ASSUME NEW i \in 1..Len(s) PROVE s[i] = t[i]
    <3>1. i \in 1..h /\ 0 + i = i /\ i \in 1..(n - o)
      BY SMTT(30), <1>1, <1>5
    <3> QED
      BY <1>2, <1>5, <1>6, <3>1
  <2> QED
    BY <1>5, <1>6, <2>1, SameBytes
<1> QED
  BY <1>7, <1>8, <1>9 DEF f, g, e, s, t

\* Behind the end of a string there is nothing.
LEMMA FromEnd ==
  ASSUME NEW b \in Str
  PROVE  From(b, Len(b)) = <<>> /\ From(b, 0) = b
BY SMT DEF Str, From

\* The ids of a list that are still to be looked up after the first i.
LEMMA Ahead ==
  ASSUME NEW q \in Seq(Hash), NEW i \in Nat, i < Len(q)
  PROVE  /\ Len(From(Flatten(q), i * HashLen)) \in Nat
         /\ Len(From(Flatten(q), i * HashLen)) >= HashLen
         /\ Slice(From(Flatten(q), i * HashLen), 0, HashLen) = q[i + 1]
         /\ From(From(Flatten(q), i * HashLen), HashLen) = From(Flatten(q), (i + 1) * HashLen)
<1> DEFINE w == Flatten(q)
           o == i * HashLen
           n == i + 1
<1>1. n \in 1..Len(q) /\ n - 1 = i /\ q[n] \in Hash
  BY SMT
<1>2. /\ w \in Str /\ Len(w) = Len(q) * HashLen
      /\ \A j \in 1..Len(q) : q[j] \in Str /\ At(w, (j - 1) * HashLen, q[j])
  BY FlattenLays DEF Laid
<1>3. o \in Nat /\ o + HashLen = n * HashLen /\ HashLen \in Nat \ {0}
  BY Places, FramesAssumption
<1> HIDE DEF w, o, n
<1>4. At(w, o, q[n]) /\ q[n] \in Str /\ Len(q[n]) = HashLen
  BY <1>1, <1>2, HashIs DEF o
<1>5. o + HashLen <= Len(w)
  BY <1>4 DEF At
<1>6. Slice(w, o, HashLen) = q[n]
  BY <1>2, <1>3, <1>4, SliceAt
<1>7. /\ Len(From(w, o)) \in Nat /\ Len(From(w, o)) >= HashLen
      /\ From(From(w, o), HashLen) = From(w, o + HashLen)
      /\ Slice(From(w, o), 0, HashLen) = Slice(w, o, HashLen)
  BY <1>2, <1>3, <1>5, FromFrom
<1> QED
  BY <1>3, <1>6, <1>7 DEF w, o, n

\* After the last there are none, before the first all.
LEMMA AheadEnds ==
  ASSUME NEW q \in Seq(Hash)
  PROVE  /\ From(Flatten(q), Len(q) * HashLen) = <<>>
         /\ From(Flatten(q), 0 * HashLen) = Flatten(q)
<1>1. Flatten(q) \in Str /\ Len(Flatten(q)) = Len(q) * HashLen
  BY FlattenLays DEF Laid
<1>2. 0 * HashLen = 0
  BY SMT, FramesAssumption
<1> QED
  BY <1>1, <1>2, FromEnd

\* Bytes are numbers.
LEMMA StrNat ==
  ASSUME NEW s \in Str
  PROVE  s \in Seq(Nat)
<1>1. Byte \subseteq Nat
  BY SMT DEF Byte
<1> QED
  BY <1>1, Wider DEF Str

\* A subtree's frame behind its header is its nodes.
LEMMA FrameNodes ==
  ASSUME NEW k \in Key, k \in Subtree
  PROVE  From(FrameOf(k), SubtreeHeader) = Flatten(Nodes[k])
<1> DEFINE c == U64(Len(Nodes[k]))
           w == Flatten(Nodes[k])
<1>1. Nodes[k] \in Seq(Hash) /\ Nodes[k] # <<>> /\ Len(Nodes[k]) \in Nat
  BY SMT, ServingAssumption
<1>2. FrameOf(k) = k \o c \o w
  BY <1>1 DEF FrameOf, EncodeSubtree
<1>3. k \in Seq(Nat) /\ Len(k) = HashLen
  <2>1. k \in Str /\ Len(k) = HashLen
    BY ServingAssumption, HashIs
  <2> QED
    BY <2>1, StrNat
<1>4. w \in Seq(Nat)
  <2>1. w \in Str
    BY <1>1, FlattenLays DEF Laid
  <2> QED
    BY <2>1, StrNat
<1>5. c \in Seq(Nat) /\ Len(c) = 8
  <2> DEFINE n == Len(Nodes[k])
             x == (n \div 256) \div 256
             y == (n \div 256) % 256
             z == n % 256
             t == <<x, y, z>>
  <2>1. n \in Nat
    BY <1>1
  <2> HIDE DEF n
  <2>2. x \in Nat /\ y \in Nat /\ z \in Nat
    BY SMT, <2>1
  <2>3. c = Zeros(5) \o <<x, y, z>>
    BY DEF U64, n
  <2> HIDE DEF c, x, y, z
  <2>4. t \in Seq(Nat) /\ Len(t) = 3
    BY SMT, <2>2
  <2> DEFINE a == Zeros(5)
             b == a \o t
  <2>5. a \in Seq(Nat) /\ Len(a) = 5
    BY ZerosIs, StrNat
  <2> HIDE DEF t, a
  <2>6. b \in Seq(Nat) /\ Len(b) = Len(a) + Len(t)
    BY <2>4, <2>5, Joined
  <2> HIDE DEF b
  <2>7. Len(b) = 8
    BY SMTT(30), <2>4, <2>5, <2>6
  <2> QED
    BY <2>3, <2>6, <2>7 DEF a, b, t
<1> HIDE DEF c, w
<1>6. k \o c \in Seq(Nat) /\ Len(k \o c) = HashLen + 8
  <2>1. k \o c \in Seq(Nat) /\ Len(k \o c) = Len(k) + Len(c)
    BY <1>3, <1>5, Joined
  <2> QED
    BY <1>3, <1>5, <2>1
<1>7. From((k \o c) \o w, HashLen + 8) = w
  <2> DEFINE s == k \o c
             n == HashLen + 8
  <2>1. s \in Seq(Nat) /\ Len(s) = n /\ n \in Nat
    BY SMTT(30), <1>6, FramesAssumption
  <2> HIDE DEF s, n
  <2>2. SubSeq(s \o w, n + 1, Len(s \o w)) = w
    BY SMTT(30), <1>4, <2>1
  <2> QED
    BY <2>2 DEF s, n, From
<1> QED
  BY <1>2, <1>7 DEF SubtreeHeader, w, c

-----------------------------------------------------------------------------
(* The request being served. *)

Fields == {"pc", "route", "obj", "ids", "todo", "body", "code", "earned"}

\* What HonestBody speaks of: an object on a route of its class, a list read whole.
Own(p) ==
  \/ p.route \in {"subtree", "subtree_data"} /\ p.obj \in Subtree
  \/ p.route = "txs" /\ p.ids \in Clean /\ Len(p.ids) <= BodyIds
  \/ p.route = "block" /\ p.obj \in Block

\* The ids such a request walks over: the nodes of a subtree, or those the cluster sent.
Asks(p) == IF p.route = "txs" THEN p.ids ELSE Nodes[p.obj]

\* The first i have been looked up, and those kept are in the body.
Through(p, q, i) ==
  i <= Len(q) /\ p.todo = From(Flatten(q), i * HashLen) /\ p.body = Std(Kept(q)[i])

Walks(p) == \E i \in Nat : Through(p, Asks(p), i)

\* The body is what was asked for.
Whole(p) ==
  \/ p.route = "subtree" /\ p.body = Flatten(Nodes[p.obj])
  \/ p.route = "subtree_data" /\ p.body = Standard(Members(Nodes[p.obj]))
  \/ p.route = "txs" /\ p.body = Standard(p.ids)
  \/ p.route = "block" /\ FromTeranode(p.body) = BlockOf[p.obj]

Walked == {"subtree_data", "txs"}
Answered == {"subtree", "subtree_data", "txs", "block"}

\* The inductive invariant: a body that is being gathered is the part of the members
\* that the walk has passed, and one that is complete is what was asked for.
Honest(p) ==
  /\ DOMAIN p = Fields
  /\ p.route = "txs" => p.ids \in Clean
  /\ p.pc = "member" => p.route \in Walked /\ (Own(p) => Walks(p))
  /\ p.pc = "reply" /\ p.code = 200 => p.route \in Answered /\ (Own(p) => Whole(p))
HonestInv == Honest(pull)

\* The phases of a request and the routes are different.
LEMMA Different ==
  /\ "member" # "reply" /\ "idle" # "reply" /\ "idle" # "member"
  /\ "txs" # "subtree_data" /\ "txs" # "subtree" /\ "txs" # "block"
  /\ "block" # "subtree_data" /\ "block" # "subtree" /\ "subtree" # "subtree_data"
BY SMT

\* A walk is over a list of hashes.
LEMMA AsksIs ==
  ASSUME NEW p, Own(p), p.route \in Walked
  PROVE  /\ Asks(p) \in Seq(Hash) /\ Len(Asks(p)) \in Nat
         /\ p.route = "txs" => Asks(p) \in Clean
<1>1. CASE p.route = "txs"
  <2>1. Asks(p) \in Clean
    BY <1>1, Different DEF Own, Asks
  <2> QED
    BY <2>1, CleanIs
<1>2. CASE p.route # "txs"
  <2>1. p.obj \in Subtree
    BY <1>2, Different DEF Own, Walked
  <2>2. Asks(p) \in Seq(Hash)
    BY <1>2, <2>1, ServingAssumption DEF Asks
  <2> QED
    BY <1>2, <2>2, Indexed
<1> QED
  BY <1>1, <1>2

\* Where a walk is: at the end, where not even an id is left, or at an id.
LEMMA WalkAt ==
  ASSUME NEW p, Own(p), p.route \in Walked, Walks(p)
  PROVE  \E i \in Nat : /\ Through(p, Asks(p), i)
                        /\ \/ i = Len(Asks(p)) /\ ~(Len(p.todo) >= HashLen)
                           \/ i < Len(Asks(p)) /\ ~(Len(p.todo) < HashLen)
<1> DEFINE q == Asks(p)
           n == Len(p.todo)
<1>1. q \in Seq(Hash) /\ Len(q) \in Nat
  BY AsksIs
<1>2. PICK i \in Nat : Through(p, q, i)
  BY DEF Walks
<1> HIDE DEF q
<1>3. i <= Len(q) /\ p.todo = From(Flatten(q), i * HashLen)
  BY <1>2 DEF Through
<1>4. i = Len(q) \/ i < Len(q)
  BY SMT, <1>1, <1>3
<1>5. HashLen \in Nat \ {0}
  BY FramesAssumption
<1>6. ASSUME i = Len(q) PROVE ~(n >= HashLen)
  <2>1. p.todo = <<>>
    BY <1>1, <1>3, <1>6, AheadEnds
  <2>2. n = 0
    BY SMT, <2>1
  <2> HIDE DEF n
  <2> QED
    BY SMT, <1>5, <2>2
<1>7. ASSUME i < Len(q) PROVE ~(n < HashLen)
  <2>1. n \in Nat /\ n >= HashLen
    BY <1>1, <1>3, <1>7, Ahead
  <2> HIDE DEF n
  <2> QED
    BY SMT, <1>5, <2>1
<1> QED
  BY <1>2, <1>4, <1>6, <1>7 DEF q, n

\* It starts before the first id.
LEMMA WalkStarts ==
  ASSUME NEW p, Own(p), p.route \in Walked, p.todo = Flatten(Asks(p)), p.body = <<>>
  PROVE  Walks(p)
<1> DEFINE q == Asks(p)
<1>1. q \in Seq(Hash) /\ Len(q) \in Nat
  BY AsksIs
<1>2. p.todo = From(Flatten(q), 0 * HashLen)
  BY <1>1, AheadEnds
<1>3. Std(<<>>) = <<>>
  BY SMT DEF Std
<1>4. p.body = Std(Kept(q)[0])
  BY <1>1, <1>3, KeptIs
<1> HIDE DEF q
<1>5. 0 \in Nat /\ 0 <= Len(q)
  BY SMT, <1>1
<1>6. Through(p, q, 0)
  BY <1>2, <1>4, <1>5 DEF Through
<1> QED
  BY <1>5, <1>6 DEF Walks, q

\* It passes an id: the coinbase's without a trace, any other into the body.
LEMMA WalkOn ==
  ASSUME NEW p, Own(p), p.route \in Walked, Walks(p), Len(p.todo) >= HashLen,
         NEW id, id = Slice(p.todo, 0, HashLen),
         NEW t, t.obj = p.obj, t.ids = p.ids, t.route = p.route, t.todo = From(p.todo, HashLen),
         \/ p.route = "subtree_data" /\ isPlaceholder(id) /\ t.body = p.body
         \/ ~(p.route = "subtree_data" /\ isPlaceholder(id)) /\ t.body = Append(p.body, toStandard(id))
  PROVE  Walks(t)
<1> DEFINE q == Asks(p)
<1>1. /\ q \in Seq(Hash) /\ Len(q) \in Nat
      /\ p.route \in Walked /\ (p.route = "txs" => q \in Clean)
  BY AsksIs
<1>2. PICK i \in Nat : Through(p, q, i) /\ i < Len(q)
  BY WalkAt
<1>3. Asks(t) = q
  BY DEF Asks
<1> HIDE DEF q
<1>4. p.todo = From(Flatten(q), i * HashLen) /\ p.body = Std(Kept(q)[i]) /\ i <= Len(q)
  BY <1>2 DEF Through
<1>5. id = q[i + 1] /\ t.todo = From(Flatten(q), (i + 1) * HashLen)
  BY <1>1, <1>2, <1>4, Ahead
<1>6. t.body = Std(Kept(q)[i + 1])
  <2>1. CASE p.route = "subtree_data" /\ isPlaceholder(id) /\ t.body = p.body
    <3>1. Kept(q)[i + 1] = Kept(q)[i]
      BY <1>1, <1>2, <1>5, <2>1, KeptIs
    <3> QED
      BY <1>4, <2>1, <3>1
  <2>2. CASE ~(p.route = "subtree_data" /\ isPlaceholder(id)) /\ t.body = Append(p.body, toStandard(id))
    <3>1. ~isPlaceholder(id)
      BY <1>1, <1>2, <1>5, <2>2, CleanIs DEF Walked
    <3>2. id \in Hash /\ Kept(q)[i + 1] = Append(Kept(q)[i], id)
      BY <1>1, <1>2, <1>5, <3>1, KeptIs
    <3>3. Kept(q)[i] \in Seq(Hash)
      BY <1>1, <1>4, KeptClean, CleanIs
    <3>4. Append(Std(Kept(q)[i]), toStandard(id)) = Std(Append(Kept(q)[i], id))
      BY <3>2, <3>3, StdMore
    <3> QED
      BY <1>4, <2>2, <3>2, <3>4
  <2> QED
    BY <2>1, <2>2
<1>7. i + 1 \in Nat /\ i + 1 <= Len(q)
  BY SMT, <1>1, <1>2
<1>8. Through(t, q, i + 1)
  BY <1>5, <1>6, <1>7 DEF Through
<1> QED
  BY <1>3, <1>7, <1>8 DEF Walks

\* Where it ends, every member is in the body.
LEMMA WalkEnds ==
  ASSUME NEW p, Own(p), p.route \in Walked, Walks(p), Len(p.todo) < HashLen
  PROVE  Whole(p)
<1> DEFINE q == Asks(p)
<1>1. PICK i \in Nat : Through(p, q, i) /\ i = Len(q)
  BY WalkAt
<1>2. p.body = Std(Members(q))
  BY <1>1 DEF Through, Members
<1>3. \A s : Std(s) = Standard(s)
  BY DEF Standard, Std, toStandard
<1>4. CASE p.route = "txs"
  <2>1. q \in Clean /\ q = p.ids
    BY <1>4, AsksIs DEF Asks
  <2>2. Members(q) = q
    BY <2>1, MembersOnce
  <2> QED
    BY <1>2, <1>3, <1>4, <2>1, <2>2 DEF Whole
<1>5. CASE p.route = "subtree_data"
  <2>1. q = Nodes[p.obj]
    BY <1>5, Different DEF Asks
  <2> QED
    BY <1>2, <1>3, <1>5, <2>1 DEF Whole
<1> QED
  BY <1>4, <1>5 DEF Walked

-----------------------------------------------------------------------------
(* The invariant, action by action. *)

\* A request that has been answered with anything but 200, or not begun.
LEMMA HonestElse ==
  ASSUME NEW t, DOMAIN t = Fields, t.route # "txs", t.pc # "member",
         t.pc = "reply" => t.code # 200
  PROVE  Honest(t)
BY DEF Honest

\* No request.
LEMMA HonestNone ==
  /\ Honest(NoPull) /\ DOMAIN NoPull = Fields
  /\ NoPull.pc = "idle" /\ NoPull.body = <<>> /\ NoPull.route = "other"
<1>1. DOMAIN NoPull = Fields
  BY SMT DEF NoPull, Fields
<1>2. NoPull.pc = "idle" /\ NoPull.body = <<>> /\ NoPull.route = "other"
  BY SMT DEF NoPull
<1>3. "idle" # "member" /\ "idle" # "reply" /\ "other" # "txs"
  BY SMT
<1> QED
  BY <1>1, <1>2, <1>3, HonestElse

\* An answer.
LEMMA HonestReply ==
  ASSUME NEW p, DOMAIN p = Fields, p.route = "txs" => p.ids \in Clean,
         NEW c, c = 200 => p.route \in Answered /\ (Own(p) => Whole(p))
  PROVE  Honest([p EXCEPT !.pc = "reply", !.code = c])
<1> DEFINE t == [p EXCEPT !.pc = "reply", !.code = c]
<1>1. DOMAIN t = Fields
  OBVIOUS
<1>2. /\ t.pc = "reply" /\ t.code = c /\ t.route = p.route /\ t.obj = p.obj
      /\ t.ids = p.ids /\ t.body = p.body
  BY SMT DEF Fields
<1> HIDE DEF t
<1>3. (Whole(p) => Whole(t)) /\ (Own(t) => Own(p))
  BY <1>2 DEF Whole, Own
<1>4. Honest(t)
  BY <1>1, <1>2, <1>3, Different DEF Honest
<1> QED
  BY <1>4 DEF t

\* A request that walks.
LEMMA HonestWalk ==
  ASSUME NEW t, DOMAIN t = Fields, t.pc = "member", t.route \in Walked,
         t.route = "txs" => t.ids \in Clean, Own(t) => Walks(t)
  PROVE  Honest(t)
BY Different DEF Honest

\* The hash in the path is the key of the object.
LEMMA SameKey ==
  ASSUME NEW k \in Key
  PROVE  ParseDisplay(Display(k)) = k
<1>1. k \in Str /\ Len(k) = HashLen
  BY ServingAssumption, HashIs
<1>2. Len(Reverse(k)) = HashLen /\ Reverse(Reverse(k)) = k
  BY <1>1, ReverseIs, ReverseTwice
<1> QED
  BY <1>2 DEF ParseDisplay, Display

\* A body that is found at once.
LEMMA HonestAtOnce ==
  ASSUME NEW req, DOMAIN req = Fields, req.route \in Answered \ {"txs"}, NEW body,
         Own(req) => \/ req.route = "subtree" /\ body = Flatten(Nodes[req.obj])
                     \/ req.route = "block" /\ FromTeranode(body) = BlockOf[req.obj]
  PROVE  Honest([req EXCEPT !.pc = "reply", !.code = 200, !.body = body])
<1> DEFINE t == [req EXCEPT !.pc = "reply", !.code = 200, !.body = body]
<1>1. DOMAIN t = Fields
  OBVIOUS
<1>2. /\ t.pc = "reply" /\ t.route = req.route /\ t.obj = req.obj
      /\ t.ids = req.ids /\ t.body = body
  BY SMT DEF Fields
<1> HIDE DEF t
<1>3. Own(t) => Whole(t)
  BY <1>2 DEF Whole, Own
<1>4. Honest(t)
  BY <1>1, <1>2, <1>3, Different DEF Honest
<1> QED
  BY <1>4 DEF t

\* What a route makes of the frame.
LEMMA HonestFound ==
  ASSUME NEW k \in Key, NEW route, route \in {"subtree", "subtree_data", "block"}
  PROVE  Honest(Found(route, k))
<1> DEFINE req == [NoPull EXCEPT !.route = route, !.obj = k]
           nodes == From(FrameOf(k), SubtreeHeader)
           block == ToTeranode(FrameOf(k))
           long == Len(FrameOf(k)) >= SubtreeHeader
           r == Found(route, k)
<1>1. DOMAIN req = Fields /\ req.route = route /\ req.obj = k /\ req.body = <<>> /\ req.pc = "idle"
  BY SMT DEF NoPull, Fields
<1>0. route # "txs" /\ req.route # "txs" /\ req.route \in Answered \ {"txs"}
  BY <1>1, Different DEF Answered
<1>2. CASE route = "subtree" /\ long
  <2>1. r = [req EXCEPT !.pc = "reply", !.code = 200, !.body = nodes]
    BY <1>2 DEF Found
  <2> HIDE DEF req
  <2>2. Own(req) => k \in Subtree
    BY <1>1, <1>2, Different DEF Own
  <2>3. k \in Subtree => nodes = Flatten(Nodes[k])
    BY FrameNodes
  <2> HIDE DEF nodes
  <2>6. req.route = "subtree"
    BY <1>1, <1>2
  <2>7. Own(req) => nodes = Flatten(Nodes[req.obj])
    BY <1>1, <2>2, <2>3
  <2>5. Own(req) => req.route = "subtree" /\ nodes = Flatten(Nodes[req.obj])
    BY <2>6, <2>7
  <2>4. Honest([req EXCEPT !.pc = "reply", !.code = 200, !.body = nodes])
    BY <1>0, <1>1, <2>5, HonestAtOnce
  <2> QED
    BY <2>1, <2>4
<1>3. CASE route = "subtree_data"
  <2> DEFINE t == [req EXCEPT !.pc = "member", !.todo = nodes]
  <2>1. r = t
    BY SMT, <1>3 DEF Found
  <2> HIDE DEF req
  <2>2. /\ DOMAIN t = Fields /\ t.pc = "member" /\ t.todo = nodes /\ t.body = <<>>
        /\ t.route = route /\ t.obj = k
    BY SMTT(30), <1>1 DEF Fields
  <2> HIDE DEF t
  <2>3. ASSUME Own(t) PROVE Walks(t)
    <3>1. k \in Subtree
      BY <1>3, <2>2, <2>3, Different DEF Own
    <3>2. nodes = Flatten(Nodes[k])
      BY <3>1, FrameNodes
    <3>3. t.todo = Flatten(Asks(t))
      BY <1>3, <2>2, <3>2, Different DEF Asks
    <3> QED
      BY <1>3, <2>2, <2>3, <3>3, WalkStarts DEF Walked
  <2> QED
    BY <1>0, <1>3, <2>1, <2>2, <2>3, HonestWalk DEF Walked
<1>4. CASE route = "block" /\ block # Refused
  <2>1. r = [req EXCEPT !.pc = "reply", !.code = 200, !.body = block]
    BY SMT, <1>4 DEF Found
  <2> HIDE DEF req
  <2>2. Own(req) => k \in Block
    BY <1>1, <1>4, Different DEF Own
  <2>3. ASSUME k \in Block PROVE FromTeranode(block) = BlockOf[k]
    <3>1. BlockOf[k] \in Block144 /\ k \notin Subtree
      BY <2>3, ServingAssumption
    <3>2. FrameOf(k) = BlockFrame(BlockOf[k])
      BY <3>1 DEF FrameOf
    <3>3. block = Wire(BlockOf[k])
      BY <1>4, <3>1, <3>2, FrameConverted
    <3> QED
      BY <3>1, <3>3, ReadsBack
  <2> HIDE DEF block
  <2>5. Own(req) => req.route = "block" /\ FromTeranode(block) = BlockOf[req.obj]
    BY <1>1, <1>4, <2>2, <2>3
  <2>4. Honest([req EXCEPT !.pc = "reply", !.code = 200, !.body = block])
    BY <1>0, <1>1, <2>5, HonestAtOnce
  <2> QED
    BY <2>1, <2>4
<1>5. CASE (route = "subtree" /\ ~long) \/ (route = "block" /\ block = Refused)
  <2> DEFINE c == 500
             t == [req EXCEPT !.pc = "reply", !.code = c]
  <2>1. r = t
    BY SMTT(30), <1>5 DEF Found
  <2>2. c # 200
    BY SMT
  <2> HIDE DEF req, c
  <2>3. Honest(t)
    BY <1>0, <1>1, <2>2, HonestReply
  <2> QED
    BY <2>1, <2>3
<1> QED
  BY <1>2, <1>3, <1>4, <1>5

\* What the cluster sends is a list of hashes without the coinbase's.
LEMMA BatchesAre ==
  ASSUME NEW ids \in Batches
  PROVE  ids \in Clean
<1>1. PICK k \in Subtree :
        \E i \in DOMAIN Members(Nodes[k]), j \in DOMAIN Members(Nodes[k]) :
          ids = SubSeq(Members(Nodes[k]), i, j)
  BY SMT DEF Batches
<1> DEFINE txs == Members(Nodes[k])
           S == Hash \ {Placeholder}
<1>2. txs \in Seq(S)
  <2>1. Nodes[k] \in Seq(Hash)
    BY ServingAssumption
  <2> QED
    BY <2>1, MembersIs DEF Clean
<1>3. PICK i \in DOMAIN txs, j \in DOMAIN txs : ids = SubSeq(txs, i, j)
  BY <1>1
<1> HIDE DEF txs, S
<1>4. SubSeq(txs, i, j) \in Seq(S)
  BY SMTT(30), <1>2
<1> QED
  BY <1>3, <1>4 DEF Clean, S

\* Pull, PullTxs: a request begins.
LEMMA HonestBegins ==
  ASSUME HonestInv,
         \/ \E route \in Routes, k \in Key : Pull(route, k)
         \/ \E ids \in Batches : PullTxs(ids)
  PROVE  HonestInv'
<1>1. ASSUME NEW route, NEW k \in Key, Pull(route, k) PROVE HonestInv'
  <2>1. /\ route \in {"subtree", "subtree_data", "block"}
        /\ \/ pull' = Found(route, k)
           \/ pull' = [NoPull EXCEPT !.pc = "reply", !.route = route, !.obj = k,
                                     !.code = 404, !.earned = MayMiss(k)]
    BY <1>1, SameKey DEF Pull
  <2>2. CASE pull' = Found(route, k)
    <3>1. Honest(Found(route, k))
      BY <2>1, HonestFound
    <3> QED
      BY <2>2, <3>1 DEF HonestInv
  <2>3. CASE pull' # Found(route, k)
    <3> DEFINE t == [NoPull EXCEPT !.pc = "reply", !.route = route, !.obj = k,
                                   !.code = 404, !.earned = MayMiss(k)]
    <3>1. DOMAIN t = Fields /\ t.pc = "reply" /\ t.code # 200 /\ t.route = route
      BY SMT, HonestNone DEF Fields
    <3>2. pull' = t
      BY <2>1, <2>3
    <3> HIDE DEF t
    <3>3. t.route # "txs"
      BY <2>1, <3>1, Different
    <3>4. Honest(t)
      BY <3>1, <3>3, Different, HonestElse
    <3> QED
      BY <3>2, <3>4 DEF HonestInv
  <2> QED
    BY <2>2, <2>3
<1>2. ASSUME NEW ids \in Batches, PullTxs(ids) PROVE HonestInv'
  <2> DEFINE todo == Flatten(Limited(ids))
             t == [NoPull EXCEPT !.pc = "member", !.route = "txs", !.ids = ids, !.todo = todo]
  <2>1. pull' = t
    BY <1>2 DEF PullTxs
  <2> HIDE DEF todo
  <2>2. /\ DOMAIN t = Fields /\ t.pc = "member" /\ t.route = "txs" /\ t.ids = ids
        /\ t.todo = todo /\ t.body = <<>>
    BY SMT, HonestNone DEF Fields
  <2> HIDE DEF t
  <2>3. ids \in Clean
    BY BatchesAre
  <2>4. ASSUME Own(t) PROVE Walks(t)
    <3>1. Len(ids) <= BodyIds
      BY <2>2, <2>4, Different DEF Own
    <3>2. Limited(ids) = SubSeq(ids, 1, Len(ids))
      BY <3>1 DEF Limited
    <3>3. SubSeq(ids, 1, Len(ids)) = ids
      BY SMT, <2>3 DEF Clean
    <3>4. t.todo = Flatten(Asks(t))
      BY <2>2, <3>2, <3>3 DEF Asks, todo
    <3> QED
      BY <2>2, <2>4, <3>4, WalkStarts DEF Walked
  <2>5. Honest(t)
    BY <2>2, <2>3, <2>4, HonestWalk DEF Walked
  <2> QED
    BY <2>1, <2>5 DEF HonestInv
<1> QED
  BY <1>1, <1>2

\* Refuse: it ends at once.
Errors == {400, 404, 500}

LEMMA HonestRefuse ==
  ASSUME NEW code \in Errors, HonestInv, Refuse(code)
  PROVE  HonestInv'
<1>1. /\ pull' = [pull EXCEPT !.pc = "reply", !.code = code]
      /\ DOMAIN pull = Fields /\ (pull.route = "txs" => pull.ids \in Clean)
  BY DEF Refuse, Reply, HonestInv, Honest
<1>2. code # 200
  BY SMT DEF Errors
<1>3. Honest([pull EXCEPT !.pc = "reply", !.code = code])
  BY <1>1, <1>2, HonestReply
<1> QED
  BY <1>1, <1>3 DEF HonestInv

\* Member: one id is passed, or the request is refused.
LEMMA HonestMember ==
  ASSUME NEW tx, HonestInv, Member(tx)
  PROVE  HonestInv'
<1> DEFINE p == pull
           id == Slice(p.todo, 0, HashLen)
           rest == From(p.todo, HashLen)
           skip == p.route = "subtree_data" /\ isPlaceholder(id)
<1>1. /\ DOMAIN p = Fields /\ p.pc = "member" /\ p.route \in Walked /\ (Own(p) => Walks(p))
      /\ Len(p.todo) >= HashLen /\ (p.route = "txs" => p.ids \in Clean)
  BY DEF Member, HonestInv, Honest
<1>2. CASE skip
  <2> DEFINE t == [p EXCEPT !.todo = rest]
  <2>1. pull' = t
    BY <1>2 DEF Member
  <2> HIDE DEF p, rest
  <2>2. /\ DOMAIN t = Fields /\ t.pc = p.pc /\ t.route = p.route /\ t.obj = p.obj
        /\ t.ids = p.ids /\ t.todo = rest /\ t.body = p.body
    BY SMT, <1>1 DEF Fields
  <2> HIDE DEF t
  <2>3. Own(t) => Own(p)
    BY <2>2 DEF Own
  <2>4. Own(t) => Walks(t)
    BY <1>1, <1>2, <2>2, <2>3, WalkOn DEF rest
  <2>5. Honest(t)
    BY <1>1, <2>2, <2>4, HonestWalk
  <2> QED
    BY <2>1, <2>5 DEF HonestInv
<1>3. CASE ~skip /\ tx = "held"
  <2> DEFINE t == [p EXCEPT !.todo = rest, !.body = Append(@, toStandard(id))]
  <2>1. pull' = t
    BY <1>3 DEF Member
  <2> HIDE DEF p, rest, id
  <2>2. /\ DOMAIN t = Fields /\ t.pc = p.pc /\ t.route = p.route /\ t.obj = p.obj
        /\ t.ids = p.ids /\ t.todo = rest /\ t.body = Append(p.body, toStandard(id))
    BY SMT, <1>1 DEF Fields
  <2> HIDE DEF t
  <2>3. id = Slice(p.todo, 0, HashLen) /\ t.todo = From(p.todo, HashLen)
    BY <2>2 DEF id, rest
  <2>4. Own(t) => Own(p)
    BY <2>2 DEF Own
  <2>5. Own(t) => Walks(t)
    BY <1>1, <1>3, <2>2, <2>3, <2>4, WalkOn
  <2>6. Honest(t)
    BY <1>1, <2>2, <2>5, HonestWalk
  <2> QED
    BY <2>1, <2>6 DEF HonestInv
<1>4. CASE ~skip /\ tx # "held"
  <2> DEFINE c == IF tx = "missing" THEN 404 ELSE 500
             t == [p EXCEPT !.pc = "reply", !.code = c]
  <2>1. pull' = t
    BY <1>4 DEF Member, Reply
  <2>2. c # 200
    BY SMT
  <2> HIDE DEF c, p
  <2>3. Honest(t)
    BY <1>1, <2>2, HonestReply
  <2> QED
    BY <2>1, <2>3 DEF HonestInv
<1> QED
  BY <1>2, <1>3, <1>4

\* MembersDone, Written: a request ends.
LEMMA HonestEnds ==
  ASSUME HonestInv, MembersDone \/ Written
  PROVE  HonestInv'
<1> DEFINE p == pull
           t == [p EXCEPT !.pc = "reply", !.code = 200]
<1>1. Honest(p) /\ DOMAIN p = Fields /\ (p.route = "txs" => p.ids \in Clean)
  BY DEF HonestInv, Honest
<1>2. CASE MembersDone
  <2>1. /\ p.pc = "member" /\ Len(p.todo) < HashLen
        /\ p.route \in Walked /\ (Own(p) => Walks(p)) /\ pull' = t
    BY <1>1, <1>2 DEF MembersDone, Reply, Honest
  <2>2. Own(p) => Whole(p)
    BY <2>1, WalkEnds
  <2>3. p.route \in Answered
    BY <2>1 DEF Walked, Answered
  <2>4. Honest(t)
    BY ZenonT(60), <1>1, <2>2, <2>3, HonestReply
  <2> QED
    BY <2>1, <2>4 DEF HonestInv
<1>3. CASE Written
  BY <1>3, HonestNone DEF Written, HonestInv
<1> QED
  BY <1>2, <1>3

\* No other step touches the request.
LEMMA HonestRest ==
  ASSUME HonestInv, UNCHANGED pull
  PROVE  HonestInv'
BY DEF HonestInv

\* The steps, those that leave the request alone together.
Elsewhere ==
  \/ \E k \in Key : Deliver(k) \/ Lapse(k)
  \/ \E ok \in BOOLEAN : Store(ok) \/ Announce(ok) \/ Listen(ok)
  \/ Told \/ Cancel \/ Shutdown \/ LaneReturns \/ Exit \/ UNCHANGED vars

LEMMA Steps ==
  ASSUME [Next]_vars
  PROVE  \/ Elsewhere
         \/ \/ \E route \in Routes, k \in Key : Pull(route, k)
            \/ \E ids \in Batches : PullTxs(ids)
         \/ \E tx \in {"held", "missing", "broken"} : Member(tx)
         \/ \E code \in Errors : Refuse(code)
         \/ MembersDone \/ Written
BY ZenonT(90) DEF Next, Elsewhere, Errors

\* They do.
LEMMA LeftAlone ==
  ASSUME Elsewhere
  PROVE  UNCHANGED pull
BY ZenonT(60) DEF Elsewhere, Deliver, Lapse, Store, Announce, Listen, Told, Cancel, Shutdown,
                  LaneReturns, Exit, vars

\* The invariant is inductive.
LEMMA HonestStep == HonestInv /\ [Next]_vars => HonestInv'
<1> SUFFICES ASSUME HonestInv, [Next]_vars PROVE HonestInv'
  BY SMT
<1>1. CASE Elsewhere
  BY <1>1, LeftAlone, HonestRest
<1>2. CASE \/ \E route \in Routes, k \in Key : Pull(route, k)
           \/ \E ids \in Batches : PullTxs(ids)
  BY <1>2, HonestBegins
<1>3. CASE \E tx \in {"held", "missing", "broken"} : Member(tx)
  BY <1>3, HonestMember
<1>4. CASE \E code \in Errors : Refuse(code)
  BY <1>4, HonestRefuse
<1>5. CASE MembersDone \/ Written
  BY <1>5, HonestEnds
<1> QED
  BY <1>1, <1>2, <1>3, <1>4, <1>5, Steps

\* THEOREM: a 200 of the retrieval plane carries exactly what was asked for, although
\* members are looked up one by one (HonestBody): every node of a subtree of any size,
\* every member but the coinbase once and in order, every transaction of a list that is
\* read whole, and a body that Teranode reads as the block that was mined.  Hashes on a
\* route of another class and lists beyond the read limit are in the specification and
\* outside the claim.
THEOREM AnswersAreWhole == Spec => []HonestBody
<1>1. Init => HonestInv
  BY HonestNone DEF Init, HonestInv
<1>2. HonestInv => HonestBody
  <2> SUFFICES ASSUME Honest(pull), pull.pc = "reply" /\ pull.code = 200 PROVE HonestBody
    BY DEF HonestInv, HonestBody
  <2>1. pull.route \in Answered /\ (Own(pull) => Whole(pull)) /\ (pull.route = "txs" => pull.ids \in Clean)
    BY DEF Honest
  <2>2. CASE pull.route = "subtree"
    BY SMT, <2>1, <2>2 DEF Whole, Own, HonestBody
  <2>3. CASE pull.route = "subtree_data"
    BY SMT, <2>1, <2>3 DEF Whole, Own, HonestBody
  <2>4. CASE pull.route = "txs"
    BY SMT, <2>1, <2>4 DEF Whole, Own, HonestBody
  <2>5. CASE pull.route = "block"
    BY SMT, <2>1, <2>5 DEF Whole, Own, HonestBody
  <2> QED
    BY <2>1, <2>2, <2>3, <2>4, <2>5 DEF Answered
<1> QED
  BY <1>1, <1>2, HonestStep, PTL DEF Spec
================================================================================
