----------------------------- MODULE SldbProofs -----------------------------
(***************************************************************************)
(* Theorems about Sldb: the three encodings of a length do not overlap, and *)
(* what a crash cuts off cannot be taken for a length.                     *)
(***************************************************************************)
EXTENDS Sldb, SequenceTheorems, TLAPS

\* A length is the value of its bytes, and each of them is one.
LEMMA BytesOfLength ==
    ASSUME NEW len \in Length
    PROVE  /\ Bytes(len)[1] \in Byte /\ Bytes(len)[2] \in Byte
           /\ Bytes(len)[3] \in Byte /\ Bytes(len)[4] \in Byte
           /\ ((Bytes(len)[1] * 256 + Bytes(len)[2]) * 256 + Bytes(len)[3]) * 256
                + Bytes(len)[4] = len
<1> DEFINE a == len \div 256
           b == len \div 65536
           c == len \div 16777216
<1>1. len \in Nat /\ c \in 0..255
  BY DEF Length
<1>2. b = a \div 256 /\ c = b \div 256 /\ a \in Nat /\ b \in Nat
  BY <1>1
<1>3. /\ len = a * 256 + (len % 256) /\ a = b * 256 + (a % 256)
      /\ b = c * 256 + (b % 256)
  BY <1>1, <1>2
<1>4. /\ Bytes(len)[1] = c /\ Bytes(len)[2] = b % 256
      /\ Bytes(len)[3] = a % 256 /\ Bytes(len)[4] = len % 256
  BY DEF Bytes
<1>5. b % 256 \in 0..255 /\ a % 256 \in 0..255 /\ len % 256 \in 0..255
  BY <1>1, <1>2
<1> HIDE DEF a, b, c
<1> QED
  BY <1>1, <1>2, <1>3, <1>4, <1>5 DEF Byte

\* LoadLen reads the length SaveLen wrote whatever follows it, and an end of
\* the file within a length is an error, never another length.
THEOREM LengthsReadBack ==
    ASSUME NEW len \in Length, NEW f \in Seq(Byte)
    PROVE  ReadsBack(len, f)
<1>1. len \in Nat /\ Len(f) \in Nat
  BY DEF Length
<1>2. CASE len < 64
  <2>1. SaveLen(len) = <<len>>
    BY <1>1, <1>2 DEF SaveLen, BS_6BIT
  <2>2. Len(f) < 1 => f = << >>
    BY <1>1
  <2> QED
    BY <1>1, <1>2, <2>1, <2>2 DEF ReadsBack, Begins, LoadLen, BS_14BIT
<1>3. CASE len >= 64 /\ len < 16384
  <2> DEFINE a == len \div 256
             b == len % 256
  <2>1. SaveLen(len) = <<64 + a, b>>
    BY <1>1, <1>3 DEF SaveLen, BS_14BIT
  <2>2. a \in 0..63 /\ b \in 0..255 /\ a * 256 + b = len
    BY <1>1, <1>3
  <2> HIDE DEF a, b
  <2>3. Begins(f, SaveLen(len)) => LoadLen(f) = len
    BY <1>1, <2>1, <2>2 DEF Begins, LoadLen, Need, BS_14BIT, BS_32BIT
  <2>4. Len(f) < 2 /\ Begins(SaveLen(len), f) => LoadLen(f) = LEN_ERR
    BY <1>1, <2>1, <2>2 DEF Begins, LoadLen, Need, BS_14BIT, BS_32BIT
  <2> QED
    BY <2>1, <2>3, <2>4 DEF ReadsBack
<1>4. CASE len >= 16384
  <2> DEFINE a == Bytes(len)[1]
             b == Bytes(len)[2]
             c == Bytes(len)[3]
             d == Bytes(len)[4]
  <2>1. SaveLen(len) = <<128, a, b, c, d>>
    BY <1>1, <1>4 DEF SaveLen, BS_32BIT
  <2>2. ((a * 256 + b) * 256 + c) * 256 + d = len
    BY BytesOfLength
  <2> HIDE DEF a, b, c, d
  <2>3. Begins(f, SaveLen(len)) => LoadLen(f) = len
    <3> SUFFICES ASSUME Begins(f, SaveLen(len)) PROVE LoadLen(f) = len
      OBVIOUS
    <3>1. Len(f) >= 5 /\ f[1] = 128 /\ f[2] = a /\ f[3] = b /\ f[4] = c /\ f[5] = d
      BY <1>1, <2>1 DEF Begins
    <3> QED
      BY <1>1, <2>2, <3>1 DEF LoadLen, Need, BS_14BIT, BS_32BIT
  <2>4. Len(f) < 5 /\ Begins(SaveLen(len), f) => LoadLen(f) = LEN_ERR
    BY <1>1, <2>1 DEF Begins, LoadLen, Need, BS_14BIT, BS_32BIT
  <2> QED
    BY <2>1, <2>3, <2>4 DEF ReadsBack
<1> QED
  BY <1>1, <1>2, <1>3, <1>4

\* The first byte tells how many there are.
LEMMA ReadOfSaved ==
    ASSUME NEW len \in Length, NEW f, f[1] = SaveLen(len)[1]
    PROVE  /\ SaveLen(len) \in Seq(Byte) /\ Len(SaveLen(len)) \in Nat \ {0}
           /\ Read(f) = Len(SaveLen(len))
<1>1. len \in Nat
  BY DEF Length
<1>2. CASE len < 64
  <2>1. SaveLen(len) = <<len>>
    BY <1>1, <1>2 DEF SaveLen, BS_6BIT
  <2> QED
    BY <1>1, <1>2, <2>1 DEF Read, Byte, BS_14BIT
<1>3. CASE len >= 64 /\ len < 16384
  <2> DEFINE a == len \div 256
             b == len % 256
  <2>1. SaveLen(len) = <<64 + a, b>>
    BY <1>1, <1>3 DEF SaveLen, BS_14BIT
  <2>2. a \in 0..63 /\ b \in 0..255
    BY <1>1, <1>3
  <2> HIDE DEF a, b
  <2> QED
    BY <2>1, <2>2 DEF Read, Byte, BS_14BIT, BS_32BIT
<1>4. CASE len >= 16384
  <2> DEFINE a == Bytes(len)[1]
             b == Bytes(len)[2]
             c == Bytes(len)[3]
             d == Bytes(len)[4]
  <2>1. SaveLen(len) = <<128, a, b, c, d>>
    BY <1>1, <1>4 DEF SaveLen, BS_32BIT
  <2>2. a \in Byte /\ b \in Byte /\ c \in Byte /\ d \in Byte
    BY BytesOfLength
  <2> HIDE DEF a, b, c, d
  <2> QED
    BY <2>1, <2>2 DEF Read, Byte, BS_14BIT, BS_32BIT
<1> QED
  BY <1>1, <1>2, <1>3, <1>4

\* A string that is saved is read back whole, and one that the end of the file
\* cuts is refused, unless its length is the one that means an error.
THEOREM StringsReadBack ==
    ASSUME NEW s \in Seq(Byte), s # << >>, Len(s) \in Length \ {LEN_ERR},
           NEW f \in Seq(Byte)
    PROVE  StringReadsBack(s, f)
<1> DEFINE len   == Len(s)
           saved == SaveLen(len)
           r     == SaveRawString(s)
<1>1. len \in Nat \ {0} /\ len \in Length /\ len # LEN_ERR /\ Len(f) \in Nat
  BY EmptySeq, LenProperties
<1>2. saved \in Seq(Byte) /\ Len(saved) \in Nat \ {0}
  <2>1. saved[1] = SaveLen(len)[1]
    OBVIOUS
  <2> QED
    BY <1>1, <2>1, ReadOfSaved
<1>3. r = saved \o s
  BY DEF SaveRawString
<1>4. /\ Len(r) = Len(saved) + len
      /\ \A i \in 1..Len(saved) : r[i] = saved[i]
      /\ \A i \in 1..len : r[Len(saved) + i] = s[i]
  <2>1. /\ Len(r) = Len(saved) + len
        /\ \A i \in 1..Len(saved) + len :
              r[i] = IF i <= Len(saved) THEN saved[i] ELSE s[i - Len(saved)]
    BY <1>2, <1>3, ConcatProperties
  <2> HIDE DEF len, saved, r
  <2>2. \A i \in 1..Len(saved) : r[i] = saved[i]
    BY <1>1, <1>2, <2>1
  <2>3. \A i \in 1..len : /\ Len(saved) + i \in 1..Len(saved) + len
                          /\ ~ (Len(saved) + i <= Len(saved))
                          /\ Len(saved) + i - Len(saved) = i
    BY <1>1, <1>2
  <2>4. \A i \in 1..len : r[Len(saved) + i] = s[i]
    BY <2>1, <2>3
  <2> QED
    BY <2>1, <2>2, <2>4
<1>5. ReadsBack(len, f)
  BY <1>1, LengthsReadBack
<1> HIDE DEF len, saved, r
\* Where the length is there, it is read.
<1>6. ASSUME Begins(f, saved)
      PROVE  LoadLen(f) = len /\ Read(f) = Len(saved)
  <2>1. LoadLen(f) = len
    BY <1>5, <1>6 DEF ReadsBack, saved
  <2>2. f[1] = saved[1]
    BY <1>2, <1>6 DEF Begins
  <2> QED
    BY <1>1, <2>1, <2>2, ReadOfSaved DEF saved
<1>7. ASSUME Begins(f, r)
      PROVE  LoadRawString(f) = [ret |-> 0, str |-> s]
  <2>1. Len(f) >= Len(saved) + len
    BY <1>4, <1>7 DEF Begins
  <2>2. Begins(f, saved)
    BY <1>1, <1>2, <1>4, <1>7, <2>1 DEF Begins
  <2>3. LoadRawString(f) = [ret |-> 0, str |-> SubSeq(f, Len(saved) + 1, Len(saved) + len)]
    <3>1. LoadLen(f) = len /\ Read(f) = Len(saved)
      BY <1>6, <2>2
    <3>2. ~ (LoadLen(f) = LEN_ERR \/ LoadLen(f) = 0 \/ Len(f) < Read(f) + LoadLen(f))
      BY <1>1, <1>2, <2>1, <3>1
    <3> QED
      BY <3>1, <3>2, Zenon DEF LoadRawString
  <2> DEFINE part == SubSeq(f, Len(saved) + 1, Len(saved) + len)
  <2>4. Len(saved) + 1 \in 1..Len(f) + 1 /\ Len(saved) + len \in (Len(saved) + 1) - 1..Len(f)
    BY <1>1, <1>2, <2>1
  <2>5. /\ part \in Seq(Byte)
        /\ Len(part) = (Len(saved) + len) - (Len(saved) + 1) + 1
        /\ \A i \in 1..(Len(saved) + len) - (Len(saved) + 1) + 1 :
              part[i] = f[(Len(saved) + 1) + i - 1]
    BY <2>4, SubSeqProperties
  <2> HIDE DEF part
  <2>6. Len(part) = len /\ \A i \in 1..len : part[i] = f[Len(saved) + i]
    BY <1>1, <1>2, <2>5
  <2>7. \A i \in 1..len : f[Len(saved) + i] = s[i]
    BY <1>1, <1>2, <1>4, <1>7 DEF Begins
  <2>8. part = s
    BY <2>5, <2>6, <2>7, SeqEqual DEF len
  <2> QED
    BY <2>3, <2>8 DEF part
<1>8. ASSUME Len(f) < Len(r), Begins(r, f)
      PROVE  LoadRawString(f) = Failed
  <2>1. CASE Len(f) < Len(saved)
    <3>1. Begins(saved, f)
      <4>1. \A i \in 1..Len(f) : i \in 1..Len(saved) /\ r[i] = f[i]
        BY <1>1, <1>2, <1>8, <2>1 DEF Begins
      <4> QED
        BY <1>1, <1>2, <1>4, <2>1, <4>1 DEF Begins
    <3>2. LoadLen(f) = LEN_ERR
      BY <1>5, <2>1, <3>1 DEF ReadsBack, saved
    <3> QED
      BY <3>2 DEF LoadRawString
  <2>2. CASE Len(f) >= Len(saved)
    <3>1. Begins(f, saved)
      BY <1>1, <1>2, <1>4, <1>8, <2>2 DEF Begins
    <3>2. Len(f) < Read(f) + LoadLen(f)
      BY <1>4, <1>6, <1>8, <3>1
    <3> QED
      BY <3>2 DEF LoadRawString
  <2> QED
    BY <1>1, <1>2, <2>1, <2>2
<1> QED
  BY <1>7, <1>8 DEF StringReadsBack, r
=============================================================================
