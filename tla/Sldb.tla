-------------------------------- MODULE Sldb --------------------------------
(***************************************************************************)
(* sldb.cpp: how a length precedes a record in the database file.  The top *)
(* two bits of the first byte say how many bytes it takes.  Bytes are      *)
(* numbers, and a file is the sequence of those not read yet.              *)
(***************************************************************************)
EXTENDS Integers, Sequences

CONSTANT LEN_ERR    \* UINT_MAX, which LoadLen returns where it cannot read

Byte == 0..255

\* uint32_t.
Length == {n \in Nat : n \div 16777216 < 256}

\* MsgLenType, in the place SaveLen shifts it to.
BS_6BIT  == 0
BS_14BIT == 64
BS_32BIT == 128

\* htonl.
Bytes(len) ==
    <<len \div 16777216, (len \div 65536) % 256, (len \div 256) % 256, len % 256>>

SaveLen(len) ==
    IF len < 64 THEN <<BS_6BIT + len>>
    ELSE IF len < 16384 THEN <<BS_14BIT + (len \div 256), len % 256>>
    ELSE <<BS_32BIT, Bytes(len)[1], Bytes(len)[2], Bytes(len)[3], Bytes(len)[4]>>

Need(f, n, len) == IF Len(f) < n THEN LEN_ERR ELSE len

LoadLen(f) ==
    IF f = << >> THEN LEN_ERR
    ELSE IF f[1] < BS_14BIT THEN f[1]
    ELSE IF f[1] < BS_32BIT THEN Need(f, 2, (f[1] - BS_14BIT) * 256 + f[2])
    ELSE IF f[1] < BS_32BIT + 64
    THEN Need(f, 5, ((f[2] * 256 + f[3]) * 256 + f[4]) * 256 + f[5])
    ELSE LEN_ERR

\* How many bytes LoadLen reads, where it does not fail.
Read(f) == IF f[1] < BS_14BIT THEN 1 ELSE IF f[1] < BS_32BIT THEN 2 ELSE 5

\* An empty string is not written at all, and cannot be read: fread returns 0.
SaveRawString(s) == IF s = << >> THEN << >> ELSE SaveLen(Len(s)) \o s

Failed == [ret |-> -1, str |-> << >>]

LoadRawString(f) ==
    LET len == LoadLen(f)
    IN  IF len = LEN_ERR \/ len = 0 \/ Len(f) < Read(f) + len THEN Failed
        ELSE [ret |-> 0, str |-> SubSeq(f, Read(f) + 1, Read(f) + len)]

\* f begins with the bytes of s.
Begins(f, s) == Len(s) <= Len(f) /\ \A i \in 1..Len(s) : f[i] = s[i]

-----------------------------------------------------------------------------
\* What LoadLen makes of a file that begins with a saved length, or ends within
\* one: the length, or LEN_ERR (sldb.cpp).
ReadsBack(len, f) ==
    /\ Begins(f, SaveLen(len)) => LoadLen(f) = len
    /\ Len(f) < Len(SaveLen(len)) /\ Begins(SaveLen(len), f) => LoadLen(f) = LEN_ERR

\* The same for LoadRawString, by which a record in part is not taken for one.
StringReadsBack(s, f) ==
    /\ Begins(f, SaveRawString(s)) => LoadRawString(f) = [ret |-> 0, str |-> s]
    /\ Len(f) < Len(SaveRawString(s)) /\ Begins(SaveRawString(s), f) => LoadRawString(f) = Failed
=============================================================================
