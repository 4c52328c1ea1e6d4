---------------------------- MODULE ImageScanProofs ----------------------------
(***************************************************************************)
(* Proofs about ImageScan: the search keeps an invariant that says what    *)
(* `found` means, and from which ScanSound and ScanComplete follow.        *)
(*                                                                         *)
(* found is the length of the beginning of the magic number that ends at   *)
(* the last byte read.  It is not the longest such beginning, since the    *)
(* search does not back up; but when a clean occurrence has begun, it is   *)
(* the part of that occurrence that was read.                              *)
(***************************************************************************)
EXTENDS ImageScan, TLAPS

\* The first k bytes of the magic number stand in s from the i-th byte on.
Begins(s, i, k) == \A j \in 1 .. k : s[i + j - 1] = Magic[j]

\* Clean, of any text.
CleanIn(s, i) ==
    \A k \in 1 .. Len(Magic) - 1 :
        k < i => \E j \in 1 .. k : s[i - 1 - k + j] # Magic[j]

\* What the variables of inFile are while it runs.
Counting ==
    /\ scan \in {"read", "bytes"} => found < Len(Magic)
    /\ scan = "bytes" => left > 0
    /\ scan = "hit" => found = Len(Magic)
    /\ offset = Len(text)
    /\ found <= Len(text)

\* What was counted is there.
Matched == Begins(text, Len(text) - found + 1, found)

\* A clean occurrence that has begun is being followed.
Followed ==
    scan \in {"read", "bytes"} =>
        \A i \in 1 .. Len(text) :
            /\ CleanIn(text, i)
            /\ Len(text) - i + 1 < Len(Magic)
            /\ Begins(text, i, Len(text) - i + 1)
            => found = Len(text) - i + 1

\* No clean occurrence has been passed over.
NotPassed ==
    \A i \in 1 .. Len(text) :
        /\ i + Len(Magic) - 1 <= Len(text)
        /\ Begins(text, i, Len(Magic))
        /\ CleanIn(text, i)
        => scan = "hit" /\ i + Len(Magic) - 1 = Len(text)

ScanInv == ScanTypeOK /\ Counting /\ Matched /\ Followed /\ NotPassed

\* Any step of the program, as far as inFile is concerned.
ScanStep == StartScan \/ ScanNext \/ EndScan \/ UNCHANGED scanVars

-----------------------------------------------------------------------------
(* What one more byte changes.                                             *)

\* Appending a byte keeps the bytes before it.
LEMMA Appended ==
    ASSUME NEW s \in Seq(Bytes), NEW b \in Bytes
    PROVE  /\ Append(s, b) \in Seq(Bytes)
           /\ Len(s) \in Nat
           /\ Len(Append(s, b)) = Len(s) + 1
           /\ Append(s, b)[Len(s) + 1] = b
           /\ \A k \in 1 .. Len(s) : Append(s, b)[k] = s[k]
    OBVIOUS

\* What begins at i in the longer text began there before, and the new byte is
\* the next one of the magic number.
LEMMA BeginsAppended ==
    ASSUME NEW s \in Seq(Bytes), NEW b \in Bytes,
           NEW i \in Nat \ {0}, NEW k \in Nat,
           i + k - 1 <= Len(s) + 1,
           Begins(Append(s, b), i, k)
    PROVE  /\ i + k - 1 <= Len(s) => Begins(s, i, k)
           /\ i + k - 1 = Len(s) + 1 /\ k > 0 => Begins(s, i, k - 1) /\ b = Magic[k]
  <1> DEFINE t == Append(s, b)
  <1>1. /\ Len(s) \in Nat /\ t[Len(s) + 1] = b
        /\ \A n \in 1 .. Len(s) : t[n] = s[n]
    BY Appended
  <1>2. \A j \in 1 .. k : t[i + j - 1] = Magic[j]
    BY DEF Begins
  <1> HIDE DEF t
  <1>3. \A j \in 1 .. k : i + j - 1 <= Len(s) => s[i + j - 1] = Magic[j]
    <2> SUFFICES ASSUME NEW j \in 1 .. k, i + j - 1 <= Len(s)
                 PROVE  s[i + j - 1] = Magic[j]
      OBVIOUS
    <2>1. i + j - 1 \in 1 .. Len(s)
      BY <1>1
    <2>2. t[i + j - 1] = s[i + j - 1]
      BY <2>1, <1>1
    <2> QED BY <2>2, <1>2
  <1>4. i + k - 1 <= Len(s) => Begins(s, i, k)
    BY <1>1, <1>3 DEF Begins
  <1>5. ASSUME i + k - 1 = Len(s) + 1, k > 0
        PROVE  Begins(s, i, k - 1) /\ b = Magic[k]
    <2>0. k \in 1 .. k
      BY <1>5
    <2>1a. t[i + k - 1] = Magic[k]
      BY <1>2, <2>0
    <2>1. b = Magic[k]
      BY <1>1, <1>5, <2>1a
    <2>2. \A j \in 1 .. k - 1 : i + j - 1 <= Len(s) /\ j \in 1 .. k
      BY <1>1, <1>5
    <2> QED BY <2>1, <2>2, <1>3 DEF Begins
  <1> QED BY <1>4, <1>5

\* Whether the i-th byte is clean depends on the bytes before it.
LEMMA CleanAppended ==
    ASSUME NEW s \in Seq(Bytes), NEW b \in Bytes, NEW i \in 1 .. Len(s) + 1,
           CleanIn(Append(s, b), i)
    PROVE  CleanIn(s, i)
  <1> DEFINE t == Append(s, b)
  <1>1. Len(s) \in Nat /\ \A n \in 1 .. Len(s) : t[n] = s[n]
    BY Appended
  <1>2. ASSUME NEW k \in 1 .. Len(Magic) - 1, k < i
        PROVE  \E j \in 1 .. k : s[i - 1 - k + j] # Magic[j]
    <2>1. PICK j \in 1 .. k : t[i - 1 - k + j] # Magic[j]
      BY <1>2 DEF CleanIn
    <2>2. i - 1 - k + j \in 1 .. Len(s)
      BY <1>1, <1>2, ScanAssumption
    <2> HIDE DEF t
    <2>3. s[i - 1 - k + j] # Magic[j]
      BY <2>1, <2>2, <1>1
    <2> QED BY <2>3
  <1> QED BY <1>2 DEF CleanIn

-----------------------------------------------------------------------------
(* The search.                                                             *)

\* The types, and the counters, through one byte.
LEMMA CountByte ==
    ASSUME ScanInv, ScanByte
    PROVE  ScanTypeOK' /\ Counting'
  <1>1. PICK b \in Bytes : text' = Append(text, b) /\ (Match(b) \/ Mismatch(b))
    BY DEF ScanByte
  <1>2. /\ text' \in Seq(Bytes) /\ Len(text) \in Nat /\ Len(text') = Len(text) + 1
    BY <1>1, Appended DEF ScanInv, ScanTypeOK
  <1>3. Len(Magic) \in Nat /\ Len(Magic) > 0
    BY ScanAssumption
  <1>4. /\ left' = left - 1 /\ offset' = offset + 1 /\ scan = "bytes"
        /\ scan' \in {"read", "bytes", "hit"}
        /\ scan' = "bytes" => left # 1
        /\ found' = 0 \/ found' = found + 1
        /\ scan' = "hit" => found' = Len(Magic)
        /\ scan' # "hit" => found' = 0 \/ found + 1 # Len(Magic)
    BY <1>1 DEF ScanByte, Match, Mismatch
  <1>5. /\ left \in Nat /\ left > 0 /\ found \in 0 .. Len(Magic) /\ offset \in Nat
        /\ found < Len(Magic) /\ offset = Len(text) /\ found <= Len(text)
    BY <1>4 DEF ScanInv, ScanTypeOK, Counting
  <1>6. ScanTypeOK'
    BY <1>2, <1>3, <1>4, <1>5 DEF ScanTypeOK, ScanPCs
  <1>7. Counting'
    BY <1>2, <1>3, <1>4, <1>5 DEF Counting
  <1> QED BY <1>6, <1>7

\* What is counted stays there.
LEMMA MatchedByte ==
    ASSUME ScanInv, ScanByte
    PROVE  Matched'
  <1>1. PICK b \in Bytes : text' = Append(text, b) /\ (Match(b) \/ Mismatch(b))
    BY DEF ScanByte
  <1>2. /\ Len(text) \in Nat /\ Len(text') = Len(text) + 1
        /\ text'[Len(text) + 1] = b
        /\ \A k \in 1 .. Len(text) : text'[k] = text[k]
    BY <1>1, Appended DEF ScanInv, ScanTypeOK
  <1>3. found \in Nat /\ found <= Len(text)
    BY ScanAssumption DEF ScanInv, ScanTypeOK, Counting
  <1>4. CASE Mismatch(b)
    BY <1>4 DEF Mismatch, Matched, Begins
  <1>5. CASE Match(b)
    <2>1. found' = found + 1 /\ b = Magic[found + 1]
      BY <1>5 DEF Match
    <2>2. Len(text') - found' + 1 = Len(text) - found + 1
      BY <2>1, <1>2, <1>3
    <2> SUFFICES ASSUME NEW j \in 1 .. found + 1
                 PROVE  text'[Len(text) - found + 1 + j - 1] = Magic[j]
      BY <2>1, <2>2 DEF Matched, Begins
    <2>3. CASE j = found + 1
      BY <2>3, <2>1, <1>2, <1>3
    <2>4. CASE j # found + 1
      <3>1. j \in 1 .. found /\ Len(text) - found + 1 + j - 1 \in 1 .. Len(text)
        BY <2>4, <1>2, <1>3
      <3>2. text[Len(text) - found + 1 + j - 1] = Magic[j]
        BY <3>1 DEF ScanInv, Matched, Begins
      <3> QED BY <3>1, <3>2, <1>2
    <2> QED BY <2>3, <2>4
  <1> QED BY <1>1, <1>4, <1>5

\* A clean occurrence that begins with the new byte, or that goes on with it, is
\* counted in full.
LEMMA CountedInFull ==
    ASSUME ScanInv, ScanByte,
           NEW i \in 1 .. Len(text'),
           Len(text') - i + 1 <= Len(Magic),
           CleanIn(text', i),
           Begins(text', i, Len(text') - i + 1)
    PROVE  found' = Len(text') - i + 1
  <1>1. PICK b \in Bytes : text' = Append(text, b) /\ (Match(b) \/ Mismatch(b))
    BY DEF ScanByte
  <1>2. text \in Seq(Bytes) /\ Len(text) \in Nat /\ Len(text') = Len(text) + 1
    BY <1>1, Appended DEF ScanInv, ScanTypeOK
  <1>3. Len(Magic) \in Nat /\ Len(Magic) > 0
    BY ScanAssumption
  <1>4. /\ scan = "bytes" /\ found \in Nat /\ found < Len(Magic) /\ found <= Len(text)
    BY <1>1, <1>3 DEF ScanInv, ScanTypeOK, Counting, Match, Mismatch
  <1> DEFINE k == Len(text) - i + 1
  <1>5. /\ i \in 1 .. Len(text) + 1 /\ i \in Nat \ {0} /\ k \in Nat /\ k + 1 \in Nat
        /\ k + 1 = Len(text') - i + 1 /\ k < Len(Magic)
        /\ i + (k + 1) - 1 = Len(text) + 1
    BY <1>2, <1>3
  <1>6. CleanIn(text, i)
    BY <1>1, <1>2, <1>5, CleanAppended
  <1>7. Begins(text, i, k) /\ b = Magic[k + 1]
    <2> HIDE DEF k
    <2>1. Begins(Append(text, b), i, k + 1)
      BY <1>1, <1>5
    <2> DEFINE m == k + 1
    <2>2. m \in Nat /\ i \in Nat \ {0} /\ m > 0 /\ i + m - 1 = Len(text) + 1 /\ m - 1 = k
      BY <1>5
    <2>3. Begins(Append(text, b), i, m)
      BY <2>1
    <2> HIDE DEF m
    <2>4. Begins(text, i, m - 1) /\ b = Magic[m]
      BY <2>2, <2>3, <1>2, BeginsAppended
    <2>5. m = k + 1
      BY DEF m
    <2> QED BY <2>2, <2>4, <2>5
  <1>8. found = k
    <2>1. CASE i <= Len(text)
      BY <2>1, <1>2, <1>4, <1>5, <1>6, <1>7 DEF ScanInv, Followed
    <2>2. CASE i = Len(text) + 1
      <3>1. k = 0
        BY <2>2, <1>2
      <3>2. SUFFICES ASSUME found # 0 PROVE FALSE
        BY <3>1
      <3>3. found \in 1 .. Len(Magic) - 1 /\ found < i
        BY <3>2, <2>2, <1>2, <1>3, <1>4
      <3>4. PICK j \in 1 .. found : text[i - 1 - found + j] # Magic[j]
        BY <3>3, <1>6 DEF CleanIn
      <3>5. text[Len(text) - found + 1 + j - 1] = Magic[j]
        BY DEF ScanInv, Matched, Begins
      <3>6. Len(text) - found + 1 + j - 1 = i - 1 - found + j
        BY <2>2, <1>2, <1>4
      <3> QED BY <3>4, <3>5, <3>6
    <2> QED BY <2>1, <2>2, <1>5
  <1>9. Match(b)
    BY <1>1, <1>7, <1>8 DEF Mismatch
  <1> QED BY <1>5, <1>8, <1>9 DEF Match

\* Through one byte, an occurrence is followed and none is passed over.
LEMMA FollowByte ==
    ASSUME ScanInv, ScanByte
    PROVE  Followed' /\ NotPassed'
  <1>1. PICK b \in Bytes : text' = Append(text, b) /\ (Match(b) \/ Mismatch(b))
    BY DEF ScanByte
  <1>2. text \in Seq(Bytes) /\ Len(text) \in Nat /\ Len(text') = Len(text) + 1
    BY <1>1, Appended DEF ScanInv, ScanTypeOK
  <1>3. Len(Magic) \in Nat /\ Len(Magic) > 0
    BY ScanAssumption
  <1>4. scan = "bytes" /\ found \in Nat /\ found < Len(Magic)
    BY <1>1, <1>3 DEF ScanInv, ScanTypeOK, Counting, Match, Mismatch
  <1>5. Followed'
    BY <1>2, <1>3, CountedInFull DEF Followed
  <1>6. ASSUME NEW i \in 1 .. Len(text'), i + Len(Magic) - 1 <= Len(text'),
               Begins(text', i, Len(Magic)), CleanIn(text', i)
        PROVE  scan' = "hit" /\ i + Len(Magic) - 1 = Len(text')
    <2>1. CASE i + Len(Magic) - 1 <= Len(text)
      <3>1. i \in 1 .. Len(text) /\ i \in 1 .. Len(text) + 1 /\ i \in Nat \ {0}
        BY <2>1, <1>2, <1>3
      <3>2. Begins(text, i, Len(Magic))
        BY <3>1, <2>1, <1>1, <1>2, <1>3, <1>6, BeginsAppended
      <3>3. CleanIn(text, i)
        BY <3>1, <1>1, <1>2, <1>6, CleanAppended
      <3> QED BY <3>1, <3>2, <3>3, <2>1, <1>4 DEF ScanInv, NotPassed
    <2>2. CASE i + Len(Magic) - 1 > Len(text)
      <3>1. i + Len(Magic) - 1 = Len(text') /\ Len(text') - i + 1 = Len(Magic)
        BY <2>2, <1>2, <1>3, <1>6
      <3>2. found' = Len(Magic)
        BY <3>1, <1>3, <1>6, CountedInFull
      <3>3. Match(b)
        BY <3>2, <1>1, <1>3 DEF Mismatch
      <3>4. found + 1 = Len(Magic)
        BY <3>2, <3>3 DEF Match
      <3> QED BY <3>1, <3>3, <3>4 DEF Match
    <2> QED BY <2>1, <2>2, <1>2, <1>3
  <1>7. NotPassed'
    BY <1>6 DEF NotPassed
  <1> QED BY <1>5, <1>7

\* The search begins, and ends, with nothing read.
LEMMA EmptyText ==
    ASSUME text = <<>>, left = 0, found = 0, offset = 0, scan \in {"off", "read"}
    PROVE  ScanInv
  <1>1. Len(text) = 0 /\ text \in Seq(Bytes) /\ Len(Magic) \in Nat /\ Len(Magic) > 0
    BY ScanAssumption
  <1>2. ScanTypeOK
    BY <1>1 DEF ScanTypeOK, ScanPCs
  <1>3. Counting
    BY <1>1 DEF Counting
  <1>4. Matched /\ Followed /\ NotPassed
    BY <1>1 DEF Matched, Followed, NotPassed, Begins
  <1> QED BY <1>2, <1>3, <1>4 DEF ScanInv

\* The same of the state that a step leads to.
LEMMA EmptyTextAgain ==
    ASSUME text' = <<>>, left' = 0, found' = 0, offset' = 0, scan' \in {"off", "read"}
    PROVE  ScanInv'
  <1>1. /\ Len(text') = 0 /\ text' \in Seq(Bytes)
        /\ Len(Magic) \in Nat /\ Len(Magic) > 0
    BY ScanAssumption
  <1>2. ScanTypeOK' /\ Counting'
    BY <1>1 DEF ScanTypeOK, ScanPCs, Counting
  <1>3. Matched' /\ Followed' /\ NotPassed'
    BY <1>1 DEF Matched, Followed, NotPassed, Begins
  <1> QED BY <1>2, <1>3 DEF ScanInv

\* A read gives some bytes to look at, or none.
LEMMA ReadStep ==
    ASSUME ScanInv, ReadBuffer \/ ReadEnds
    PROVE  ScanInv'
  <1>1. /\ UNCHANGED <<text, found, offset>> /\ scan = "read"
        /\ scan' \in {"bytes", "miss", "error"}
    BY DEF ReadBuffer, ReadEnds
  <1>2. left' \in Nat /\ (scan' = "bytes" => left' > 0)
    <2>1. CASE ReadBuffer
      <3>1. PICK n \in 1 .. BufSize : left' = n
        BY <2>1 DEF ReadBuffer
      <3> QED BY <3>1, ScanAssumption
    <2>2. CASE ReadEnds
      BY <2>2 DEF ReadEnds, ScanInv, ScanTypeOK
    <2> QED BY <2>1, <2>2
  <1>3. ScanTypeOK' /\ Counting'
    BY <1>1, <1>2 DEF ScanInv, ScanTypeOK, ScanPCs, Counting
  <1>4. Matched'
    BY <1>1 DEF ScanInv, Matched, Begins
  <1>5. Followed'
    BY <1>1 DEF ScanInv, Followed, Begins, CleanIn
  <1>6. NotPassed'
    BY <1>1 DEF ScanInv, NotPassed, Begins, CleanIn
  <1> QED BY <1>3, <1>4, <1>5, <1>6 DEF ScanInv

\* inFile keeps the invariant whatever the file holds and wherever its buffers
\* end.
THEOREM ScanInvariant == ScanInv /\ ScanStep => ScanInv'
  <1> SUFFICES ASSUME ScanInv, ScanStep PROVE ScanInv'
    OBVIOUS
  <1>1. CASE StartScan \/ EndScan
    <2>1. text' = <<>> /\ left' = 0 /\ found' = 0 /\ offset' = 0 /\ scan' \in {"off", "read"}
      BY <1>1 DEF StartScan, EndScan
    <2> QED BY <2>1, EmptyTextAgain
  <1>2. CASE ReadBuffer \/ ReadEnds
    BY <1>2, ReadStep
  <1>3. CASE ScanByte
    BY <1>3, CountByte, MatchedByte, FollowByte DEF ScanInv
  <1>4. CASE UNCHANGED scanVars
    BY <1>4 DEF scanVars, ScanInv, ScanTypeOK, Counting, Matched, Followed, NotPassed,
                Begins, CleanIn
  <1> QED BY <1>1, <1>2, <1>3, <1>4 DEF ScanStep, ScanNext

\* The invariant says that a hit is a magic number, and where it ends.
LEMMA ScanInvSound ==
    ASSUME ScanInv
    PROVE  ScanSound
  <1> SUFFICES ASSUME scan = "hit"
               PROVE  /\ offset = Len(text) /\ offset >= Len(Magic)
                      /\ Occurs(offset - Len(Magic) + 1)
    BY DEF ScanSound
  <1>1. /\ Len(text) \in Nat /\ Len(Magic) \in Nat
        /\ offset = Len(text) /\ found = Len(Magic) /\ found <= Len(text)
    BY ScanAssumption DEF ScanInv, ScanTypeOK, Counting
  <1>2. \A j \in 1 .. Len(Magic) : text[Len(text) - Len(Magic) + 1 + j - 1] = Magic[j]
    BY <1>1 DEF ScanInv, Matched, Begins
  <1> QED BY <1>1, <1>2 DEF Occurs

\* And that no clean occurrence was passed over.
LEMMA ScanInvComplete ==
    ASSUME ScanInv
    PROVE  ScanComplete
  BY DEF ScanInv, NotPassed, ScanComplete, Occurs, Clean, Begins, CleanIn
=============================================================================
