------------------------- MODULE LineBufferProofs -------------------------
(***************************************************************************)
(* Proofs about LineBuffer for every initial size of at least 2 and every  *)
(* set of line lengths.                                                    *)
(***************************************************************************)
EXTENDS LineBuffer, TLAPS

(* What holds inside the loop, between the loop and the code after it, and *)
(* when the line has been read.                                            *)
InLoop ==
  pc = "getline" =>
    /\ write_cursor = taken /\ taken <= len /\ Room >= 2
    /\ \A i \in 1 .. taken : buffer[i] = i

AfterLoop ==
  pc = "append" =>
    /\ taken = len /\ len < Len(buffer)
    /\ write_cursor = Extracted(len, nl)
    /\ \A i \in 1 .. len : buffer[i] = i
    /\ buffer[len + 1] = NUL

LineRead ==
  pc \in {"idle", "end"} =>
    /\ CursorInBuffer
    /\ \A i \in 1 .. len : buffer[i] = i
    /\ LineCompleted

IInv == TypeOK /\ InLoop /\ AfterLoop /\ LineRead

(* What getline() leaves in the buffer when it stores k characters after   *)
(* the ones that earlier calls stored.                                     *)
LEMMA StoredLemma ==
  ASSUME TypeOK, pc = "getline", InLoop, NEW k \in Nat, k <= Room - 1
  PROVE  /\ Stored(k) \in Seq(Char)
         /\ Len(Stored(k)) = Len(buffer)
         /\ \A i \in 1 .. taken + k : Stored(k)[i] = i
         /\ Stored(k)[taken + k + 1] = NUL
<1>1. /\ buffer \in Seq(Char) /\ Len(buffer) \in Nat /\ taken \in Nat
      /\ write_cursor = taken /\ Room = Len(buffer) - write_cursor
      /\ \A i \in 1 .. taken : buffer[i] = i
  BY DEF TypeOK, InLoop, Room
<1>2. \A i \in 1 .. Len(buffer) : Stored(k)[i] \in Char
  BY <1>1 DEF Stored, Char, NUL
<1>3. Stored(k) \in [1 .. Len(buffer) -> Char]
  BY <1>1, <1>2 DEF Stored
<1>4. Stored(k) \in Seq(Char) /\ Len(Stored(k)) = Len(buffer)
  BY <1>1, <1>3
<1>5. \A i \in 1 .. taken + k : Stored(k)[i] = i
  BY <1>1 DEF Stored
<1>6. Stored(k)[taken + k + 1] = NUL
  BY <1>1 DEF Stored
<1> QED BY <1>4, <1>5, <1>6

LEMMA PutLemma ==
  ASSUME NEW b \in Seq(Char), NEW i \in Nat, 1 <= i, i <= Len(b) + 1,
         NEW c \in Char
  PROVE  /\ Put(b, i, c) \in Seq(Char)
         /\ Len(Put(b, i, c)) = IF i > Len(b) THEN Len(b) + 1 ELSE Len(b)
         /\ Put(b, i, c)[i] = c
         /\ \A j \in 1 .. Len(b) : j # i => Put(b, i, c)[j] = b[j]
  BY DEF Put

LEMMA InitInv == Init => IInv
  BY InitSizeAssumption
     DEF Init, IInv, TypeOK, InLoop, AfterLoop, LineRead, CursorInBuffer,
         LineCompleted, Completed, Extracted, Char, NUL, NL, Room

LEMMA StartLineInv == ASSUME IInv, StartLine PROVE IInv'
<1>1. buffer' \in Seq(Char) /\ Len(buffer') = Len(buffer)
  BY DEF IInv, TypeOK, StartLine, Char
<1>2. TypeOK'
  BY <1>1, LengthsAssumption DEF IInv, TypeOK, StartLine
<1>3. InLoop'
  BY <1>1, <1>2, InitSizeAssumption
     DEF IInv, TypeOK, StartLine, InLoop, Room
<1>4. AfterLoop' /\ LineRead'
  BY DEF StartLine, AfterLoop, LineRead
<1> QED BY <1>2, <1>3, <1>4 DEF IInv

LEMMA GetlineChunkInv == ASSUME IInv, GetlineChunk PROVE IInv'
<1> DEFINE k == Room - 1
<1>1. k \in Nat /\ k <= Room - 1 /\ taken + k < len
  BY DEF IInv, TypeOK, InLoop, Room, GetlineChunk
<1>2. /\ Stored(k) \in Seq(Char)
      /\ Len(Stored(k)) = Len(buffer)
      /\ \A i \in 1 .. taken + k : Stored(k)[i] = i
  <2> HIDE DEF k
  <2> QED BY <1>1, StoredLemma DEF IInv, GetlineChunk
<1>3. /\ buffer' = [i \in 1 .. 2 * Len(buffer) |->
                      IF i <= Len(buffer) THEN Stored(k)[i] ELSE NUL]
      /\ write_cursor' = Len(buffer) - 1
      /\ taken' = taken + k
      /\ len' = len /\ nl' = nl /\ pc' = "getline"
  BY DEF GetlineChunk
<1>4. Len(buffer) \in Nat /\ Len(buffer) >= 2 /\ Len(buffer) >= InitSize
  BY InitSizeAssumption DEF IInv, TypeOK
<1> HIDE DEF k
<1>5. buffer' \in Seq(Char) /\ Len(buffer') = 2 * Len(buffer)
  <2>1. \A i \in 1 .. 2 * Len(buffer) :
          (IF i <= Len(buffer) THEN Stored(k)[i] ELSE NUL) \in Char
    BY <1>2, <1>4 DEF Char
  <2> QED BY <1>3, <1>4, <2>1
<1>6. TypeOK'
  BY <1>1, <1>3, <1>4, <1>5, InitSizeAssumption DEF IInv, TypeOK
<1>7. write_cursor' = taken' /\ taken' <= len' /\ Room' >= 2
  BY <1>1, <1>3, <1>4, <1>5 DEF IInv, TypeOK, InLoop, Room, GetlineChunk, k
<1>8. \A i \in 1 .. taken' : buffer'[i] = i
  BY <1>1, <1>2, <1>3, <1>4, <1>7 DEF IInv, TypeOK
<1> QED BY <1>3, <1>6, <1>7, <1>8 DEF IInv, InLoop, AfterLoop, LineRead

LEMMA GetlineLastInv == ASSUME IInv, GetlineLast PROVE IInv'
<1> DEFINE k == len - taken
<1>1. k \in Nat /\ k <= Room - 1 /\ taken + k = len
  BY DEF IInv, TypeOK, InLoop, GetlineLast
<1>2. /\ Stored(k) \in Seq(Char)
      /\ Len(Stored(k)) = Len(buffer)
      /\ \A i \in 1 .. taken + k : Stored(k)[i] = i
      /\ Stored(k)[taken + k + 1] = NUL
  <2> HIDE DEF k
  <2> QED BY <1>1, StoredLemma DEF IInv, GetlineLast
<1>3. /\ buffer' = Stored(k)
      /\ write_cursor' = write_cursor + Extracted(k, nl)
      /\ taken' = len /\ len' = len /\ nl' = nl /\ pc' = "append"
  BY DEF GetlineLast
<1>4. write_cursor' = Extracted(len', nl')
  BY <1>1, <1>3 DEF IInv, TypeOK, InLoop, GetlineLast, Extracted
<1>5. len < Len(buffer)
  BY <1>1 DEF IInv, TypeOK, InLoop, GetlineLast, Room
<1>6. TypeOK'
  BY <1>2, <1>3, <1>4 DEF IInv, TypeOK, Extracted
<1>7. AfterLoop'
  BY <1>1, <1>2, <1>3, <1>4, <1>5 DEF AfterLoop
<1> QED BY <1>3, <1>6, <1>7 DEF IInv, InLoop, LineRead

LEMMA AppendEndInv == ASSUME IInv, AppendEnd PROVE IInv'
<1>1. /\ taken = len /\ len < Len(buffer) /\ len \in Nat
      /\ write_cursor = Extracted(len, nl) /\ nl \in BOOLEAN
      /\ \A i \in 1 .. len : buffer[i] = i
      /\ buffer[len + 1] = NUL
      /\ buffer \in Seq(Char) /\ Len(buffer) >= 2 /\ Len(buffer) >= InitSize
      /\ Len(buffer) \in Nat
  BY InitSizeAssumption DEF IInv, TypeOK, AfterLoop, AppendEnd
<1>2. /\ taken' = taken /\ len' = len /\ nl' = nl /\ pc' = "idle"
  BY DEF AppendEnd
<1>3. CASE write_cursor > 1
  <2> DEFINE wc == len + 1
             b1 == Put(buffer, wc, NL)
             b2 == Put(b1, wc + 1, NUL)
  <2>1. wc = IF buffer[write_cursor] = NUL THEN write_cursor ELSE write_cursor + 1
    BY <1>1, <1>3 DEF Extracted, NUL
  <2>2. write_cursor' = wc /\ buffer' = b2
    BY <1>3, <2>1 DEF AppendEnd
  <2>3. NL \in Char /\ NUL \in Char
    BY DEF Char
  <2>4. /\ b1 \in Seq(Char) /\ Len(b1) = Len(buffer) /\ b1[wc] = NL
        /\ \A j \in 1 .. Len(buffer) : j # wc => b1[j] = buffer[j]
    BY <1>1, <2>3, PutLemma
  <2>5. wc + 1 \in Nat /\ wc + 1 <= Len(b1) + 1
    BY <1>1, <2>4
  <2> HIDE DEF b1
  <2>6. /\ b2 \in Seq(Char)
        /\ Len(b2) = IF wc + 1 > Len(b1) THEN Len(b1) + 1 ELSE Len(b1)
        /\ b2[wc + 1] = NUL
        /\ \A j \in 1 .. Len(b1) : j # wc + 1 => b2[j] = b1[j]
    <3>1. 1 <= wc + 1
      BY <1>1
    <3> HIDE DEF wc
    <3> QED BY <2>3, <2>4, <2>5, <3>1, PutLemma
  <2> HIDE DEF b2
  <2>12. Len(b2) >= wc + 1 /\ Len(b2) >= Len(buffer)
    BY <1>1, <2>4, <2>6
  <2>7. TypeOK'
    <3>1. buffer' \in Seq(Char) /\ Len(buffer') >= InitSize
      BY <1>1, <2>2, <2>4, <2>6, <2>12, InitSizeAssumption
    <3>2. write_cursor' \in Nat
      BY <1>1, <2>2
    <3> QED BY <1>1, <1>2, <3>1, <3>2 DEF TypeOK
  <2>8. write_cursor' < Len(buffer')
    BY <1>1, <2>2, <2>6, <2>12
  <2>9. \A i \in 1 .. len' : buffer'[i] = i
    BY <1>1, <1>2, <2>2, <2>4, <2>6
  <2>10. buffer'[len' + 1] = NL /\ buffer'[len' + 2] = NUL
    BY <1>1, <1>2, <2>2, <2>4, <2>6
  <2>11. write_cursor' = Width(len', nl')
    BY <1>1, <1>2, <1>3, <2>2 DEF Width, Completed
  <2> QED
    BY <1>2, <2>2, <2>7, <2>8, <2>9, <2>10, <2>11
       DEF IInv, InLoop, AfterLoop, LineRead, CursorInBuffer, LineCompleted
<1>4. CASE ~(write_cursor > 1)
  <2>1. buffer' = buffer /\ write_cursor' = write_cursor
    BY <1>4 DEF AppendEnd
  <2>2. write_cursor < Len(buffer) /\ ~Completed(len, nl)
    BY <1>1, <1>4 DEF Completed, Extracted
  <2>3. write_cursor = Width(len, nl)
    BY <1>1, <2>2 DEF Width
  <2>4. TypeOK'
    BY <1>2, <2>1 DEF IInv, TypeOK
  <2>5. CursorInBuffer' /\ LineCompleted'
    BY <1>2, <2>1, <2>2, <2>3
       DEF CursorInBuffer, LineCompleted, Completed, Extracted, Width
  <2> QED
    BY <1>1, <1>2, <2>1, <2>4, <2>5 DEF IInv, InLoop, AfterLoop, LineRead
<1> QED BY <1>1, <1>3, <1>4

LEMMA StepInv == IInv /\ [Next]_vars => IInv'
<1> SUFFICES ASSUME IInv, [Next]_vars PROVE IInv'
  OBVIOUS
<1>1. CASE Finish
  BY <1>1
     DEF Finish, IInv, TypeOK, InLoop, AfterLoop, LineRead, CursorInBuffer,
         LineCompleted, Room, Completed, Extracted, Width
<1>2. CASE UNCHANGED vars
  BY <1>2
     DEF vars, IInv, TypeOK, InLoop, AfterLoop, LineRead, CursorInBuffer,
         LineCompleted, Room, Completed, Extracted, Width
<1> QED
  BY <1>1, <1>2, StartLineInv, GetlineChunkInv, GetlineLastInv, AppendEndInv
     DEF Next

THEOREM SpecInv == Spec => []IInv
  BY InitInv, StepInv, PTL DEF Spec

(* The variables keep their types and the buffer never shrinks below its   *)
(* initial size.                                                           *)
THEOREM TypeCorrect == Spec => []TypeOK
<1>1. IInv => TypeOK
  BY DEF IInv
<1> QED BY <1>1, SpecInv, PTL

(* ReadLine never calls getline() without room for a character.            *)
THEOREM RoomAlways == Spec => []RoomForProgress
<1>1. IInv => RoomForProgress
  BY DEF IInv, InLoop, RoomForProgress
<1> QED BY <1>1, SpecInv, PTL

(* ReadLine leaves a cursor that ProcessLine and get() may use as an index. *)
THEOREM CursorSafe == Spec => []CursorInBuffer
<1>1. IInv => CursorInBuffer
  BY DEF IInv, LineRead, CursorInBuffer
<1> QED BY <1>1, SpecInv, PTL

(* A line of any length arrives complete and in order.                     *)
THEOREM LineArrives == Spec => []ContentPreserved
<1>1. IInv => ContentPreserved
  BY DEF IInv, AfterLoop, LineRead, ContentPreserved
<1> QED BY <1>1, SpecInv, PTL

(* A line has the length Preprocessor assumes, and '\n' and '\0' behind it *)
(* whenever more than one character was extracted.                         *)
THEOREM LineAlwaysCompleted == Spec => []LineCompleted
<1>1. IInv => LineCompleted
  BY DEF IInv, LineRead, LineCompleted
<1> QED BY <1>1, SpecInv, PTL
=============================================================================
