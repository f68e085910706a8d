------------------------ MODULE ScannerInputProofs ------------------------
(***************************************************************************)
(* Proofs about ScannerInput: the scanner uses the preprocessor only as    *)
(* Preprocessor.tla lets a client use it, and no character is lost between *)
(* get() and the scanner, however the text is cut into blocks; the scanner *)
(* is given the text of the source as CharSource.tla promises, and counts  *)
(* the lines that end with a newline.                                      *)
(***************************************************************************)
EXTENDS ScannerInput, PreprocessorProofs, FiniteSetTheorems

Chars == [file : Files \cup {"unknown_file"}, no : Nat, col : Nat]

(* A call of get() is open exactly while YY_INPUT waits for it.            *)
CallOK ==
  /\ yy \in {"start", "match", "fill", "getting", "last", "end"}
  /\ yy # "getting" => pc = "idle"
  /\ yy = "start" => text = <<>>

ScanInv ==
  /\ TInv /\ EofOnlyWithNul
  /\ text \in Seq(Chars) /\ CallOK
  /\ NothingLost /\ EofIsReal

LEMMA ScanStepIsStep == [ScanNext]_allVars => [Next]_vars
<1>1. ScanNext => [Next]_vars
  BY DEF ScanNext, Start, Input, CallPp, RunPp, Store, Full, Match, EndOfFile, Next
<1> QED BY <1>1 DEF allVars

LEMMA ScanInitInv == ScanInit => ScanInv
<1> SUFFICES ASSUME ScanInit PROVE ScanInv
  OBVIOUS
<1>1. TInv /\ EofOnlyWithNul
  BY InitTInv DEF ScanInit, Init, EofOnlyWithNul
<1>2. /\ text = <<>> /\ out = <<>> /\ yy = "start" /\ pc = "idle"
  BY DEF ScanInit, Init
<1>3. NothingLost
  BY <1>2 DEF NothingLost, Pending
<1> QED BY <1>1, <1>2, <1>3 DEF ScanInv, CallOK, EofIsReal

(* What ScanInv says of out when a character is pending, and when none is. *)
LEMMA PendingLemma ==
  ASSUME ScanInv
  PROVE  /\ last \in Chars /\ out \in Seq(Chars) /\ text \in Seq(Chars)
         /\ pc = "get" => text = out
         /\ yy # "getting" => text = out
         /\ last = Nul => text = out
         /\ yy = "getting" /\ pc = "idle" /\ last # Nul => Append(text, last) = out
<1>1. last \in Chars /\ out \in Seq(Chars) /\ text \in Seq(Chars)
  BY DEF ScanInv, TInv, TypeOK, Chars
<1>2. Pending = <<>> => text = out
  BY <1>1 DEF ScanInv, NothingLost
<1>3. Pending = <<last>> => Append(text, last) = out
  BY <1>1 DEF ScanInv, NothingLost
<1> QED BY <1>1, <1>2, <1>3 DEF Pending

(* Steps of the scanner alone. *)
LEMMA ScannerStepInv ==
  ASSUME ScanInv, UNCHANGED vars,
         \/ Input \/ Full \/ EndOfFile
         \/ \E n \in matched + 1 .. Len(text) : Match(n)
  PROVE  text' \in Seq(Chars) /\ CallOK' /\ NothingLost' /\ EofIsReal'
<1>1. /\ text \in Seq(Chars) /\ text' = text
      /\ yy # "getting" /\ yy' # "getting" /\ yy' # "start"
      /\ yy' \in {"match", "fill", "last", "end"}
      /\ yy' \in {"last", "end"} => yy \in {"last", "end"}
  BY DEF ScanInv, CallOK, Input, Full, EndOfFile, Match
<1>2. /\ out' = out /\ pc' = pc /\ eof' = eof /\ last' = last
  BY DEF vars, clientVars, stateVars
<1>3. text = out
  BY <1>1, PendingLemma
<1>4. Pending' = <<>>
  BY <1>1 DEF Pending
<1>5. NothingLost'
  BY <1>1, <1>2, <1>3, <1>4 DEF NothingLost
<1> QED BY <1>1, <1>2, <1>5 DEF ScanInv, CallOK, EofIsReal

LEMMA StoreInv ==
  ASSUME ScanInv, Store
  PROVE  text' \in Seq(Chars) /\ CallOK' /\ NothingLost' /\ EofIsReal'
<1>1. /\ yy = "getting" /\ pc = "idle" /\ UNCHANGED vars
      /\ out' = out /\ pc' = pc /\ eof' = eof /\ last' = last
  BY DEF Store, vars, clientVars, stateVars
<1>2. /\ last \in Chars /\ out \in Seq(Chars) /\ text \in Seq(Chars)
      /\ last = Nul => text = out
      /\ last # Nul => Append(text, last) = out
  BY <1>1, PendingLemma
<1>3. CASE eof
  <2>1. last = Nul
    BY <1>1, <1>3 DEF ScanInv, EofOnlyWithNul
  <2>2. text' = text /\ yy' \in {"last", "match"}
    BY <1>3 DEF Store
  <2>3. Pending' = <<>>
    BY <2>2 DEF Pending
  <2>4. NothingLost'
    BY <1>1, <1>2, <2>1, <2>2, <2>3 DEF NothingLost
  <2> QED BY <1>1, <1>2, <1>3, <2>1, <2>2, <2>4 DEF CallOK, EofIsReal
<1>4. CASE ~eof
  <2>1. yy' = "fill" /\ text' = IF last = Nul THEN text ELSE Append(text, last)
    BY <1>4 DEF Store
  <2>2. Pending' = <<>>
    BY <2>1 DEF Pending
  <2>3. text' = out /\ text' \in Seq(Chars)
    BY <1>2, <2>1
  <2>4. NothingLost'
    BY <1>1, <1>2, <2>2, <2>3 DEF NothingLost
  <2> QED BY <1>1, <2>1, <2>3, <2>4 DEF CallOK, EofIsReal
<1> QED BY <1>3, <1>4

(* Inside a call of get(): only ReturnChar changes out. *)
LEMMA RunPpInv ==
  ASSUME ScanInv, RunPp
  PROVE  text' \in Seq(Chars) /\ CallOK' /\ NothingLost' /\ EofIsReal'
<1>1. yy = "getting" /\ pc = "get" /\ yy' = yy /\ text' = text
  BY DEF RunPp, scannerVars
<1>2. text = out /\ text \in Seq(Chars)
  BY <1>1, PendingLemma
<1>3. CallOK' /\ EofIsReal'
  BY <1>1 DEF CallOK, EofIsReal
<1>4. CASE Fetch
  <2>1. out' = out /\ pc' # "idle"
    BY <1>1, <1>4
       DEF Fetch, FetchNothing, FetchEmpty, FetchOmitted, FetchText, FetchDefine,
           FetchInclude, FetchBadInclude, FetchEmptyInclude, FetchIfdef,
           FetchIfndef, FetchEndif, clientVars
  <2>2. Pending' = <<>>
    BY <2>1 DEF Pending
  <2> QED BY <1>1, <1>2, <1>3, <2>1, <2>2 DEF NothingLost
<1>5. CASE ReturnNul
  <2>1. out' = out /\ last' = Nul
    BY <1>5 DEF ReturnNul
  <2>2. Pending' = <<>>
    BY <2>1 DEF Pending
  <2> QED BY <1>1, <1>2, <1>3, <2>1, <2>2 DEF NothingLost
<1>6. CASE ReturnChar
  <2>1. /\ out' = Append(out, last') /\ pc' = "idle"
        /\ last' = [file |-> buf.file, no |-> buf.no, col |-> read_cursor + 1]
    BY <1>6 DEF ReturnChar
  <2>2. last'.col = read_cursor + 1 /\ read_cursor \in Nat
    BY <2>1 DEF ScanInv, TInv, TypeOK
  <2>3. last' # Nul
    BY <2>2 DEF Nul
  <2>4. Pending' = <<last'>>
    BY <1>1, <2>1, <2>3 DEF Pending
  <2>5. last' \in Chars
    BY <2>1, <2>2 DEF ScanInv, TInv, TypeOK, Chars
  <2> QED BY <1>1, <1>2, <1>3, <2>1, <2>4, <2>5 DEF NothingLost
<1> QED BY <1>4, <1>5, <1>6 DEF RunPp

LEMMA ScanStepInv == ScanInv /\ [ScanNext]_allVars => ScanInv'
<1> SUFFICES ASSUME ScanInv, [ScanNext]_allVars PROVE ScanInv'
  OBVIOUS
<1>1. TInv' /\ EofOnlyWithNul'
  BY ScanStepIsStep, StepTInv, StepEof DEF ScanInv
<1> SUFFICES text' \in Seq(Chars) /\ CallOK' /\ NothingLost' /\ EofIsReal'
  BY <1>1 DEF ScanInv
<1>2. CASE Start
  <2>1. /\ yy = "start" /\ yy' = "match" /\ text' = text /\ text = <<>>
    BY <1>2 DEF Start, ScanInv, CallOK
  <2>2. text = out /\ pc = "idle"
    BY <2>1, PendingLemma DEF ScanInv, CallOK
  <2>3. out' = <<>> /\ pc' = "idle"
    BY <1>2, <2>1, <2>2 DEF Start, Seek, vars, clientVars
  <2>4. Pending' = <<>>
    BY <2>1 DEF Pending
  <2>5. NothingLost'
    BY <2>1, <2>3, <2>4 DEF NothingLost
  <2> QED BY <2>1, <2>3, <2>5 DEF CallOK, EofIsReal
<1>3. CASE CallPp
  <2>1. /\ yy = "fill" /\ yy' = "getting" /\ text' = text
        /\ pc' = "get" /\ out' = out
    BY <1>3 DEF CallPp, CallGet
  <2>2. text = out /\ text \in Seq(Chars)
    BY <2>1, PendingLemma
  <2>3. Pending' = <<>>
    BY <2>1 DEF Pending
  <2>4. NothingLost'
    BY <2>1, <2>2, <2>3 DEF NothingLost
  <2> QED BY <2>1, <2>2, <2>4 DEF CallOK, EofIsReal
<1>4. CASE \/ Input \/ Full \/ EndOfFile
           \/ \E n \in matched + 1 .. Len(text) : Match(n)
  <2>1. UNCHANGED vars
    BY <1>4 DEF Input, Full, EndOfFile, Match
  <2> QED BY <1>4, <2>1, ScannerStepInv
<1>5. CASE UNCHANGED allVars
  BY <1>5 DEF allVars, vars, clientVars, stateVars, scannerVars, ScanInv, CallOK,
              NothingLost, Pending, EofIsReal
<1> QED BY <1>2, <1>3, <1>4, <1>5, RunPpInv, StoreInv DEF ScanNext

THEOREM ScanSpecInv == ScanSpec => []ScanInv
  BY ScanInitInv, ScanStepInv, PTL DEF ScanSpec

(* The scanner is a client as Preprocessor.tla assumes: it asks for a      *)
(* source only between two lines, and makes one call at a time.            *)
THEOREM ScannerIsClient == ScanSpec => Init /\ [][Next]_vars
<1>1. ScanInit => Init
  BY DEF ScanInit
<1> QED BY <1>1, ScanStepIsStep, PTL DEF ScanSpec

(* Every character get() returns reaches the scanner, once and in order.   *)
THEOREM NoCharacterLost == ScanSpec => []NothingLost
<1>1. ScanInv => NothingLost
  BY DEF ScanInv
<1> QED BY <1>1, ScanSpecInv, PTL

(* The token EOF comes only after the preprocessor's own end, with all of  *)
(* the text in the scanner's hands.                                        *)
THEOREM EofAfterAll == ScanSpec => []EofIsReal
<1>1. ScanInv => EofIsReal
  BY DEF ScanInv
<1> QED BY <1>1, ScanSpecInv, PTL

(* So what is proved of the preprocessor holds while the scanner uses it:  *)
(* the locations it names are right.                                       *)
THEOREM ScanLocations == ScanSpec => []LocationCorrect
<1>1. Init => IInv
  BY InitTInv, InitLInv DEF IInv
<1>2. IInv => LocationCorrect
  BY IInvLocation
<1> QED BY <1>1, <1>2, StepIInv, ScannerIsClient, PTL
-----------------------------------------------------------------------------
(* While YY_INPUT waits for a character there is a place for it.           *)
ScanTInv ==
  ScanTypeOK /\ (yy = "getting" => result < max_size)

LEMMA NewlinesBounded ==
  ASSUME NEW from \in Nat, NEW to \in Nat, from <= to
  PROVE  Newlines(from + 1, to) \in 0 .. to - from
<1> DEFINE I == from + 1 .. to
<1> DEFINE N == {i \in I : IsNewline(text[i])}
<1>1. IsFiniteSet(I) /\ Cardinality(I) = to - from
  <2>1. from + 1 \in Int /\ to \in Int
    OBVIOUS
  <2>2. /\ IsFiniteSet(from + 1 .. to)
        /\ Cardinality(from + 1 .. to) =
             IF from + 1 > to THEN 0 ELSE to - (from + 1) + 1
    BY <2>1, FS_Interval
  <2> QED BY <2>2
<1>2. N \subseteq I
  OBVIOUS
<1> HIDE DEF I
<1>3. Cardinality(N) <= Cardinality(I) /\ IsFiniteSet(N)
  BY <1>1, <1>2, FS_Subset
<1>4. Cardinality(N) \in Nat
  BY <1>3, FS_CardinalityType
<1>5. Newlines(from + 1, to) = Cardinality(N)
  BY DEF Newlines, I
<1> QED BY <1>1, <1>3, <1>4, <1>5

LEMMA ScanTypeStep ==
  ASSUME ScanInv, ScanTInv, [ScanNext]_allVars
  PROVE  ScanTInv'
<1>1. /\ text \in Seq(Chars) /\ Len(text) \in Nat /\ last \in Chars
      /\ max_size \in Nat /\ result \in Nat /\ matched \in Nat /\ line \in Nat
  BY PendingLemma, MaxReadAssumption DEF ScanInv, ScanTInv, ScanTypeOK
<1>2. CASE Start \/ Full \/ EndOfFile \/ CallPp
  BY <1>1, <1>2 DEF Start, Full, EndOfFile, CallPp, ScanTInv, ScanTypeOK
<1>3. CASE Input
  BY <1>1, <1>3, MaxReadAssumption DEF Input, ScanTInv, ScanTypeOK
<1>4. CASE RunPp \/ UNCHANGED allVars
  BY <1>4 DEF RunPp, allVars, scannerVars, ScanTInv, ScanTypeOK
<1>5. CASE Store
  <2>1. result < max_size
    BY <1>5 DEF Store, ScanTInv
  <2>2. Len(text') \in Nat /\ Len(text') >= Len(text)
    BY <1>1, <1>5 DEF Store
  <2>3. result' \in 0 .. max_size' /\ yy' \in {"last", "match", "fill"}
    BY <1>1, <1>5, <2>1 DEF Store
  <2> QED BY <1>1, <1>5, <2>2, <2>3 DEF Store, ScanTInv, ScanTypeOK
<1>6. CASE \E n \in matched + 1 .. Len(text) : Match(n)
  <2>1. PICK n \in matched + 1 .. Len(text) : Match(n)
    BY <1>6
  <2>2. Newlines(matched + 1, n) \in 0 .. n - matched
    BY <1>1, NewlinesBounded
  <2>3. line' \in 0 .. matched' /\ matched' \in 0 .. Len(text')
    BY <1>1, <2>1, <2>2 DEF Match, ScanTInv, ScanTypeOK
  <2> QED BY <2>1, <2>3 DEF Match, ScanTInv, ScanTypeOK
<1> QED BY <1>2, <1>3, <1>4, <1>5, <1>6 DEF ScanNext

(* YY_INPUT stores no more than max_size characters, and tokens lie in the *)
(* text and have no more line ends than characters.                        *)
THEOREM ScanTypeCorrect == ScanSpec => []ScanTypeOK
<1>1. ScanInit => ScanTInv
  BY MaxReadAssumption DEF ScanInit, ScanTInv, ScanTypeOK
<1>2. ScanTInv => ScanTypeOK
  BY DEF ScanTInv
<1> QED BY <1>1, <1>2, ScanTypeStep, ScanSpecInv, PTL DEF ScanSpec
-----------------------------------------------------------------------------
(* The preprocessor and YY_INPUT together implement CharSource.  The third *)
(* invariant is about the one source the scan is of: whether there is one  *)
(* and it could be opened, and that nothing comes from it otherwise.       *)

LEMMA SourceStays ==
  ASSUME TInv, Fetch \/ CallGet \/ ReturnChar \/ ReturnNul \/ UNCHANGED vars
  PROVE  /\ UNCHANGED <<fs, input_source, current_source>>
         /\ source_fs'.file = source_fs.file /\ source_fs'.state = source_fs.state
<1>1. CASE Fetch
  <2>1. PICK d \in 0 .. Len(header_stack) :
           \/ FetchNothing(d)    \/ FetchEmpty(d)        \/ FetchOmitted(d)
           \/ FetchText(d)       \/ FetchDefine(d)       \/ FetchInclude(d)
           \/ FetchBadInclude(d) \/ FetchEmptyInclude(d) \/ FetchIfdef(d)
           \/ FetchIfndef(d)     \/ FetchEndif(d)
    BY <1>1 DEF Fetch
  <2>2. UNCHANGED <<fs, input_source, current_source>>
    BY <2>1 DEF FetchNothing, FetchEmpty, FetchOmitted, FetchText, FetchDefine,
         FetchInclude, FetchBadInclude, FetchEmptyInclude, FetchIfdef,
         FetchIfndef, FetchEndif, sourceVars
  <2>3. CASE FetchNothing(d)
    BY <2>2, <2>3 DEF FetchNothing
  <2>4. CASE ~FetchNothing(d)
    <3>1. ReadLine(d)
      BY <2>1, <2>4 DEF FetchEmpty, FetchOmitted, FetchText, FetchDefine, FetchInclude,
           FetchBadInclude, FetchEmptyInclude, FetchIfdef, FetchIfndef, FetchEndif, Reads
    <3>2. \/ source_fs' = source_fs
          \/ source_fs' = AfterGetline(source_fs) /\ Chosen(d) = source_fs
      BY <3>1 DEF ReadLine, Chosen
    <3>3. StreamOK(fs, source_fs) /\ fs \in FileSystems /\ ~Eof(Chosen(d))
      BY <3>1 DEF TInv, ReadLine
    <3> QED BY <2>2, <3>2, <3>3, GetlineLemma
  <2> QED BY <2>3, <2>4
<1>2. CASE CallGet \/ ReturnChar \/ ReturnNul \/ UNCHANGED vars
  BY <1>2 DEF CallGet, ReturnChar, ReturnNul, vars, sourceVars
<1> QED BY <1>1, <1>2

(* A source that is not open gives nothing. *)
NoText == out = <<>> /\ header_stack = <<>> /\ read_cursor >= write_cursor

LEMMA ClosedSourceStaysSilent ==
  ASSUME TInv, source_fs.state # "open", NoText,
         Fetch \/ CallGet \/ ReturnChar \/ ReturnNul \/ UNCHANGED vars
  PROVE  NoText'
<1>1. CASE Fetch
  <2>1. PICK d \in 0 .. Len(header_stack) :
           \/ FetchNothing(d)    \/ FetchEmpty(d)        \/ FetchOmitted(d)
           \/ FetchText(d)       \/ FetchDefine(d)       \/ FetchInclude(d)
           \/ FetchBadInclude(d) \/ FetchEmptyInclude(d) \/ FetchIfdef(d)
           \/ FetchIfndef(d)     \/ FetchEndif(d)
    BY <1>1 DEF Fetch
  <2>2. d = 0 /\ Chosen(0) = source_fs
    BY DEF NoText, Chosen, FromHeader
  <2>3. ~ReadLine(d)
    BY <2>2, ReadLineLemma
  <2>4. FetchNothing(0)
    BY <2>1, <2>2, <2>3 DEF FetchEmpty, FetchOmitted, FetchText, FetchDefine, FetchInclude,
         FetchBadInclude, FetchEmptyInclude, FetchIfdef, FetchIfndef, FetchEndif, Reads
  <2>5. SubSeq(header_stack, 1, 0) = <<>>
    BY DEF NoText
  <2> QED BY <2>4, <2>5 DEF FetchNothing, NoText, clientVars
<1>2. ~ReturnChar
  BY DEF NoText, ReturnChar, TInv, TypeOK
<1>3. CASE CallGet \/ ReturnNul \/ UNCHANGED vars
  BY <1>3 DEF CallGet, ReturnNul, vars, clientVars, stateVars, NoText
<1> QED BY <1>1, <1>2, <1>3

(* The source of the scan. *)
Begun ==
  /\ current_source = 0
  /\ yy = "start" \/ input_source = <<>> => source_fs.state = "null"
  /\ yy # "start" /\ input_source # <<>> =>
       /\ source_fs.file = input_source[1]
       /\ source_fs.state =
            IF input_source[1] \in DOMAIN fs /\ 0 < MaxOpen THEN "open" ELSE "missing"
  /\ source_fs.state # "open" => NoText

SourceInv == ScanInv /\ IInv /\ (NoReadErrors => DInv) /\ Begun

LEMMA ScanInitBegun == ScanInit => Begun
BY DEF ScanInit, Init, Begun, NoText, NullStream

LEMMA ScanStepBegun ==
  ASSUME ScanInv, Begun, [ScanNext]_allVars
  PROVE  Begun'
<1>1. TInv /\ CallOK
  BY DEF ScanInv
<1>2. CASE Start
  <2>1. yy = "start" /\ yy' = "match" /\ source_fs.state = "null" /\ NoText
    BY <1>2 DEF Start, Begun
  <2>2. CASE input_source = <<>> /\ UNCHANGED vars
    <3>1. /\ input_source' = <<>> /\ current_source' = 0 /\ source_fs' = source_fs
          /\ out' = out /\ header_stack' = header_stack
          /\ UNCHANGED <<read_cursor, write_cursor>>
      BY <2>2 DEF vars, sourceVars, clientVars, stateVars, Begun
    <3> QED BY <2>1, <3>1 DEF Begun, NoText
  <2>3. CASE Seek
    <3>1. /\ AtBoundary /\ Clear /\ out' = <<>> /\ UNCHANGED <<fs, input_source>>
          /\ current_source = 0 /\ current_source' = 0 /\ input_source # <<>>
          /\ source_fs' = Fopen(input_source[1], OpenCount(<<>>, source_fs))
          /\ UNCHANGED <<read_cursor, write_cursor>>
      BY <2>3 DEF Seek, sourceVars, Begun
    <3>2. OpenCount(<<>>, source_fs) = 0
      <4>1. {i \in 1 .. Len(<<>>) : <<>>[i].is.state = "open"} = {}
        OBVIOUS
      <4>2. Cardinality({}) = 0
        BY FS_EmptySet
      <4> QED BY <2>1, <4>1, <4>2 DEF OpenCount
    <3>3. /\ source_fs'.file = input_source[1]
          /\ source_fs'.state =
               IF input_source[1] \in DOMAIN fs /\ 0 < MaxOpen THEN "open" ELSE "missing"
      BY <3>1, <3>2 DEF Fopen, Missing
    <3>4. NoText'
      BY <3>1 DEF NoText, Clear, AtBoundary
    <3> QED BY <2>1, <3>1, <3>3, <3>4 DEF Begun
  <2> QED BY <1>2, <2>2, <2>3 DEF Start
<1>3. CASE ~Start
  <2>1. /\ Fetch \/ CallGet \/ ReturnChar \/ ReturnNul \/ UNCHANGED vars
        /\ yy' = "start" <=> yy = "start"
    BY <1>3 DEF ScanNext, Input, CallPp, RunPp, Store, Full, Match, EndOfFile,
         allVars, scannerVars
  <2>2. /\ UNCHANGED <<fs, input_source, current_source>>
        /\ source_fs'.file = source_fs.file /\ source_fs'.state = source_fs.state
    BY <1>1, <2>1, SourceStays
  <2>3. source_fs.state # "open" => NoText'
    BY <1>1, <2>1, ClosedSourceStaysSilent DEF Begun
  <2> QED BY <2>1, <2>2, <2>3 DEF Begun
<1> QED BY <1>2, <1>3

THEOREM ScanSpecSource == ScanSpec => []SourceInv
<1>1. ScanInit => SourceInv
  <2>1. ScanInit => Init
    BY DEF ScanInit
  <2>2. Init => (NoReadErrors => DInv)
    BY DEF Init, DInv, NullStream
  <2> QED BY <2>1, <2>2, ScanInitInv, ScanInitBegun, InitTInv, InitLInv DEF SourceInv, IInv
<1>2. SourceInv /\ [ScanNext]_allVars => SourceInv'
  BY ScanStepInv, ScanStepBegun, ScanStepIsStep, StepIInv, StepDInv DEF SourceInv
<1> QED BY <1>1, <1>2, PTL DEF ScanSpec

(* What DeliversExpansion says, of the text that is wanted. *)
LEMMA WantedDelivered ==
  ASSUME SourceInv, NoReadErrors, yy # "start"
  PROVE  /\ Len(out) \in Nat /\ IsPrefix(out, Wanted) /\ Len(Wanted) \in Nat
         /\ eof /\ ~in_omit_mode => out = Wanted
<1>1. Len(out) \in Nat /\ out \in Seq(Chars)
  BY PendingLemma DEF SourceInv
<1>2. fs \in FileSystems /\ HasLines(fs)
  BY FilesHaveLines DEF SourceInv, ScanInv, TInv
<1>3. CASE source_fs.state = "open"
  <2>1. input_source # <<>> /\ source_fs.file = input_source[1]
    BY <1>3 DEF SourceInv, Begun
  <2>2. Wanted = Expected
    BY <2>1 DEF Wanted, Expected
  <2>3. DeliversExpansion
    BY DInvDelivers DEF SourceInv
  <2>4. IsPrefix(out, Expected) /\ (eof /\ ~in_omit_mode => out = Expected)
    BY <1>3, <2>3 DEF DeliversExpansion
  <2>5. Len(Expected) \in Nat
    <3>1. source_fs.file \in DOMAIN fs
      BY <1>3 DEF SourceInv, ScanInv, TInv, StreamOK
    <3>2. Expected \in Seq(Place(fs))
      BY <1>2, <3>1, TextIsWalked, MaxOpenAssumption DEF Expected
    <3> QED BY <3>2
  <2> QED BY <1>1, <2>2, <2>4, <2>5
<1>4. CASE source_fs.state # "open"
  <2>1. out = <<>>
    BY <1>4 DEF SourceInv, Begun, NoText
  <2>2. Wanted = <<>>
    <3>1. CASE input_source = <<>>
      BY <3>1 DEF Wanted
    <3>2. CASE input_source # <<>> /\ input_source[1] \notin DOMAIN fs
      BY <3>2 DEF Wanted, Expanded
    <3>3. CASE input_source # <<>> /\ input_source[1] \in DOMAIN fs
      <4>1. ~(0 < MaxOpen) /\ MaxOpen = 0
        BY <1>4, <3>3, MaxOpenAssumption DEF SourceInv, Begun
      <4>2. NothingWalked \in Walked(fs)
        BY DEF NothingWalked, Walked
      <4>3. FileWalk(fs)[0][<<input_source[1], NothingWalked>>] = NothingWalked
        BY <1>2, <3>3, <4>2, FileWalkEquations
      <4> QED BY <3>3, <4>1, <4>3 DEF Wanted, Expanded, NothingWalked
    <3> QED BY <3>1, <3>2, <3>3
  <2>3. IsPrefix(<<>>, <<>>)
    BY DEF IsPrefix
  <2> QED BY <2>1, <2>2, <2>3
<1> QED BY <1>3, <1>4

(* A step of the scan gives the scanner one more character of the text, or *)
(* tells it the end of all of it, or is a stutter of CharSource.           *)
LEMMA ScanStepGives ==
  ASSUME SourceInv, NoReadErrors, ~in_omit_mode, [ScanNext]_allVars
  PROVE  [Source!Give \/ Source!TellEnd]_(Source!sourceState)
<1>1. ScanInv /\ ScanInv' /\ Begun
  BY ScanStepInv DEF SourceInv
<1>2. UNCHANGED Wanted
  <2>1. UNCHANGED <<fs, input_source>>
    <3>1. CASE Start
      BY <3>1 DEF Start, Seek, vars, sourceVars
    <3>2. CASE ~Start
      <4>1. Fetch \/ CallGet \/ ReturnChar \/ ReturnNul \/ UNCHANGED vars
        BY <3>2 DEF ScanNext, Input, CallPp, RunPp, Store, Full, Match, EndOfFile, allVars
      <4> QED BY <1>1, <4>1, SourceStays DEF ScanInv
    <3> QED BY <3>1, <3>2
  <2> QED BY <2>1 DEF Wanted
<1>3. CASE Store /\ ~eof /\ last # Nul
  <2>1. /\ text' = Append(text, last) /\ yy = "getting" /\ yy' = "fill" /\ pc = "idle"
    BY <1>3 DEF Store
  <2>2. text' = out /\ Len(text) \in Nat /\ Len(out) = Len(text) + 1
    <3>1. Append(text, last) = out /\ text \in Seq(Chars) /\ last \in Chars
      BY <1>1, <1>3, <2>1, PendingLemma
    <3> QED BY <2>1, <3>1
  <2>3. Len(out) \in Nat /\ IsPrefix(out, Wanted) /\ Len(Wanted) \in Nat
    BY <2>1, WantedDelivered
  <2>4. /\ out = SubSeq(out, 1, Len(out)) /\ Len(out) <= Len(Wanted)
        /\ SubSeq(out, 1, Len(out)) = SubSeq(Wanted, 1, Len(out))
    <3>1. out \in Seq(Chars)
      BY <1>1, PendingLemma
    <3> QED BY <2>3, <3>1 DEF IsPrefix
  <2>5. Len(out) \in Len(text) + 1 .. Len(Wanted)
    BY <2>2, <2>3, <2>4
  <2>6. Source!Give
    BY <1>2, <2>1, <2>2, <2>4, <2>5 DEF Source!Give
  <2> QED BY <2>6
<1>4. CASE EndOfFile
  <2>1. yy = "last" /\ yy' = "end" /\ text' = text /\ eof /\ text = out
    BY <1>1, <1>4 DEF EndOfFile, ScanInv, EofIsReal
  <2>2. out = Wanted
    BY <2>1, WantedDelivered
  <2>3. Source!TellEnd
    BY <1>2, <2>1, <2>2 DEF Source!TellEnd
  <2> QED BY <2>3
<1>5. CASE ~(Store /\ ~eof /\ last # Nul) /\ ~EndOfFile
  <2>1. text' = text
    BY <1>5 DEF ScanNext, Start, Input, CallPp, RunPp, Store, Full, Match, allVars, scannerVars
  <2>2. yy' = "end" <=> yy = "end"
    BY <1>5 DEF ScanNext, Start, Input, CallPp, RunPp, Store, Full, Match, allVars, scannerVars
  <2> QED BY <1>2, <2>1, <2>2 DEF Source!sourceState
<1> QED BY <1>3, <1>4, <1>5

(* The preprocessor and YY_INPUT together implement CharSource: on a disk  *)
(* without read errors, and as long as no condition is false, the scanner  *)
(* is given the text of the source with its headers in place, each         *)
(* character once and in order, and the token EOF when it has all of it    *)
(* and never before.                                                       *)
THEOREM ScanImplementsSource ==
  ScanSpec /\ [](NoReadErrors /\ ~in_omit_mode) => Source!SourceSteps
<1>1. ScanInit => Source!SourceInit
  BY DEF ScanInit, Source!SourceInit
<1>2. SourceInv /\ NoReadErrors /\ ~in_omit_mode /\ [ScanNext]_allVars
        => [Source!Give \/ Source!TellEnd]_(Source!sourceState)
  BY ScanStepGives
<1> QED BY <1>1, <1>2, ScanSpecSource, PTL DEF ScanSpec, Source!SourceSteps
-----------------------------------------------------------------------------
(* Line numbers.  Of a source without headers and conditions, what get()   *)
(* has returned before a character has as many '\n's as there are lines    *)
(* before the character's that give one; the scanner has counted those of  *)
(* the tokens it has matched.                                              *)

Plain(f) == \A i \in DOMAIN f : f[i].kind \in {"text", "define"}

(* The '\n's among the first n characters, and the lines that have one     *)
(* among the first n lines.                                                *)
Ends(n) == {i \in 1 .. n : IsNewline(out[i])}
Loud(n) == {i \in 1 .. n : ~Silent(fs[source_fs.file][i])}

(* The buffer holds the line read last. *)
BufferedLine ==
  LET l == fs[source_fs.file][source_fs.pos]
  IN  /\ buf = [file |-> source_fs.file, no |-> source_fs.pos]
      /\ source_fs.pos > 0 /\ l.kind = "text"
      /\ write_cursor = Width(l.len, l.nl)

CountInv ==
  source_fs.state = "open" /\ Plain(fs[source_fs.file]) =>
    /\ header_stack = <<>> /\ ~in_omit_mode
    /\ \A i \in 1 .. Len(out) :
         /\ out[i].file = source_fs.file /\ out[i].no \in 1 .. source_fs.pos
         /\ Cardinality(Ends(i - 1)) = Cardinality(Loud(out[i].no - 1))
    /\ read_cursor < write_cursor =>
         BufferedLine /\ Cardinality(Ends(Len(out))) = Cardinality(Loud(source_fs.pos - 1))
    /\ ~(read_cursor < write_cursor) =>
         Cardinality(Ends(Len(out))) = Cardinality(Loud(source_fs.pos))

LEMMA CountNext ==
  ASSUME NEW n \in Nat, NEW A \in SUBSET (1 .. n)
  PROVE  /\ IsFiniteSet(A) /\ Cardinality(A) \in Nat
         /\ Cardinality(A \cup {n + 1}) = Cardinality(A) + 1
<1>1. IsFiniteSet(1 .. n)
  BY FS_Interval
<1>2. IsFiniteSet(A)
  BY <1>1, FS_Subset
<1>3. n + 1 \notin A
  OBVIOUS
<1> QED BY <1>2, <1>3, FS_CardinalityType, FS_AddElement

LEMMA SplitCount ==
  ASSUME NEW S, NEW T, IsFiniteSet(S), IsFiniteSet(T), S \cap T = {}
  PROVE  /\ Cardinality(S) \in Nat /\ Cardinality(T) \in Nat
         /\ Cardinality(S \cup T) = Cardinality(S) + Cardinality(T)
<1>1. Cardinality(S) \in Nat /\ Cardinality(T) \in Nat
  BY FS_CardinalityType
<1>2. Cardinality(S \cap T) = 0
  BY FS_EmptySet
<1>3. Cardinality(S \cup T) = Cardinality(S) + Cardinality(T) - Cardinality(S \cap T)
  BY FS_Union
<1> QED BY <1>1, <1>2, <1>3

LEMMA LoudNext ==
  ASSUME NEW n \in Nat
  PROVE  /\ Cardinality(Loud(n)) \in Nat
         /\ Silent(fs[source_fs.file][n + 1]) => Loud(n + 1) = Loud(n)
         /\ ~Silent(fs[source_fs.file][n + 1]) =>
              Cardinality(Loud(n + 1)) = Cardinality(Loud(n)) + 1
<1>1. Loud(n) \in SUBSET (1 .. n)
  BY DEF Loud
<1>2. ~Silent(fs[source_fs.file][n + 1]) => Loud(n + 1) = Loud(n) \cup {n + 1}
  BY DEF Loud
<1>3. Silent(fs[source_fs.file][n + 1]) => Loud(n + 1) = Loud(n)
  BY DEF Loud
<1> QED BY <1>1, <1>2, <1>3, CountNext

(* Lines are not empty: get() returns one character of each, or more.      *)
LEMMA LineHasWidth ==
  ASSUME fs \in FileSystems, NEW f \in DOMAIN fs, NEW n \in 1 .. Len(fs[f]),
         fs[f][n].kind = "text"
  PROVE  /\ Width(fs[f][n].len, fs[f][n].nl) > 0
         /\ Completed(fs[f][n].len, fs[f][n].nl) =>
              Width(fs[f][n].len, fs[f][n].nl) = fs[f][n].len + 1
<1>1. fs[f][n].len \in Nat /\ fs[f][n].nl \in BOOLEAN
  BY FileFacts DEF Line
<1>2. fs[f][n].len = 0 => fs[f][n].nl
  <2>1. WellFormed(fs[f])
    BY FileSystemsAssumption
  <2> QED BY <2>1 DEF WellFormed
<1> QED BY <1>1, <1>2 DEF Width, Completed, Extracted

LEMMA PositionStays ==
  ASSUME NEW is \in Stream, ~HasLine(is)
  PROVE  AfterGetline(is).pos = is.pos
BY DEF AfterGetline, HasLine, Stream, GoodStream

(* Inside get()'s loop: a line is read, or nothing more. *)
LEMMA CountFetch ==
  ASSUME TInv, CountInv, Fetch, source_fs.state = "open", Plain(fs[source_fs.file])
  PROVE  CountInv'
<1> DEFINE f == source_fs.file
           p == source_fs.pos
<1>1. PICK d \in 0 .. Len(header_stack) :
         \/ FetchNothing(d)    \/ FetchEmpty(d)        \/ FetchOmitted(d)
         \/ FetchText(d)       \/ FetchDefine(d)       \/ FetchInclude(d)
         \/ FetchBadInclude(d) \/ FetchEmptyInclude(d) \/ FetchIfdef(d)
         \/ FetchIfndef(d)     \/ FetchEndif(d)
  BY DEF Fetch
<1>2. header_stack = <<>> /\ ~in_omit_mode /\ d = 0 /\ Chosen(0) = source_fs
  BY DEF CountInv, Chosen, FromHeader
<1>3. /\ fs \in FileSystems /\ f \in DOMAIN fs /\ p \in Nat /\ p <= Len(fs[f])
      /\ source_fs \in Stream /\ Len(fs[f]) \in Nat /\ DOMAIN fs[f] = 1 .. Len(fs[f])
  BY FileFacts DEF TInv, StreamOK, Stream
<1>4. /\ UNCHANGED <<fs, input_source, current_source>>
      /\ source_fs'.file = f /\ source_fs'.state = "open"
  BY SourceStays
<1>5. out' = out
  BY <1>1 DEF FetchNothing, FetchEmpty, FetchOmitted, FetchText, FetchDefine,
       FetchInclude, FetchBadInclude, FetchEmptyInclude, FetchIfdef,
       FetchIfndef, FetchEndif, clientVars
<1>6. \A n : Loud(n)' = Loud(n) /\ Ends(n)' = Ends(n)
  BY <1>4, <1>5 DEF Loud, Ends, IsNewline
<1>7. ~(read_cursor < write_cursor)
  <2>1. Kept(d)
    BY <1>1 DEF FetchNothing, FetchEmpty, FetchOmitted, FetchText, FetchDefine,
       FetchInclude, FetchBadInclude, FetchEmptyInclude, FetchIfdef,
       FetchIfndef, FetchEndif, Reads, ReadLine
  <2> QED BY <2>1 DEF Kept, TInv, TypeOK
<1>8. /\ \A i \in 1 .. Len(out) :
           /\ out[i].file = f /\ out[i].no \in 1 .. p
           /\ Cardinality(Ends(i - 1)) = Cardinality(Loud(out[i].no - 1))
      /\ Cardinality(Ends(Len(out))) = Cardinality(Loud(p))
  BY <1>7 DEF CountInv
<1>9. CASE FetchNothing(0) \/ FetchEmpty(0)
  <2>1. source_fs'.pos = p
    <3>1. CASE FetchEmpty(0)
      <4>1. source_fs' = AfterGetline(source_fs) /\ ~HasLine(source_fs)
        BY <1>2, <3>1 DEF FetchEmpty, ReadLine, FromHeader
      <4> QED BY <1>3, <4>1, PositionStays
    <3> QED BY <1>9, <3>1 DEF FetchNothing
  <2>2. /\ header_stack' = <<>> /\ in_omit_mode' = in_omit_mode
        /\ ~(read_cursor' < write_cursor')
    <3>1. SubSeq(<<>>, 1, 0) = <<>> /\ Counted(0) = <<>>
      BY DEF Counted
    <3> QED BY <1>2, <1>9, <3>1 DEF FetchNothing, FetchEmpty
  <2> QED BY <1>2, <1>4, <1>5, <1>6, <1>8, <2>1, <2>2 DEF CountInv
<1>10. CASE FetchText(0) \/ FetchDefine(0)
  <2>1. /\ HasLine(source_fs) /\ ~Eof(source_fs) /\ source_fs' = AfterGetline(source_fs)
        /\ buf' = [file |-> f, no |-> p + 1]
    BY <1>2, <1>10 DEF FetchText, FetchDefine, Reads, ReadLine, FromHeader
  <2>2. source_fs'.pos = p + 1 /\ p + 1 \in 1 .. Len(fs[f])
    BY <1>3, <2>1, GetlineLemma DEF TInv
  <2>3. header_stack' = <<>> /\ ~in_omit_mode'
    <3>1. Counted(0) = <<>>
      BY DEF Counted
    <3> QED BY <1>2, <1>10, <3>1 DEF FetchText, FetchDefine
  <2>4. \A i \in 1 .. Len(out) : out[i].no \in 1 .. p + 1
    BY <1>3, <1>8
  <2>5. CASE FetchText(0)
    <3>1. /\ fs[f][p + 1].kind = "text" /\ read_cursor' = 0
          /\ write_cursor' = Width(fs[f][p + 1].len, fs[f][p + 1].nl)
      BY <1>2, <2>5 DEF FetchText, Reads, ThisLine, ThisWidth
    <3>2. read_cursor' < write_cursor'
      BY <1>3, <2>2, <3>1, LineHasWidth
    <3>3. BufferedLine'
      BY <1>3, <1>4, <2>1, <2>2, <3>1 DEF BufferedLine
    <3>4. (p + 1) - 1 = p
      BY <1>3
    <3> QED
      BY <1>4, <1>5, <1>6, <1>8, <2>2, <2>3, <2>4, <3>2, <3>3, <3>4 DEF CountInv
  <2>6. CASE FetchDefine(0)
    <3>1. fs[f][p + 1].kind = "define" /\ ~(read_cursor' < write_cursor')
      <4>1. write_cursor' \in Nat
        BY <1>2, <2>1, <2>6, ReadLineLemma DEF FetchDefine, Reads
      <4> QED BY <1>2, <2>6, <4>1 DEF FetchDefine, Reads, ThisLine, Consume
    <3>2. Loud(p + 1) = Loud(p)
      BY <1>3, <3>1, LoudNext DEF Silent
    <3> QED
      BY <1>4, <1>5, <1>6, <1>8, <2>2, <2>3, <2>4, <3>1, <3>2 DEF CountInv
  <2> QED BY <1>10, <2>5, <2>6
<1>11. CASE ~(FetchNothing(0) \/ FetchEmpty(0)) /\ ~(FetchText(0) \/ FetchDefine(0))
  <2>1. \/ FetchOmitted(0) \/ FetchInclude(0) \/ FetchBadInclude(0)
        \/ FetchEmptyInclude(0) \/ FetchIfdef(0) \/ FetchIfndef(0) \/ FetchEndif(0)
    BY <1>1, <1>2, <1>11
  <2>2. ~FetchOmitted(0)
    BY <1>2 DEF FetchOmitted
  <2>3. ReadLine(0) /\ HasLine(source_fs) /\ fs[f][p + 1].kind \notin {"text", "define"}
    BY <1>2, <2>1, <2>2
       DEF FetchInclude, FetchBadInclude, FetchEmptyInclude, FetchIfdef,
           FetchIfndef, FetchEndif, Reads, ThisLine
  <2>4. p + 1 \in DOMAIN fs[f]
    BY <1>2, <1>3, <2>3, GetlineLemma DEF ReadLine, TInv
  <2> QED BY <2>3, <2>4 DEF Plain
<1> QED BY <1>1, <1>2, <1>9, <1>10, <1>11

(* get() returns a character: the '\n' is the last one of its line. *)
LEMMA CountReturn ==
  ASSUME TInv, CountInv, ReturnChar, source_fs.state = "open", Plain(fs[source_fs.file])
  PROVE  CountInv'
<1> DEFINE f == source_fs.file
           p == source_fs.pos
           l == fs[f][p]
<1>0. PICK n \in Nat : n = Len(out)
  <2>1. \E S : out \in Seq(S)
    BY Zenon DEF TInv, TypeOK
  <2> QED BY ONLY <2>1
<1>1. /\ UNCHANGED <<fs, source_fs, header_stack, in_omit_mode, write_cursor, buf>>
      /\ read_cursor < write_cursor /\ read_cursor' = read_cursor + 1
      /\ out' = Append(out, last')
      /\ last' = [file |-> buf.file, no |-> buf.no, col |-> read_cursor + 1]
  BY DEF ReturnChar, sourceVars, stateVars
<1>2. /\ header_stack = <<>> /\ ~in_omit_mode
      /\ \A i \in 1 .. n :
           /\ out[i].file = f /\ out[i].no \in 1 .. p
           /\ Cardinality(Ends(i - 1)) = Cardinality(Loud(out[i].no - 1))
      /\ BufferedLine /\ Cardinality(Ends(n)) = Cardinality(Loud(p - 1))
  BY <1>0, <1>1 DEF CountInv
<1>3. /\ fs \in FileSystems /\ f \in DOMAIN fs /\ p \in 1 .. Len(fs[f])
      /\ p - 1 \in Nat /\ (p - 1) + 1 = p /\ Len(fs[f]) \in Nat
      /\ read_cursor \in Nat /\ write_cursor \in Nat /\ n \in Nat /\ out \in Seq(Chars)
  BY <1>2, FileFacts, SMTT(30) DEF TInv, TypeOK, StreamOK, Stream, BufferedLine, Chars
<1>4. /\ Len(out') = n + 1 /\ out'[n + 1] = last'
      /\ \A i \in 1 .. n : out'[i] = out[i]
  BY <1>0, <1>1, <1>3
<1>5. last'.file = f /\ last'.no = p /\ last'.col = read_cursor + 1
  BY <1>1, <1>2 DEF BufferedLine
<1>6. /\ \A k : Loud(k)' = Loud(k)
      /\ \A k \in 0 .. n : Ends(k)' = Ends(k)
  <2>1. \A k : Loud(k)' = Loud(k)
    BY <1>1, SMTT(30) DEF Loud
  <2>2. ASSUME NEW k \in 0 .. n PROVE Ends(k)' = Ends(k)
    <3>1. \A i \in 1 .. k : i \in 1 .. n
      BY <1>3
    <3> QED BY <1>1, <1>4, <3>1 DEF Ends, IsNewline
  <2> QED BY <2>1, <2>2
<1>7. l.kind = "text" /\ write_cursor = Width(l.len, l.nl) /\ l.len \in Nat
      /\ (Completed(l.len, l.nl) => write_cursor = l.len + 1)
  <2>1. l.len \in Nat
    BY <1>3, FileFacts DEF Line
  <2> QED BY <1>2, <1>3, <2>1, LineHasWidth DEF BufferedLine
<1>8. ASSUME NEW i \in 1 .. n + 1
      PROVE  /\ out'[i].file = f /\ out'[i].no \in 1 .. p
             /\ Cardinality(Ends(i - 1))' = Cardinality(Loud(out[i].no - 1))'
  <2>1. i - 1 \in 0 .. n /\ (i # n + 1 => i \in 1 .. n) /\ p \in 1 .. p
    BY <1>3
  <2>2. Loud(out[i].no - 1)' = Loud(out'[i].no - 1)
    BY <1>1 DEF Loud
  <2>3. Ends(i - 1)' = Ends(i - 1)
    BY <1>6, <2>1
  <2>4. CASE i = n + 1
    <3>1. i - 1 = n
      BY <1>3, <2>4
    <3>2. out'[i] = last'
      BY <1>4, <2>4
    <3> QED BY <1>2, <1>5, <2>1, <2>2, <2>3, <3>1, <3>2
  <2>5. CASE i # n + 1
    <3>1. i \in 1 .. n /\ out'[i] = out[i]
      BY <1>4, <2>1, <2>5
    <3> QED BY <1>2, <2>2, <2>3, <3>1
  <2> QED BY <2>4, <2>5
<1>9. IsNewline(last') <=> Completed(l.len, l.nl) /\ read_cursor + 1 = l.len + 1
  BY <1>5 DEF IsNewline
<1>10. /\ IsNewline(last') => Ends(n + 1)' = Ends(n) \cup {n + 1}
       /\ ~IsNewline(last') => Ends(n + 1)' = Ends(n)
  <2>1. 1 .. n + 1 = (1 .. n) \cup {n + 1} /\ n \in 0 .. n
    BY <1>3
  <2>2. Ends(n + 1)' = {i \in 1 .. n + 1 : IsNewline(out'[i])}
    BY <1>1 DEF Ends, IsNewline
  <2>3. Ends(n) = {i \in 1 .. n : IsNewline(out'[i])}
    BY <1>4 DEF Ends
  <2>4. out'[n + 1] = last'
    BY <1>4
  <2> QED BY <2>1, <2>2, <2>3, <2>4
<1>11. /\ IsNewline(last') => Cardinality(Ends(n + 1)') = Cardinality(Loud(p - 1)) + 1
       /\ ~IsNewline(last') => Cardinality(Ends(n + 1)') = Cardinality(Loud(p - 1))
  <2>1. Ends(n) \in SUBSET (1 .. n)
    BY DEF Ends
  <2> QED BY <1>2, <1>3, <1>10, <2>1, CountNext
<1>12. Cardinality(Ends(Len(out)))' = Cardinality(Ends(n + 1)')
  BY <1>4 DEF Ends
<1>13. \A k : Loud(k)' = Loud(k)
  BY <1>6
<1>14. CASE read_cursor + 1 < write_cursor
  <2>1. ~IsNewline(last')
    BY <1>3, <1>7, <1>9, <1>14
  <2>2. BufferedLine'
    BY <1>1, <1>2 DEF BufferedLine
  <2>3. Cardinality(Ends(Len(out)))' = Cardinality(Loud(source_fs.pos - 1))'
    BY <1>1, <1>11, <1>12, <1>13, <2>1
  <2> QED BY <1>1, <1>2, <1>4, <1>8, <1>14, <2>2, <2>3 DEF CountInv
<1>15. CASE ~(read_cursor + 1 < write_cursor)
  <2>1. read_cursor + 1 = write_cursor
    BY <1>1, <1>3, <1>15
  <2>2. IsNewline(last') <=> ~Silent(l)
    BY <1>3, <1>7, <1>9, <2>1 DEF Silent
  <2>3. Cardinality(Ends(n + 1)') = Cardinality(Loud(p))
    <3>1. /\ Silent(fs[f][(p - 1) + 1]) => Loud((p - 1) + 1) = Loud(p - 1)
          /\ ~Silent(fs[f][(p - 1) + 1]) =>
               Cardinality(Loud((p - 1) + 1)) = Cardinality(Loud(p - 1)) + 1
      <4>1. p - 1 \in Nat
        BY <1>3
      <4> QED BY <4>1, LoudNext
    <3>2. (p - 1) + 1 = p
      BY <1>3
    <3> QED BY <1>11, <2>2, <3>1, <3>2
  <2>4. Cardinality(Ends(Len(out)))' = Cardinality(Loud(source_fs.pos))'
    BY <1>1, <1>12, <1>13, <2>3
  <2> QED BY <1>1, <1>2, <1>4, <1>8, <1>15, <2>4 DEF CountInv
<1> QED BY <1>14, <1>15
(* What get()'s loop and its calls do to CountInv. *)
LEMMA CountStep ==
  ASSUME TInv, CountInv, Fetch \/ CallGet \/ ReturnChar \/ ReturnNul \/ UNCHANGED vars
  PROVE  CountInv'
<1>1. /\ UNCHANGED fs
      /\ source_fs'.file = source_fs.file /\ source_fs'.state = source_fs.state
  BY SourceStays
<1> SUFFICES ASSUME source_fs.state = "open", Plain(fs[source_fs.file]) PROVE CountInv'
  BY <1>1 DEF CountInv
<1>2. CASE CallGet \/ ReturnNul \/ UNCHANGED vars
  <2>1. UNCHANGED <<fs, source_fs, header_stack, in_omit_mode, read_cursor, write_cursor, buf, out>>
    BY <1>2 DEF CallGet, ReturnNul, vars, sourceVars, stateVars, clientVars
  <2>2. \A n : Loud(n)' = Loud(n) /\ Ends(n)' = Ends(n)
    BY <2>1 DEF Loud, Ends, IsNewline
  <2>3. BufferedLine' <=> BufferedLine
    BY <2>1 DEF BufferedLine
  <2> QED BY <2>1, <2>2, <2>3 DEF CountInv
<1> QED BY <1>2, CountFetch, CountReturn

(* The scanner's counter counts the '\n's of the tokens it has matched.    *)
LineInv ==
  /\ line \in Nat /\ matched \in 0 .. Len(text)
  /\ line = Cardinality({i \in 1 .. matched : IsNewline(text[i])})

TokenInv == SourceInv /\ CountInv /\ LineInv

LEMMA ScanInitCount == ScanInit => CountInv /\ LineInv
<1> SUFFICES ASSUME ScanInit PROVE CountInv /\ LineInv
  OBVIOUS
<1>1. {i \in 1 .. 0 : IsNewline(text[i])} = {} /\ Cardinality({}) = 0
  BY FS_EmptySet
<1> QED BY <1>1 DEF ScanInit, Init, NullStream, CountInv, LineInv

(* A source that has been opened has given nothing. *)
LEMMA CountStart ==
  ASSUME TInv, Seek
  PROVE  CountInv'
<1>1. /\ header_stack' = <<>> /\ in_omit_mode' = FALSE /\ out' = <<>>
      /\ ~(read_cursor' < write_cursor')
  BY DEF Seek, Clear, AtBoundary, TInv, TypeOK
<1>2. source_fs'.pos = 0
  BY DEF Seek, Fopen, Missing
<1>3. Loud(source_fs.pos)' = {} /\ Ends(Len(out))' = {}
  BY <1>1, <1>2 DEF Loud, Ends
<1>4. Cardinality(Ends(Len(out)))' = Cardinality(Loud(source_fs.pos))'
  BY <1>3
<1>5. 1 .. Len(out') = {}
  BY <1>1
<1> QED BY <1>1, <1>4, <1>5 DEF CountInv

(* The '\n's of a token are counted when it is matched. *)
LEMMA LineMatch ==
  ASSUME TInv, text \in Seq(Chars), LineInv, NEW n \in matched + 1 .. Len(text), Match(n)
  PROVE  LineInv'
<1> DEFINE Before == {i \in 1 .. matched : IsNewline(text[i])}
           Now == {i \in matched + 1 .. n : IsNewline(text[i])}
<1>1. /\ text' = text /\ matched' = n /\ line' = line + Cardinality(Now) /\ fs' = fs
      /\ matched \in Nat /\ n \in Nat /\ matched + 1 <= n /\ n \in 0 .. Len(text)
  BY DEF Match, Newlines, LineInv, vars, sourceVars
<1>2. {i \in 1 .. n : IsNewline(text[i])} = Before \cup Now /\ Before \cap Now = {}
  BY <1>1
<1>3. IsFiniteSet(1 .. matched) /\ IsFiniteSet(matched + 1 .. n)
  <2>1. 1 \in Int /\ matched \in Int /\ matched + 1 \in Int /\ n \in Int
    BY <1>1
  <2> QED BY <2>1, FS_Interval
<1>4. IsFiniteSet(Before) /\ IsFiniteSet(Now)
  BY <1>3, FS_Subset
<1>5. /\ Cardinality(Before) \in Nat /\ Cardinality(Now) \in Nat
      /\ Cardinality(Before \cup Now) = Cardinality(Before) + Cardinality(Now)
  <2> HIDE DEF Before, Now
  <2> QED BY <1>2, <1>4, SplitCount
<1>7. {i \in 1 .. matched : IsNewline(text[i])}' = Before \cup Now
  BY <1>1, <1>2 DEF IsNewline
<1>8. line = Cardinality(Before) /\ line \in Nat
  BY DEF LineInv
<1> HIDE DEF Before, Now
<1>9. line' = Cardinality({i \in 1 .. matched : IsNewline(text[i])})'
  BY <1>1, <1>5, <1>7, <1>8
<1>10. line' \in Nat /\ matched' \in 0 .. Len(text')
  BY <1>1, <1>5, <1>8
<1> QED BY <1>9, <1>10 DEF LineInv

(* Steps that match nothing add to the text, or leave it alone. *)
LEMMA LineOther ==
  ASSUME TInv, text \in Seq(Chars), LineInv, last \in Chars,
         UNCHANGED <<fs, matched, line>>,
         text' = text \/ text' = Append(text, last)
  PROVE  LineInv'
<1>1. /\ matched \in Nat /\ matched <= Len(text) /\ Len(text) \in Nat
      /\ matched \in 0 .. Len(text')
      /\ \A i \in 1 .. matched : text'[i] = text[i]
  <2>1. matched \in 0 .. Len(text) /\ Len(text) \in Nat
    BY DEF LineInv
  <2>2. CASE text' = Append(text, last)
    BY <2>1, <2>2
  <2> QED BY <2>1, <2>2
<1>2. {i \in 1 .. matched' : IsNewline(text[i])'} = {i \in 1 .. matched : IsNewline(text[i])}
  BY <1>1 DEF IsNewline
<1> QED BY <1>1, <1>2 DEF LineInv

LEMMA ScanStepToken ==
  ASSUME TokenInv, [ScanNext]_allVars
  PROVE  CountInv' /\ LineInv'
<1>1. /\ TInv /\ CountInv /\ LineInv /\ Begun
      /\ text \in Seq(Chars) /\ last \in Chars
  BY PendingLemma DEF TokenInv, SourceInv, ScanInv
<1>2. CASE Start /\ Seek
  <2>1. UNCHANGED <<fs, matched, line, text>>
    BY <1>2 DEF Start, Seek, sourceVars
  <2> QED BY <1>1, <1>2, <2>1, CountStart, LineOther
<1>3. CASE ~(Start /\ Seek)
  <2>1. Fetch \/ CallGet \/ ReturnChar \/ ReturnNul \/ UNCHANGED vars
    BY <1>3 DEF ScanNext, Start, Input, CallPp, RunPp, Store, Full, Match, EndOfFile, allVars
  <2>2. CountInv' /\ fs' = fs
    BY <1>1, <2>1, CountStep, SourceStays
  <2>3. CASE \E n \in matched + 1 .. Len(text) : Match(n)
    BY <1>1, <2>2, <2>3, LineMatch
  <2>4. CASE ~\E n \in matched + 1 .. Len(text) : Match(n)
    <3>1. /\ matched' = matched /\ line' = line
          /\ text' = text \/ text' = Append(text, last)
      BY <2>4 DEF ScanNext, Start, Input, CallPp, RunPp, Store, Full, EndOfFile,
           allVars, scannerVars
    <3> QED BY <1>1, <2>2, <3>1, LineOther
  <2> QED BY <2>2, <2>3, <2>4
<1> QED BY <1>2, <1>3

LEMMA TokenInvLine == TokenInv => TokenLine
<1> SUFFICES ASSUME TokenInv, matched < Len(text),
                    NEW c, c = text[matched + 1],
                    \A i \in DOMAIN fs[c.file] : fs[c.file][i].kind \in {"text", "define"},
                    c.file = input_source[1]
             PROVE  line + 1 + Cardinality({i \in 1 .. c.no - 1 : Silent(fs[c.file][i])}) = c.no
  BY DEF TokenLine
<1>1. /\ matched \in Nat /\ Len(text) \in Nat /\ line \in Nat
      /\ text \in Seq(Chars) /\ out \in Seq(Chars)
      /\ line = Cardinality({i \in 1 .. matched : IsNewline(text[i])})
  BY PendingLemma DEF TokenInv, LineInv, SourceInv, ScanInv
<1>2. Len(out) \in Nat /\ Len(text) <= Len(out) /\ \A i \in 1 .. Len(text) : out[i] = text[i]
  <2>1. text = out \/ (Append(text, last) = out /\ last \in Chars)
    <3>1. text \o Pending = out /\ last \in Chars
      BY PendingLemma DEF TokenInv, SourceInv, ScanInv, NothingLost
    <3>2. Pending = <<>> \/ Pending = <<last>>
      BY DEF Pending
    <3>3. Pending = <<>> => text = out
      BY <1>1, <3>1
    <3>4. Pending = <<last>> => Append(text, last) = out
      BY <1>1, <3>1
    <3> QED BY <3>1, <3>2, <3>3, <3>4
  <2> QED BY <1>1, <2>1
<1>3. out[matched + 1] = c /\ matched + 1 \in 1 .. Len(out)
  BY <1>1, <1>2
<1>4. source_fs.state = "open" /\ source_fs.file = c.file /\ Plain(fs[source_fs.file])
  <2>1. source_fs.state = "open"
    BY <1>1, <1>2 DEF TokenInv, SourceInv, Begun, NoText
  <2>2. source_fs.file = input_source[1]
    BY <2>1 DEF TokenInv, SourceInv, Begun
  <2> QED BY <2>1, <2>2 DEF Plain
<1>5. /\ c.no \in 1 .. source_fs.pos /\ source_fs.pos \in Nat
      /\ Cardinality(Ends((matched + 1) - 1)) = Cardinality(Loud(c.no - 1))
  <2>1. source_fs \in Stream
    BY DEF TokenInv, SourceInv, ScanInv, TInv, StreamOK
  <2> QED BY <1>3, <1>4, <2>1 DEF TokenInv, CountInv, Stream
<1>6. line = Cardinality(Loud(c.no - 1))
  <2>1. (matched + 1) - 1 = matched
    BY <1>1
  <2>2. Ends(matched) = {i \in 1 .. matched : IsNewline(text[i])}
    BY <1>1, <1>2 DEF Ends
  <2> QED BY <1>1, <1>5, <2>1, <2>2
<1>7. Cardinality(Loud(c.no - 1)) + Cardinality({i \in 1 .. c.no - 1 : Silent(fs[c.file][i])}) = c.no - 1
  <2> DEFINE m == c.no - 1
             Quiet == {i \in 1 .. m : Silent(fs[c.file][i])}
  <2>1. m \in Nat /\ m \in Int /\ 1 \in Int
    BY <1>5
  <2>2. IsFiniteSet(1 .. m) /\ Cardinality(1 .. m) = m
    <3>1. IsFiniteSet(1 .. m) /\ Cardinality(1 .. m) = IF 1 > m THEN 0 ELSE m - 1 + 1
      BY <2>1, FS_Interval
    <3> QED BY <2>1, <3>1
  <2>3. Loud(m) = {i \in 1 .. m : ~Silent(fs[c.file][i])}
    BY <1>4 DEF Loud
  <2>4. Loud(m) \cup Quiet = 1 .. m /\ Loud(m) \cap Quiet = {}
    BY <2>3
  <2>5. IsFiniteSet(Loud(m)) /\ IsFiniteSet(Quiet)
    BY <2>2, <2>4, FS_Subset
  <2>6. Cardinality(Loud(m) \cup Quiet) = Cardinality(Loud(m)) + Cardinality(Quiet)
    <3> HIDE DEF m, Quiet
    <3> QED BY <2>4, <2>5, SplitCount
  <2> QED BY <2>2, <2>4, <2>6
<1>8. c.no \in Nat /\ Cardinality(Loud(c.no - 1)) \in Nat
  BY <1>1, <1>5, <1>6
<1>9. Cardinality({i \in 1 .. c.no - 1 : Silent(fs[c.file][i])}) = c.no - 1 - line
  <2>1. IsFiniteSet(1 .. c.no - 1)
    <3>1. 1 \in Int /\ c.no - 1 \in Int
      BY <1>8
    <3> QED BY <3>1, FS_Interval
  <2>2. Cardinality({i \in 1 .. c.no - 1 : Silent(fs[c.file][i])}) \in Nat
    BY <2>1, FS_Subset, FS_CardinalityType
  <2> QED BY <1>6, <1>7, <1>8, <2>2
<1>10. line + 1 + (c.no - 1 - line) = c.no
  BY <1>1, <1>8, SMTT(30)
<1> QED BY <1>9, <1>10

(* The scanner's line number is the token's line, less one and less the    *)
(* lines before it that give the scanner no '\n', for every plain source   *)
(* and however its text is cut into blocks and tokens.                     *)
THEOREM TokenLinesCounted == ScanSpec => []TokenLine
<1>1. ScanInit => CountInv /\ LineInv
  BY ScanInitCount
<1>2. SourceInv /\ SourceInv' /\ (CountInv /\ LineInv) /\ [ScanNext]_allVars
        => (CountInv /\ LineInv)'
  BY ScanStepToken DEF TokenInv
<1>3. SourceInv /\ CountInv /\ LineInv => TokenLine
  BY TokenInvLine DEF TokenInv
<1> QED BY <1>1, <1>2, <1>3, ScanSpecSource, PTL DEF ScanSpec
=============================================================================
