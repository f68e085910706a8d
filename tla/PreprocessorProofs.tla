------------------------- MODULE PreprocessorProofs -------------------------
(***************************************************************************)
(* Proofs about Preprocessor for every set of files, every contents of the *)
(* disk, every list of sources and any nesting of headers.                 *)
(***************************************************************************)
EXTENDS Preprocessor, ExpansionProofs, FiniteSetTheorems, TLAPS

(* A stream that could be opened reads a file on disk; one that could not  *)
(* has failbit set and keeps it.                                           *)
StreamOK(disk, is) ==
  /\ is \in Stream
  /\ is.state = "open" => is.file \in DOMAIN disk /\ is.pos <= Len(disk[is.file])
  /\ is.state = "missing" => is.bits = {"fail"}

TInv ==
  /\ TypeOK
  /\ fs \in FileSystems
  /\ StreamOK(fs, source_fs)
  /\ \A i \in 1 .. Len(header_stack) : StreamOK(fs, header_stack[i].is)

LEMMA FileFacts ==
  ASSUME fs \in FileSystems, NEW f \in DOMAIN fs
  PROVE  /\ f \in Files /\ fs[f] \in Seq(Line)
         /\ Len(fs[f]) \in Nat /\ Len(fs[f]) + 1 < LineModulus
         /\ \A i \in 1 .. Len(fs[f]) :
              /\ fs[f][i] \in Line
              /\ fs[f][i].kind = "include" => fs[f][i].arg \in Files
  BY FileSystemsAssumption DEF WellFormed

LEMMA FopenLemma ==
  ASSUME fs \in FileSystems, NEW f \in Files \cup {"unknown_file"}, NEW n
  PROVE  /\ StreamOK(fs, Fopen(f, n))
         /\ Fopen(f, n).file = f /\ Fopen(f, n).pos = 0
         /\ "bad" \notin Fopen(f, n).bits
<1>1. CASE f \in DOMAIN fs /\ n < MaxOpen
  <2> DEFINE r == [file |-> f, pos |-> 0, bits |-> {}, state |-> "open"]
  <2>1. Fopen(f, n) = r
    BY <1>1 DEF Fopen
  <2>2. Len(fs[f]) \in Nat
    BY <1>1, FileFacts
  <2>3. r \in Stream
    BY DEF Stream
  <2>4. StreamOK(fs, r)
    BY <1>1, <2>2, <2>3 DEF StreamOK
  <2> QED BY <2>1, <2>4
<1>2. CASE ~(f \in DOMAIN fs /\ n < MaxOpen)
  <2>1. Fopen(f, n) = Missing(f)
    BY <1>2 DEF Fopen
  <2>2. Missing(f) \in Stream
    BY DEF Missing, Stream
  <2>3. StreamOK(fs, Missing(f))
    BY <2>2 DEF StreamOK, Missing
  <2> QED BY <2>1, <2>3 DEF Missing
<1> QED BY <1>1, <1>2

(* Reading a stream that has not ended. *)
LEMMA GetlineLemma ==
  ASSUME fs \in FileSystems, NEW is, StreamOK(fs, is), ~Eof(is)
  PROVE  /\ is.state = "open" /\ is.file \in DOMAIN fs
         /\ StreamOK(fs, AfterGetline(is))
         /\ AfterGetline(is).file = is.file
         /\ AfterGetline(is).state = is.state
         /\ HasLine(is) => /\ AfterGetline(is).pos = is.pos + 1
                           /\ is.pos + 1 \in 1 .. Len(fs[is.file])
                           /\ fs[is.file][is.pos + 1] \in Line
<1>1. is.state = "open" /\ is.file \in DOMAIN fs /\ is \in Stream
      /\ is.pos \in Nat /\ is.pos <= Len(fs[is.file])
  BY DEF StreamOK, Eof, Fail, Stream
<1>2. /\ is.file \in Files /\ Len(fs[is.file]) \in Nat
      /\ \A i \in 1 .. Len(fs[is.file]) : fs[is.file][i] \in Line
  BY <1>1, FileFacts
<1> DEFINE r == AfterGetline(is)
<1>3. CASE ~GoodStream(is)
  <2>1. r = [is EXCEPT !.bits = @ \cup {"fail"}]
    BY <1>3 DEF AfterGetline
  <2>2. r \in Stream /\ r.file = is.file /\ r.pos = is.pos /\ r.state = is.state
    BY <1>1, <2>1 DEF Stream
  <2> QED BY <1>1, <1>3, <2>2 DEF StreamOK, HasLine
<1>4. CASE GoodStream(is) /\ is.pos = Len(fs[is.file])
  <2>1. r = [is EXCEPT !.bits = {"eof", "fail"}]
    BY <1>4 DEF AfterGetline
  <2>2. r \in Stream /\ r.file = is.file /\ r.pos = is.pos /\ r.state = is.state
    BY <1>1, <2>1 DEF Stream
  <2>3. ~HasLine(is)
    BY <1>1, <1>2, <1>4 DEF HasLine
  <2> QED BY <1>1, <2>2, <2>3 DEF StreamOK
<1>5. CASE GoodStream(is) /\ is.pos # Len(fs[is.file]) /\ ~HasLine(is)
  <2>1. r = [is EXCEPT !.bits = {"bad"}]
    BY <1>5 DEF AfterGetline
  <2>2. r \in Stream /\ r.file = is.file /\ r.pos = is.pos /\ r.state = is.state
    BY <1>1, <2>1 DEF Stream
  <2> QED BY <1>1, <1>5, <2>2 DEF StreamOK
<1>6. CASE GoodStream(is) /\ is.pos # Len(fs[is.file]) /\ HasLine(is)
  <2> DEFINE b == IF fs[is.file][is.pos + 1].nl THEN {} ELSE {"eof"}
  <2>1. r = [is EXCEPT !.pos = @ + 1, !.bits = b]
    BY <1>6 DEF AfterGetline
  <2>2. b \in SUBSET {"eof", "fail", "bad"}
    OBVIOUS
  <2> HIDE DEF b
  <2>3. /\ r \in Stream /\ r.file = is.file /\ r.pos = is.pos + 1
        /\ r.state = is.state
    <3>1. is \in Stream /\ is.pos + 1 \in Nat
      BY <1>1
    <3> HIDE DEF r
    <3> QED BY <2>1, <2>2, <3>1 DEF Stream
  <2>4. is.pos + 1 \in 1 .. Len(fs[is.file])
    BY <1>1, <1>2, <1>6
  <2> QED BY <1>1, <1>2, <2>3, <2>4 DEF StreamOK
<1> QED BY <1>3, <1>4, <1>5, <1>6

LEMMA IncrementLemma ==
  ASSUME NEW n \in Nat
  PROVE  Increment(n) \in Nat /\ (n + 1 < LineModulus => Increment(n) = n + 1)
  BY LineModulusAssumption DEF Increment

LEMMA WidthLemma ==
  ASSUME NEW l \in Line
  PROVE  Width(l.len, l.nl) \in Nat
<1>1. l.len \in Nat /\ l.nl \in BOOLEAN
  BY DEF Line
<1>2. \A len \in Nat, nl \in BOOLEAN : Width(len, nl) \in Nat
  BY DEF Width, Completed, Extracted
<1> QED BY <1>1, <1>2

(* The stack ReadLine leaves when it reads a line. *)
LEMMA CountedLemma ==
  ASSUME TInv, NEW d \in 0 .. Len(header_stack), ReadLine(d)
  PROVE  /\ Counted(d) \in Seq(Header) /\ Len(Counted(d)) = d
         /\ \A i \in 1 .. d : StreamOK(fs, Counted(d)[i].is)
         /\ \A i \in 1 .. d : Counted(d)[i].name = header_stack[i].name
         /\ \A i \in 1 .. d : i < d => Counted(d)[i] = header_stack[i]
         /\ d > 0 => /\ Counted(d)[d].line = Increment(header_stack[d].line)
                     /\ Counted(d)[d].is =
                          IF FromHeader(d) THEN AfterGetline(header_stack[d].is)
                          ELSE header_stack[d].is
<1>1. /\ fs \in FileSystems /\ header_stack \in Seq(Header)
      /\ Len(header_stack) \in Nat /\ d \in Nat
      /\ \A i \in 1 .. d : header_stack[i] \in Header
                           /\ StreamOK(fs, header_stack[i].is)
  <2>1. fs \in FileSystems /\ header_stack \in Seq(Header)
        /\ \A i \in 1 .. Len(header_stack) : StreamOK(fs, header_stack[i].is)
    BY DEF TInv, TypeOK
  <2> QED BY <2>1
<1>2. ASSUME NEW i \in 1 .. d
      PROVE  /\ Counted(d)[i] \in Header /\ StreamOK(fs, Counted(d)[i].is)
             /\ Counted(d)[i].name = header_stack[i].name
             /\ i < d => Counted(d)[i] = header_stack[i]
             /\ i = d => /\ Counted(d)[i].line = Increment(header_stack[i].line)
                         /\ Counted(d)[i].is =
                              IF FromHeader(d) THEN AfterGetline(header_stack[i].is)
                              ELSE header_stack[i].is
  <2>1. CASE i < d
    BY <1>1, <2>1 DEF Counted
  <2>2. CASE i = d
    <3>1. Counted(d)[i] =
            [header_stack[i] EXCEPT !.line = Increment(@),
               !.is = IF FromHeader(d) THEN AfterGetline(@) ELSE @]
      BY <2>2 DEF Counted
    <3>2. header_stack[i] \in Header /\ StreamOK(fs, header_stack[i].is)
      BY <1>1
    <3>3. FromHeader(d) => StreamOK(fs, AfterGetline(header_stack[i].is))
      BY <1>1, <2>2, <3>2, GetlineLemma DEF ReadLine, Chosen
    <3>4. Increment(header_stack[i].line) \in Nat
      BY <3>2, IncrementLemma DEF Header
    <3>5. FromHeader(d) => AfterGetline(header_stack[i].is) \in Stream
      BY <3>3 DEF StreamOK
    <3> DEFINE new == IF FromHeader(d) THEN AfterGetline(header_stack[i].is)
                      ELSE header_stack[i].is
    <3>6. new \in Stream /\ StreamOK(fs, new)
      BY <3>2, <3>3, <3>5 DEF Header
    <3>7. Counted(d)[i] =
            [header_stack[i] EXCEPT !.line = Increment(@), !.is = new]
      BY <3>1
    <3> HIDE DEF new
    <3>8. /\ Counted(d)[i] \in Header /\ Counted(d)[i].is = new
          /\ Counted(d)[i].name = header_stack[i].name
          /\ Counted(d)[i].line = Increment(header_stack[i].line)
      BY <3>2, <3>4, <3>6, <3>7 DEF Header
    <3> QED BY <2>2, <3>6, <3>8 DEF new
  <2> QED BY <1>1, <2>1, <2>2
<1>3. Counted(d) \in Seq(Header) /\ Len(Counted(d)) = d
  <2>1. Counted(d) \in [1 .. d -> Header]
    BY <1>2 DEF Counted
  <2> QED BY <1>1, <2>1
<1> QED BY <1>1, <1>2, <1>3

(* The rest of what ReadLine does. *)
LEMMA ReadLineLemma ==
  ASSUME TInv, NEW d \in 0 .. Len(header_stack), ReadLine(d)
  PROVE  /\ StreamOK(fs, Chosen(d)) /\ Chosen(d).state = "open"
         /\ StreamOK(fs, source_fs') /\ source_line' \in Nat
         /\ source_fs'.file = source_fs.file
         /\ buf' \in [file : Files \cup {"unknown_file"}, no : Nat]
         /\ HasLine(Chosen(d)) => /\ ThisLine(d) \in Line /\ ThisWidth(d) \in Nat
                                  /\ ThisLine(d).kind = "include" =>
                                       ThisLine(d).arg \in Files
<1>1. fs \in FileSystems /\ StreamOK(fs, source_fs) /\ source_line \in Nat
  BY DEF TInv, TypeOK
<1>2. StreamOK(fs, Chosen(d))
  <2>1. header_stack \in Seq(Header)
        /\ \A i \in 1 .. Len(header_stack) : StreamOK(fs, header_stack[i].is)
    BY DEF TInv, TypeOK
  <2>2. d > 0 => d \in 1 .. Len(header_stack)
    BY <2>1
  <2> QED BY <1>1, <2>1, <2>2 DEF Chosen, FromHeader
<1>3. ~Eof(Chosen(d))
  BY DEF ReadLine
<1>4. /\ Chosen(d).state = "open" /\ Chosen(d).file \in DOMAIN fs
      /\ StreamOK(fs, AfterGetline(Chosen(d)))
      /\ AfterGetline(Chosen(d)).file = Chosen(d).file
      /\ HasLine(Chosen(d)) =>
           /\ Chosen(d).pos + 1 \in 1 .. Len(fs[Chosen(d).file])
           /\ fs[Chosen(d).file][Chosen(d).pos + 1] \in Line
  BY <1>1, <1>2, <1>3, GetlineLemma
<1>5. StreamOK(fs, source_fs') /\ source_fs'.file = source_fs.file
  BY <1>1, <1>4 DEF ReadLine, Chosen
<1>6. source_line' \in Nat
  BY <1>1, IncrementLemma DEF ReadLine
<1>7. buf' \in [file : Files \cup {"unknown_file"}, no : Nat]
  <2>1. Chosen(d).file \in Files /\ Chosen(d).pos + 1 \in Nat
    BY <1>1, <1>2, <1>4, FileFacts DEF StreamOK, Stream
  <2> QED BY <2>1 DEF ReadLine, NoLine
<1>8. HasLine(Chosen(d)) => /\ ThisLine(d) \in Line /\ ThisWidth(d) \in Nat
                            /\ ThisLine(d).kind = "include" =>
                                 ThisLine(d).arg \in Files
  BY <1>1, <1>4, FileFacts, WidthLemma DEF ThisLine, ThisWidth
<1> QED BY <1>2, <1>4, <1>5, <1>6, <1>7, <1>8

(* Every step of get()'s loop that reads a line keeps the types when what  *)
(* ProcessLine does with the line does.                                    *)
LEMMA FetchTInv ==
  ASSUME TInv, NEW d \in 0 .. Len(header_stack), ReadLine(d),
         UNCHANGED sourceVars,
         \/ header_stack' = Counted(d)
         \/ \E h \in Files : \E n :
              header_stack' = Append(Counted(d),
                                     [name |-> h, line |-> 0, is |-> Fopen(h, n)]),
         macro_table' \subseteq Files \cup Macros \cup {"none"},
         in_omit_mode' \in BOOLEAN, UNCHANGED eof,
         status' \in {"OK", "Corruption", "IOError"},
         write_cursor' \in Nat, read_cursor' \in 0 .. write_cursor',
         pc' \in {"idle", "get", "crashed"}, UNCHANGED <<last, out>>
  PROVE  TInv'
<1>1. /\ StreamOK(fs, source_fs') /\ source_line' \in Nat
      /\ buf' \in [file : Files \cup {"unknown_file"}, no : Nat]
  BY ReadLineLemma
<1>2. /\ Counted(d) \in Seq(Header) /\ Len(Counted(d)) = d
      /\ \A i \in 1 .. d : StreamOK(fs, Counted(d)[i].is)
  BY CountedLemma
<1>3. fs' = fs /\ fs \in FileSystems
  BY DEF TInv, sourceVars
<1>4. /\ header_stack' \in Seq(Header)
      /\ \A i \in 1 .. Len(header_stack') : StreamOK(fs, header_stack'[i].is)
  <2>1. CASE header_stack' = Counted(d)
    BY <1>2, <2>1
  <2>2. ASSUME NEW h \in Files, NEW n,
               header_stack' = Append(Counted(d),
                                 [name |-> h, line |-> 0, is |-> Fopen(h, n)])
        PROVE  /\ header_stack' \in Seq(Header)
               /\ \A i \in 1 .. Len(header_stack') :
                    StreamOK(fs, header_stack'[i].is)
    <3> DEFINE e == [name |-> h, line |-> 0, is |-> Fopen(h, n)]
    <3>1. StreamOK(fs, Fopen(h, n))
      BY <1>3, FopenLemma
    <3>2. Fopen(h, n) \in Stream
      BY <3>1 DEF StreamOK
    <3>3. e \in Header /\ e.is = Fopen(h, n)
      BY <3>2 DEF Header
    <3>4. header_stack' = Append(Counted(d), e)
      BY <2>2
    <3> HIDE DEF e
    <3>5. /\ header_stack' \in Seq(Header) /\ Len(header_stack') = d + 1
          /\ header_stack'[d + 1] = e
          /\ \A i \in 1 .. d : header_stack'[i] = Counted(d)[i]
      BY <1>2, <3>3, <3>4
    <3>6. ASSUME NEW i \in 1 .. Len(header_stack')
          PROVE  StreamOK(fs, header_stack'[i].is)
      BY <1>2, <3>1, <3>3, <3>5
    <3> QED BY <3>5, <3>6
  <2> QED BY <2>1, <2>2
<1>5. TypeOK'
  <2>1. /\ input_source \in Seq(Files) /\ current_source \in Nat
        /\ eof \in BOOLEAN
        /\ last \in [file : Files \cup {"unknown_file"}, no : Nat, col : Nat]
        /\ out \in Seq([file : Files \cup {"unknown_file"}, no : Nat, col : Nat])
    BY DEF TInv, TypeOK
  <2>2. source_fs' \in Stream
    BY <1>1 DEF StreamOK
  <2> QED BY <1>1, <1>4, <2>1, <2>2 DEF TypeOK, sourceVars
<1> QED BY <1>1, <1>3, <1>4, <1>5 DEF TInv

LEMMA InitTInv == Init => TInv
<1> SUFFICES ASSUME Init PROVE TInv
  OBVIOUS
<1>1. StreamOK(fs, NullStream)
  BY DEF StreamOK, NullStream, Stream
<1>2. TypeOK
  <2>1. input_source \in Seq(Files) /\ current_source \in Nat
    BY SourcesAssumption DEF Init
  <2>2. source_fs \in Stream /\ source_line \in Nat
    BY <1>1 DEF Init, StreamOK
  <2>3. header_stack \in Seq(Header) /\ read_cursor \in 0 .. write_cursor
        /\ write_cursor \in Nat
    BY DEF Init
  <2>4. buf \in [file : Files \cup {"unknown_file"}, no : Nat]
        /\ last \in [file : Files \cup {"unknown_file"}, no : Nat, col : Nat]
    BY DEF Init, NoLine, Nul
  <2>5. out \in Seq([file : Files \cup {"unknown_file"}, no : Nat, col : Nat])
    BY DEF Init
  <2> QED BY <2>1, <2>2, <2>3, <2>4, <2>5 DEF Init, TypeOK
<1> QED BY <1>1, <1>2 DEF Init, TInv

(* The actions of the client. *)
LEMMA SeekTInv ==
  ASSUME TInv, Seek \/ NextSource \/ NextPastEnd PROVE TInv'
<1>1. /\ TypeOK /\ fs \in FileSystems /\ fs' = fs
      /\ input_source \in Seq(Files) /\ current_source \in Nat
  BY DEF TInv, TypeOK, Seek, NextSource, NextPastEnd, sourceVars
<1>2. /\ input_source' = input_source /\ current_source' \in Nat
      /\ eof' = FALSE /\ status' = "OK" /\ macro_table' = {}
      /\ source_line' = 0 /\ header_stack' = <<>> /\ in_omit_mode' = FALSE
      /\ last' = Nul /\ out' = <<>> /\ pc' \in {"idle", "crashed"}
      /\ read_cursor' = read_cursor /\ write_cursor' = write_cursor
      /\ buf' = buf
  BY <1>1 DEF Seek, NextSource, NextPastEnd, Clear, AtBoundary, sourceVars
<1>3. StreamOK(fs, source_fs')
  <2>1. CASE Seek
    <3>1. input_source[current_source + 1] \in Files
      BY <1>1, <2>1 DEF Seek
    <3> QED BY <1>1, <2>1, <3>1, FopenLemma DEF Seek
  <2>2. CASE NextSource
    <3>1. input_source[current_source' + 1] \in Files
      BY <1>1, <2>2 DEF NextSource
    <3> QED BY <1>1, <2>2, <3>1, FopenLemma DEF NextSource
  <2>3. CASE NextPastEnd
    BY <2>3 DEF NextPastEnd, Missing, StreamOK, Stream
  <2> QED BY <2>1, <2>2, <2>3
<1>4. TypeOK'
  <2>1. source_fs' \in Stream
    BY <1>3 DEF StreamOK
  <2>2. last' \in [file : Files \cup {"unknown_file"}, no : Nat, col : Nat]
        /\ out' \in Seq([file : Files \cup {"unknown_file"}, no : Nat, col : Nat])
    BY <1>2 DEF Nul
  <2>3. header_stack' \in Seq(Header) /\ read_cursor' \in 0 .. write_cursor'
        /\ write_cursor' \in Nat
        /\ buf' \in [file : Files \cup {"unknown_file"}, no : Nat]
    BY <1>1, <1>2 DEF TypeOK
  <2> QED BY <1>1, <1>2, <2>1, <2>2, <2>3 DEF TypeOK
<1> QED BY <1>1, <1>2, <1>3, <1>4 DEF TInv

LEMMA CallTInv ==
  ASSUME TInv, Push \/ CallGet \/ ReturnChar \/ ReturnNul PROVE TInv'
<1>1. /\ TypeOK /\ fs \in FileSystems /\ fs' = fs
      /\ source_fs' = source_fs /\ header_stack' = header_stack
  BY DEF TInv, Push, CallGet, ReturnChar, ReturnNul, sourceVars, stateVars
<1>2. ASSUME Push PROVE TypeOK'
  <2>1. input_source' \in Seq(Files)
    BY <1>1, <1>2 DEF Push, TypeOK
  <2> QED BY <1>1, <1>2, <2>1 DEF Push, TypeOK, stateVars, clientVars
<1>3. ASSUME CallGet PROVE TypeOK'
  BY <1>1, <1>3 DEF CallGet, TypeOK, sourceVars, stateVars
<1>4. ASSUME ReturnNul PROVE TypeOK'
  <2>1. last' \in [file : Files \cup {"unknown_file"}, no : Nat, col : Nat]
    BY <1>4 DEF ReturnNul, Nul
  <2> QED BY <1>1, <1>4, <2>1 DEF ReturnNul, TypeOK, sourceVars, stateVars
<1>5. ASSUME ReturnChar PROVE TypeOK'
  <2>1. /\ buf \in [file : Files \cup {"unknown_file"}, no : Nat]
        /\ read_cursor \in 0 .. write_cursor /\ write_cursor \in Nat
        /\ read_cursor < write_cursor
    BY <1>1, <1>5 DEF ReturnChar, TypeOK
  <2>2. last' \in [file : Files \cup {"unknown_file"}, no : Nat, col : Nat]
    BY <1>5, <2>1 DEF ReturnChar
  <2>3. out' \in Seq([file : Files \cup {"unknown_file"}, no : Nat, col : Nat])
    BY <1>1, <1>5, <2>2 DEF ReturnChar, TypeOK
  <2>4. /\ read_cursor' \in 0 .. write_cursor' /\ write_cursor' \in Nat
        /\ buf' = buf /\ pc' = "idle"
    BY <1>5, <2>1 DEF ReturnChar
  <2>5. /\ UNCHANGED <<input_source, current_source, source_fs, source_line>>
        /\ UNCHANGED <<header_stack, macro_table, in_omit_mode, status, eof>>
    BY <1>5 DEF ReturnChar, sourceVars, stateVars
  <2> QED BY <1>1, <2>1, <2>2, <2>3, <2>4, <2>5 DEF TypeOK
<1>6. TypeOK'
  BY <1>2, <1>3, <1>4, <1>5
<1> QED BY <1>1, <1>6 DEF TInv

LEMMA FetchStepTInv == ASSUME TInv, Fetch PROVE TInv'
<1>1. PICK d \in 0 .. Len(header_stack) :
         \/ FetchNothing(d)    \/ FetchEmpty(d)        \/ FetchOmitted(d)
         \/ FetchText(d)       \/ FetchDefine(d)       \/ FetchInclude(d)
         \/ FetchBadInclude(d) \/ FetchEmptyInclude(d) \/ FetchIfdef(d)
         \/ FetchIfndef(d)     \/ FetchEndif(d)
  BY DEF Fetch
<1>2. /\ macro_table \subseteq Files \cup Macros \cup {"none"}
      /\ in_omit_mode \in BOOLEAN /\ eof \in BOOLEAN
      /\ status \in {"OK", "Corruption", "IOError"}
      /\ pc \in {"idle", "get", "crashed"}
  BY DEF TInv, TypeOK
<1>3. CASE FetchNothing(d)
  <2>1. header_stack \in Seq(Header) /\ d \in 0 .. Len(header_stack)
    BY DEF TInv, TypeOK
  <2>2. /\ SubSeq(header_stack, 1, d) \in Seq(Header)
        /\ Len(SubSeq(header_stack, 1, d)) = d
        /\ \A i \in 1 .. d : SubSeq(header_stack, 1, d)[i] = header_stack[i]
    BY <2>1
  <2>3. TypeOK'
    BY <1>2, <1>3, <2>2
       DEF FetchNothing, TInv, TypeOK, NoLine, sourceVars, clientVars
  <2>4. fs' = fs /\ source_fs' = source_fs
        /\ header_stack' = SubSeq(header_stack, 1, d)
    BY <1>3 DEF FetchNothing, sourceVars
  <2> QED BY <2>1, <2>2, <2>3, <2>4 DEF TInv
<1>4. CASE FetchEmpty(d)
  <2>1. ReadLine(d)
    BY <1>4 DEF FetchEmpty
  <2> QED BY <1>2, <1>4, <2>1, FetchTInv DEF FetchEmpty, clientVars
<1>5. CASE FetchOmitted(d)
  <2>1. ReadLine(d) /\ ThisWidth(d) \in Nat
    BY <1>5, ReadLineLemma DEF FetchOmitted
  <2> QED BY <1>2, <1>5, <2>1, FetchTInv DEF FetchOmitted, Consume, clientVars
<1>6. ASSUME NEW k \in Kinds, Reads(d, k)
      PROVE  /\ ReadLine(d) /\ ThisWidth(d) \in Nat /\ ThisLine(d) \in Line
             /\ write_cursor' = ThisWidth(d)
             /\ k = "include" => ThisLine(d).arg \in Files
  BY <1>6, ReadLineLemma DEF Reads
<1>7. CASE FetchText(d)
  <2>1. ReadLine(d) /\ ThisWidth(d) \in Nat /\ write_cursor' = ThisWidth(d)
    BY <1>6, <1>7 DEF FetchText, Kinds
  <2> QED BY <1>2, <1>7, <2>1, FetchTInv DEF FetchText, clientVars
<1>8. CASE FetchDefine(d)
  <2>1. /\ ReadLine(d) /\ ThisWidth(d) \in Nat /\ write_cursor' = ThisWidth(d)
        /\ ThisLine(d) \in Line
    BY <1>6, <1>8 DEF FetchDefine, Kinds
  <2>2. ThisLine(d).arg \in Files \cup Macros \cup {"none"}
    BY <2>1 DEF Line
  <2>3. macro_table' \subseteq Files \cup Macros \cup {"none"}
    BY <1>2, <1>8, <2>2 DEF FetchDefine
  <2> QED BY <1>2, <1>8, <2>1, <2>3, FetchTInv DEF FetchDefine, Consume, clientVars
<1>9. CASE FetchInclude(d)
  <2>1. /\ ReadLine(d) /\ ThisWidth(d) \in Nat /\ write_cursor' = ThisWidth(d)
        /\ ThisLine(d).arg \in Files
    BY <1>6, <1>9 DEF FetchInclude, Kinds
  <2>2. \E h \in Files : \E n :
          header_stack' = Append(Counted(d),
                                 [name |-> h, line |-> 0, is |-> Fopen(h, n)])
    BY <1>9, <2>1 DEF FetchInclude
  <2> QED BY <1>2, <1>9, <2>1, <2>2, FetchTInv DEF FetchInclude, Consume, clientVars
<1>10. CASE FetchBadInclude(d)
  <2>1. ReadLine(d) /\ ThisWidth(d) \in Nat /\ write_cursor' = ThisWidth(d)
    BY <1>6, <1>10 DEF FetchBadInclude, Kinds
  <2> QED BY <1>2, <1>10, <2>1, FetchTInv DEF FetchBadInclude, clientVars
<1>11. CASE FetchEmptyInclude(d)
  <2>1. ReadLine(d) /\ ThisWidth(d) \in Nat /\ write_cursor' = ThisWidth(d)
    BY <1>6, <1>11 DEF FetchEmptyInclude, Kinds
  <2> QED BY <1>2, <1>11, <2>1, FetchTInv DEF FetchEmptyInclude
<1>12. CASE FetchIfdef(d) \/ FetchIfndef(d)
  <2>1. ReadLine(d) /\ ThisWidth(d) \in Nat /\ write_cursor' = ThisWidth(d)
    BY <1>6, <1>12 DEF FetchIfdef, FetchIfndef, Kinds
  <2>2. FetchIfdef(d) => in_omit_mode' \in BOOLEAN
    BY Zenon DEF FetchIfdef
  <2>3. FetchIfndef(d) => in_omit_mode' \in BOOLEAN
    <3>1. (ThisLine(d).arg \in macro_table) \in BOOLEAN
      BY SMT
    <3> QED BY <3>1, Zenon DEF FetchIfndef
  <2> QED
    BY <1>2, <1>12, <2>1, <2>2, <2>3, FetchTInv
       DEF FetchIfdef, FetchIfndef, Consume, clientVars
<1>13. CASE FetchEndif(d)
  <2>1. ReadLine(d) /\ ThisWidth(d) \in Nat /\ write_cursor' = ThisWidth(d)
    BY <1>6, <1>13 DEF FetchEndif, Kinds
  <2>2. in_omit_mode' \in BOOLEAN
    BY <1>13 DEF FetchEndif
  <2> QED BY <1>2, <1>13, <2>1, <2>2, FetchTInv DEF FetchEndif, Consume, clientVars
<1> QED
  BY <1>1, <1>3, <1>4, <1>5, <1>7, <1>8, <1>9, <1>10, <1>11, <1>12, <1>13

LEMMA StutterTInv == ASSUME TInv, UNCHANGED vars PROVE TInv'
  BY DEF TInv, TypeOK, vars, sourceVars, stateVars, clientVars

LEMMA StepTInv == TInv /\ [Next]_vars => TInv'
  BY SeekTInv, CallTInv, FetchStepTInv, StutterTInv DEF Next

THEOREM SpecTInv == Spec => []TInv
  BY InitTInv, StepTInv, PTL DEF Spec

(* Every variable keeps its type, and read_cursor_ never passes            *)
(* write_cursor_, whatever is on disk.                                     *)
THEOREM TypeCorrect == Spec => []TypeOK
<1>1. TInv => TypeOK
  BY DEF TInv
<1> QED BY <1>1, SpecTInv, PTL
-----------------------------------------------------------------------------
(* The second invariant, about what the line counters count.  It speaks of *)
(* disks without read errors: the code attributes the lines of the source  *)
(* to a header whose stream went bad.                                      *)

(* The counter of an entry is the number of lines read from its stream,    *)
(* until the empty read that ends the stream.                              *)
HeadersOK(stack) ==
  \A i \in 1 .. Len(stack) :
    /\ "bad" \notin stack[i].is.bits
    /\ stack[i].name = stack[i].is.file
    /\ stack[i].is.state = "open" /\ "fail" \notin stack[i].is.bits =>
         stack[i].line = stack[i].is.pos

SourceOK ==
  /\ "bad" \notin source_fs.bits
  /\ source_fs.state = "open" =>
       /\ current_source < Len(input_source)
       /\ source_fs.file = input_source[current_source + 1]
  /\ source_fs.state = "open" /\ "fail" \notin source_fs.bits =>
       source_line = source_fs.pos

(* Line no of file includes h. *)
Includes(disk, file, no, h) ==
  /\ file \in DOMAIN disk /\ no \in 1 .. Len(disk[file])
  /\ disk[file][no].kind = "include" /\ disk[file][no].arg = h

ChainOK(disk, stack, file, no) ==
  \A i \in 1 .. Len(stack) :
    /\ i = 1 => Includes(disk, file, no, stack[i].name)
    /\ i > 1 => Includes(disk, stack[i - 1].name, stack[i - 1].line, stack[i].name)

(* The place the buffer's line is from is the one the counters show. *)
TopIs(stack, file, no, place) ==
  IF stack = <<>> THEN place.file = file /\ place.no = no
  ELSE place.file = stack[Len(stack)].name /\ place.no = stack[Len(stack)].line

BufferOK ==
  read_cursor < write_cursor =>
    /\ header_stack = <<>> => source_fs.state = "open"
    /\ TopIs(header_stack, source_fs.file, source_line, buf)

LastOK ==
  pc = "idle" /\ last # Nul =>
    /\ header_stack = <<>> => source_fs.state = "open"
    /\ TopIs(header_stack, source_fs.file, source_line, last)
    /\ last.col = read_cursor

LInv ==
  /\ HeadersOK(header_stack) /\ SourceOK
  /\ ChainOK(fs, header_stack, source_fs.file, source_line)
  /\ BufferOK /\ LastOK

(* Reading a stream that is not bad, from a disk without read errors. *)
LEMMA CleanGetline ==
  ASSUME fs \in FileSystems, NoReadErrors,
         NEW is, StreamOK(fs, is), "bad" \notin is.bits, ~Eof(is)
  PROVE  /\ GoodStream(is) /\ is.pos \in Nat
         /\ "bad" \notin AfterGetline(is).bits
         /\ "fail" \notin AfterGetline(is).bits =>
              HasLine(is) /\ is.pos + 1 < LineModulus
         /\ HasLine(is) => is.pos + 1 < LineModulus
<1>1. /\ is.state = "open" /\ is.file \in DOMAIN fs /\ is \in Stream
      /\ is.pos \in Nat /\ is.pos <= Len(fs[is.file])
  BY GetlineLemma DEF StreamOK, Stream
<1>2. is.bits = {}
  BY <1>1 DEF Eof, Fail, Stream
<1>3. Len(fs[is.file]) \in Nat /\ Len(fs[is.file]) + 1 < LineModulus
  BY <1>1, FileFacts
<1>4. is.pos < Len(fs[is.file]) => HasLine(is)
  BY <1>1, <1>2, <1>3 DEF HasLine, GoodStream, NoReadErrors
<1>5. CASE is.pos = Len(fs[is.file])
  <2>1. AfterGetline(is) = [is EXCEPT !.bits = {"eof", "fail"}]
    BY <1>2, <1>5 DEF AfterGetline, GoodStream
  <2>2. AfterGetline(is).bits = {"eof", "fail"}
    BY <1>1, <2>1 DEF Stream
  <2>3. ~HasLine(is)
    BY <1>1, <1>3, <1>5 DEF HasLine
  <2> QED BY <1>1, <1>2, <2>2, <2>3 DEF GoodStream
<1>6. CASE is.pos < Len(fs[is.file])
  <2> DEFINE b == IF fs[is.file][is.pos + 1].nl THEN {} ELSE {"eof"}
  <2>1. AfterGetline(is) = [is EXCEPT !.pos = @ + 1, !.bits = b]
    BY <1>1, <1>2, <1>3, <1>4, <1>6 DEF AfterGetline, GoodStream
  <2>2. "bad" \notin b
    OBVIOUS
  <2> HIDE DEF b
  <2>3. AfterGetline(is).bits = b
    BY <1>1, <2>1 DEF Stream
  <2>4. is.pos + 1 < LineModulus
    BY <1>1, <1>3, <1>6, LineModulusAssumption
  <2> QED BY <1>1, <1>2, <1>4, <1>6, <2>2, <2>3, <2>4 DEF GoodStream
<1> QED BY <1>1, <1>3, <1>5, <1>6

(* What ReadLine does to the counters and to the buffer. *)
LEMMA ReadLineLoc ==
  ASSUME TInv, LInv, NoReadErrors, NEW d \in 0 .. Len(header_stack), ReadLine(d),
         UNCHANGED sourceVars
  PROVE  /\ HeadersOK(Counted(d)) /\ SourceOK'
         /\ ChainOK(fs, Counted(d), source_fs'.file, source_line')
         /\ d = 0 => source_fs'.state = "open"
         /\ HasLine(Chosen(d)) =>
              /\ TopIs(Counted(d), source_fs'.file, source_line', buf')
              /\ buf'.file = Chosen(d).file /\ buf'.no = Chosen(d).pos + 1
<1>1. /\ fs \in FileSystems /\ header_stack \in Seq(Header) /\ d \in Nat
      /\ StreamOK(fs, source_fs) /\ Len(header_stack) \in Nat
      /\ d > 0 => d \in 1 .. Len(header_stack)
      /\ \A i \in 1 .. Len(header_stack) : StreamOK(fs, header_stack[i].is)
      /\ HeadersOK(header_stack) /\ SourceOK
      /\ source_line \in Nat
  <2>1. /\ fs \in FileSystems /\ StreamOK(fs, source_fs)
        /\ \A i \in 1 .. Len(header_stack) : StreamOK(fs, header_stack[i].is)
        /\ header_stack \in Seq(Header) /\ source_line \in Nat
    BY Zenon DEF TInv, TypeOK
  <2>2. HeadersOK(header_stack) /\ SourceOK
    BY Zenon DEF LInv
  <2>3. Len(header_stack) \in Nat
    BY <2>1
  <2> QED BY <2>1, <2>2, <2>3
<1>2. d > 0 => FromHeader(d)
  <2> SUFFICES ASSUME d > 0 PROVE FromHeader(d)
    OBVIOUS
  <2>1. ~Bad(header_stack[d].is)
    BY DEF Bad, Fail
  <2>2. ~Eof(header_stack[d].is)
    BY <2>1 DEF ReadLine, Kept
  <2>3. "bad" \notin header_stack[d].is.bits
    BY <1>1 DEF HeadersOK
  <2>4. GoodStream(header_stack[d].is)
    BY <1>1, <2>2, <2>3, CleanGetline
  <2> QED BY <2>4 DEF FromHeader
<1>3. /\ Counted(d) \in Seq(Header) /\ Len(Counted(d)) = d
      /\ \A i \in 1 .. d : StreamOK(fs, Counted(d)[i].is)
      /\ \A i \in 1 .. d : Counted(d)[i].name = header_stack[i].name
      /\ \A i \in 1 .. d : i < d => Counted(d)[i] = header_stack[i]
      /\ d > 0 => /\ Counted(d)[d].line = Increment(header_stack[d].line)
                  /\ Counted(d)[d].is = AfterGetline(header_stack[d].is)
  BY <1>2, CountedLemma
<1>4. HasLine(Chosen(d)) => /\ buf'.file = Chosen(d).file
                            /\ buf'.no = Chosen(d).pos + 1
  BY DEF ReadLine
<1>5. ~Eof(Chosen(d))
  BY DEF ReadLine
<1>6. CASE d = 0
  <2>1. Chosen(d) = source_fs /\ ~FromHeader(d)
    BY <1>6 DEF Chosen, FromHeader
  <2>2. /\ source_fs' = AfterGetline(source_fs)
        /\ source_line' = Increment(source_line)
    BY <1>6, <2>1 DEF ReadLine
  <2>3. /\ source_fs.state = "open" /\ GoodStream(source_fs)
        /\ source_fs.pos \in Nat
        /\ "bad" \notin source_fs'.bits
        /\ "fail" \notin source_fs'.bits => HasLine(source_fs)
        /\ HasLine(source_fs) => /\ source_fs.pos + 1 < LineModulus
                                 /\ source_fs'.pos = source_fs.pos + 1
        /\ source_fs'.file = source_fs.file /\ source_fs'.state = "open"
    BY <1>1, <1>5, <2>1, <2>2, GetlineLemma, CleanGetline DEF SourceOK
  <2>4. source_line = source_fs.pos
    BY <1>1, <2>3 DEF SourceOK, GoodStream
  <2>5. HasLine(source_fs) => source_line' = source_fs'.pos
    BY <2>2, <2>3, <2>4, IncrementLemma
  <2>6. SourceOK'
    BY <1>1, <2>3, <2>5 DEF SourceOK, sourceVars
  <2>7. Counted(d) = <<>>
    BY <1>3, <1>6
  <2> QED
    BY <1>3, <1>4, <1>6, <2>1, <2>3, <2>5, <2>6, <2>7 DEF HeadersOK, ChainOK, TopIs
<1>7. CASE d > 0
  <2> DEFINE top == header_stack[d]
  <2>1. Chosen(d) = top.is /\ d \in 1 .. Len(header_stack)
    BY <1>1, <1>2, <1>7 DEF Chosen
  <2>2. source_fs' = source_fs /\ source_line' = source_line
    BY <1>2, <1>7 DEF ReadLine
  <2>3. /\ StreamOK(fs, top.is) /\ "bad" \notin top.is.bits
        /\ top.name = top.is.file
        /\ top.is.state = "open" /\ "fail" \notin top.is.bits => top.line = top.is.pos
        /\ top.line \in Nat
    <3>1. StreamOK(fs, top.is)
      BY <1>1, <2>1
    <3>2. top \in Header
      BY <1>1, <2>1
    <3>3. top.line \in Nat
      BY <3>2 DEF Header
    <3> QED BY <1>1, <2>1, <3>1, <3>3 DEF HeadersOK
  <2>4. /\ top.is.state = "open" /\ GoodStream(top.is) /\ top.is.pos \in Nat
        /\ "bad" \notin AfterGetline(top.is).bits
        /\ "fail" \notin AfterGetline(top.is).bits => HasLine(top.is)
        /\ HasLine(top.is) => /\ top.is.pos + 1 < LineModulus
                              /\ AfterGetline(top.is).pos = top.is.pos + 1
        /\ AfterGetline(top.is).file = top.is.file
    <3>1. ~Eof(top.is)
      BY <1>5, <2>1
    <3> QED BY <1>1, <2>3, <3>1, GetlineLemma, CleanGetline
  <2>5. top.line = top.is.pos
    BY <2>3, <2>4 DEF GoodStream
  <2>6. HasLine(top.is) => Counted(d)[d].line = top.is.pos + 1
    BY <1>3, <1>7, <2>3, <2>4, <2>5, IncrementLemma
  <2>7. HeadersOK(Counted(d))
    <3>1. ASSUME NEW i \in 1 .. d
          PROVE  /\ "bad" \notin Counted(d)[i].is.bits
                 /\ Counted(d)[i].name = Counted(d)[i].is.file
                 /\ Counted(d)[i].is.state = "open"
                      /\ "fail" \notin Counted(d)[i].is.bits =>
                        Counted(d)[i].line = Counted(d)[i].is.pos
      <4>1. CASE i < d
        BY <1>1, <1>3, <4>1 DEF HeadersOK
      <4>2. CASE i = d
        <5>1. /\ Counted(d)[i].is = AfterGetline(top.is)
              /\ Counted(d)[i].name = top.name
          BY <1>3, <1>7, <4>2
        <5> QED BY <2>3, <2>4, <2>6, <4>2, <5>1
      <4> QED BY <1>1, <4>1, <4>2
    <3> QED BY <1>3, <3>1 DEF HeadersOK
  <2>8. SourceOK'
    BY <1>1, <2>2 DEF SourceOK, sourceVars
  <2>9. ChainOK(fs, Counted(d), source_fs'.file, source_line')
    <3>1. ChainOK(fs, header_stack, source_fs.file, source_line)
      BY DEF LInv
    <3>2. ASSUME NEW i \in 1 .. d, i > 1
          PROVE  Includes(fs, Counted(d)[i - 1].name, Counted(d)[i - 1].line,
                          Counted(d)[i].name)
      <4>1. Counted(d)[i - 1] = header_stack[i - 1]
        BY <1>1, <1>3, <3>2
      <4>2. Counted(d)[i].name = header_stack[i].name
        BY <1>3
      <4> QED BY <1>1, <3>1, <3>2, <4>1, <4>2 DEF ChainOK
    <3>3. ASSUME NEW i \in 1 .. d, i = 1
          PROVE  Includes(fs, source_fs.file, source_line, Counted(d)[i].name)
      BY <1>1, <1>3, <3>1, <3>3 DEF ChainOK
    <3> QED BY <1>3, <2>2, <3>2, <3>3 DEF ChainOK
  <2>10. HasLine(Chosen(d)) => TopIs(Counted(d), source_fs'.file, source_line', buf')
    <3>1. Counted(d) # <<>> /\ Len(Counted(d)) = d
      BY <1>3, <1>7
    <3>2. Counted(d)[d].name = top.name
      BY <1>3, <2>1
    <3> QED BY <1>4, <2>1, <2>3, <2>6, <3>1, <3>2 DEF TopIs
  <2> QED BY <1>4, <1>7, <2>7, <2>8, <2>9, <2>10
<1> QED BY <1>1, <1>6, <1>7

(* A step of get()'s loop that reads a line, and may push one header that  *)
(* the line includes.                                                      *)
LEMMA FetchLInv ==
  ASSUME TInv, LInv, NoReadErrors, NEW d \in 0 .. Len(header_stack), ReadLine(d),
         UNCHANGED sourceVars, pc' # "idle",
         \/ /\ header_stack' = Counted(d)
            /\ read_cursor' < write_cursor' => HasLine(Chosen(d))
         \/ \E n : /\ HasLine(Chosen(d)) /\ ThisLine(d).kind = "include"
                   /\ ~(read_cursor' < write_cursor')
                   /\ header_stack' =
                        Append(Counted(d), [name |-> ThisLine(d).arg, line |-> 0,
                                            is |-> Fopen(ThisLine(d).arg, n)])
  PROVE  LInv'
<1>1. /\ HeadersOK(Counted(d)) /\ SourceOK'
      /\ ChainOK(fs, Counted(d), source_fs'.file, source_line')
      /\ d = 0 => source_fs'.state = "open"
      /\ HasLine(Chosen(d)) =>
           /\ TopIs(Counted(d), source_fs'.file, source_line', buf')
           /\ buf'.file = Chosen(d).file /\ buf'.no = Chosen(d).pos + 1
  BY ReadLineLoc
<1>2. Counted(d) \in Seq(Header) /\ Len(Counted(d)) = d /\ d \in Nat
  BY CountedLemma DEF TInv, TypeOK
<1>3. LastOK'
  BY DEF LastOK
<1>4. fs' = fs
  BY DEF sourceVars
<1>5. CASE /\ header_stack' = Counted(d)
           /\ read_cursor' < write_cursor' => HasLine(Chosen(d))
  <2>1. HeadersOK(header_stack') /\ ChainOK(fs, header_stack', source_fs'.file, source_line')
    BY <1>1, <1>5
  <2>2. BufferOK'
    BY <1>1, <1>2, <1>5 DEF BufferOK
  <2> QED BY <1>1, <1>3, <1>4, <2>1, <2>2 DEF LInv
<1>6. ASSUME NEW n, HasLine(Chosen(d)), ThisLine(d).kind = "include",
             ~(read_cursor' < write_cursor'),
             header_stack' =
               Append(Counted(d), [name |-> ThisLine(d).arg, line |-> 0,
                                   is |-> Fopen(ThisLine(d).arg, n)])
      PROVE  LInv'
  <2> DEFINE h == ThisLine(d).arg
             e == [name |-> h, line |-> 0, is |-> Fopen(h, n)]
             c == Counted(d)
             s == header_stack'
  <2>1. h \in Files /\ fs \in FileSystems
    BY <1>6, ReadLineLemma DEF TInv
  <2>2. /\ StreamOK(fs, Fopen(h, n))
        /\ Fopen(h, n).file = h /\ Fopen(h, n).pos = 0
        /\ "bad" \notin Fopen(h, n).bits
    BY <2>1, FopenLemma
  <2>3. e \in Header /\ e.is = Fopen(h, n) /\ e.name = h /\ e.line = 0
    BY <2>1, <2>2 DEF StreamOK, Header
  <2>4. /\ s \in Seq(Header) /\ Len(s) = d + 1 /\ s[d + 1] = e
        /\ \A i \in 1 .. d : s[i] = c[i]
    <3>1. s = Append(c, e)
      BY <1>6
    <3> HIDE DEF s, c, e
    <3>2. c \in Seq(Header) /\ Len(c) = d /\ d \in Nat
      BY <1>2 DEF c
    <3> QED BY <2>3, <3>1, <3>2
  <2>5. HeadersOK(s)
    <3>1. ASSUME NEW i \in 1 .. d + 1
          PROVE  /\ "bad" \notin s[i].is.bits
                 /\ s[i].name = s[i].is.file
                 /\ s[i].is.state = "open" /\ "fail" \notin s[i].is.bits =>
                      s[i].line = s[i].is.pos
      <4>1. CASE i = d + 1
        BY <2>2, <2>3, <2>4, <4>1
      <4>2. CASE i # d + 1
        <5>1. i \in 1 .. d /\ s[i] = c[i] /\ i \in 1 .. Len(c)
          BY <1>2, <2>4, <4>2
        <5> QED BY <1>1, <5>1 DEF HeadersOK
      <4> QED BY <4>1, <4>2
    <3> QED BY <2>4, <3>1 DEF HeadersOK
  <2>6. Includes(fs, buf'.file, buf'.no, h)
    <3>1. /\ StreamOK(fs, Chosen(d)) /\ Chosen(d).state = "open" /\ ~Eof(Chosen(d))
      BY ReadLineLemma DEF ReadLine
    <3>2. Chosen(d).file \in DOMAIN fs /\ Chosen(d).pos + 1 \in 1 .. Len(fs[Chosen(d).file])
      BY <1>6, <2>1, <3>1, GetlineLemma
    <3> QED BY <1>1, <1>6, <3>2 DEF Includes, ThisLine
  <2>7. ChainOK(fs, s, source_fs'.file, source_line')
    <3>1. TopIs(c, source_fs'.file, source_line', buf')
      BY <1>1, <1>6
    <3>2. ASSUME NEW i \in 1 .. d + 1, i > 1
          PROVE  Includes(fs, s[i - 1].name, s[i - 1].line, s[i].name)
      <4>1. CASE i = d + 1
        <5>1. s[i - 1] = c[d] /\ c # <<>> /\ Len(c) = d
          BY <1>2, <2>4, <3>2, <4>1
        <5>2. buf'.file = c[d].name /\ buf'.no = c[d].line
          BY <3>1, <5>1 DEF TopIs
        <5> QED BY <2>3, <2>4, <2>6, <4>1, <5>1, <5>2
      <4>2. CASE i # d + 1
        <5>1. i \in 1 .. Len(c) /\ s[i] = c[i] /\ s[i - 1] = c[i - 1]
          BY <1>2, <2>4, <3>2, <4>2
        <5> QED BY <1>1, <3>2, <5>1 DEF ChainOK
      <4> QED BY <4>1, <4>2
    <3>3. Includes(fs, source_fs'.file, source_line', s[1].name)
      <4>1. CASE d = 0
        <5>1. c = <<>>
          BY <1>2, <4>1
        <5>2. buf'.file = source_fs'.file /\ buf'.no = source_line'
          BY <3>1, <5>1 DEF TopIs
        <5> QED BY <2>3, <2>4, <2>6, <4>1, <5>2
      <4>2. CASE d > 0
        <5>1. 1 \in 1 .. Len(c) /\ s[1] = c[1]
          BY <1>2, <2>4, <4>2
        <5> QED BY <1>1, <5>1 DEF ChainOK
      <4> QED BY <1>2, <4>1, <4>2
    <3> QED BY <2>4, <3>2, <3>3 DEF ChainOK
  <2>8. BufferOK'
    BY <1>6 DEF BufferOK
  <2> QED BY <1>1, <1>3, <1>4, <2>5, <2>7, <2>8 DEF LInv
<1> QED BY <1>5, <1>6

LEMMA InitLInv == Init => LInv
<1> SUFFICES ASSUME Init PROVE LInv
  OBVIOUS
<1>1. HeadersOK(header_stack) /\ ChainOK(fs, header_stack, source_fs.file, source_line)
  BY DEF Init, HeadersOK, ChainOK
<1>2. SourceOK
  BY DEF Init, SourceOK, NullStream
<1>3. BufferOK /\ LastOK
  BY DEF Init, BufferOK, LastOK
<1> QED BY <1>1, <1>2, <1>3 DEF LInv

LEMMA SeekLInv ==
  ASSUME TInv, LInv, Seek \/ NextSource \/ NextPastEnd PROVE LInv'
<1>1. /\ fs \in FileSystems /\ input_source \in Seq(Files)
      /\ current_source \in Nat /\ read_cursor \in Nat /\ write_cursor \in Nat
  BY DEF TInv, TypeOK
<1>2. /\ input_source' = input_source /\ header_stack' = <<>> /\ source_line' = 0
      /\ last' = Nul /\ read_cursor' = read_cursor /\ write_cursor' = write_cursor
      /\ read_cursor >= write_cursor
  BY DEF Seek, NextSource, NextPastEnd, Clear, AtBoundary, sourceVars
<1>3. SourceOK'
  <2>1. ASSUME NEW f \in Files, NEW n, source_fs' = Fopen(f, n),
               current_source' < Len(input_source),
               f = input_source[current_source' + 1]
        PROVE  SourceOK'
    BY <1>1, <1>2, <2>1, FopenLemma DEF SourceOK
  <2>2. CASE Seek
    <3>1. current_source' = current_source
      BY <2>2 DEF Seek, sourceVars
    <3>2. input_source[current_source + 1] \in Files
      BY <1>1, <2>2 DEF Seek
    <3> QED BY <2>1, <2>2, <3>1, <3>2 DEF Seek
  <2>3. CASE NextSource
    <3>1. current_source' = current_source + 1
      BY <2>3 DEF NextSource
    <3>2. input_source[current_source' + 1] \in Files
      BY <1>1, <2>3, <3>1 DEF NextSource
    <3> QED BY <2>1, <2>3, <3>1, <3>2 DEF NextSource
  <2>4. CASE NextPastEnd
    BY <2>4 DEF NextPastEnd, Missing, SourceOK
  <2> QED BY <2>2, <2>3, <2>4
<1>4. BufferOK' /\ LastOK'
  BY <1>1, <1>2 DEF BufferOK, LastOK
<1>5. HeadersOK(header_stack)' /\ ChainOK(fs, header_stack, source_fs.file, source_line)'
  BY <1>2 DEF HeadersOK, ChainOK
<1> QED BY <1>3, <1>4, <1>5 DEF LInv

LEMMA CallLInv ==
  ASSUME TInv, LInv, Push \/ CallGet \/ ReturnChar \/ ReturnNul PROVE LInv'
<1>1. /\ fs' = fs /\ source_fs' = source_fs /\ source_line' = source_line
      /\ header_stack' = header_stack /\ current_source' = current_source
      /\ write_cursor' = write_cursor /\ buf' = buf
  BY DEF Push, CallGet, ReturnChar, ReturnNul, sourceVars, stateVars, clientVars
<1>2. /\ input_source \in Seq(Files) /\ current_source \in Nat
      /\ read_cursor \in Nat /\ write_cursor \in Nat
  BY DEF TInv, TypeOK
<1>3. HeadersOK(header_stack)' /\ ChainOK(fs, header_stack, source_fs.file, source_line)'
  BY <1>1 DEF LInv
<1>4. SourceOK'
  <2>1. ASSUME current_source < Len(input_source)
        PROVE  /\ current_source < Len(input_source')
               /\ input_source'[current_source + 1] = input_source[current_source + 1]
    <3>1. CASE Push
      BY <1>2, <2>1, <3>1 DEF Push
    <3>2. CASE CallGet \/ ReturnChar \/ ReturnNul
      BY <2>1, <3>2 DEF CallGet, ReturnChar, ReturnNul, sourceVars
    <3> QED BY <3>1, <3>2
  <2> QED BY <1>1, <2>1 DEF LInv, SourceOK
<1>5. BufferOK'
  <2>1. read_cursor' < write_cursor' => read_cursor < write_cursor
    BY <1>1, <1>2 DEF Push, CallGet, ReturnChar, ReturnNul
  <2> QED BY <1>1, <2>1 DEF LInv, BufferOK
<1>6. LastOK'
  <2>1. CASE Push
    BY <1>1, <2>1 DEF Push, LInv, LastOK, clientVars
  <2>2. CASE CallGet
    BY <2>2 DEF CallGet, LastOK
  <2>3. CASE ReturnNul
    BY <2>3 DEF ReturnNul, LastOK
  <2>4. CASE ReturnChar
    <3>1. /\ last' = [file |-> buf.file, no |-> buf.no, col |-> read_cursor + 1]
          /\ read_cursor' = read_cursor + 1 /\ read_cursor < write_cursor
      BY <2>4 DEF ReturnChar
    <3>2. /\ header_stack = <<>> => source_fs.state = "open"
          /\ TopIs(header_stack, source_fs.file, source_line, buf)
      BY <3>1 DEF LInv, BufferOK
    <3>3. TopIs(header_stack, source_fs.file, source_line, last')
      BY <3>1, <3>2 DEF TopIs
    <3> QED BY <1>1, <3>1, <3>2, <3>3 DEF LastOK
  <2> QED BY <2>1, <2>2, <2>3, <2>4
<1> QED BY <1>3, <1>4, <1>5, <1>6 DEF LInv

LEMMA FetchNothingLInv ==
  ASSUME TInv, LInv, NEW d \in 0 .. Len(header_stack), FetchNothing(d) PROVE LInv'
<1> DEFINE s == SubSeq(header_stack, 1, d)
<1>1. header_stack \in Seq(Header)
  BY DEF TInv, TypeOK
<1>2. /\ Len(s) = d /\ d \in Nat /\ d <= Len(header_stack)
      /\ Len(header_stack) \in Nat
      /\ \A i \in 1 .. d : s[i] = header_stack[i]
  BY <1>1
<1>3. /\ header_stack' = s /\ source_fs' = source_fs /\ source_line' = source_line
      /\ fs' = fs /\ input_source' = input_source /\ current_source' = current_source
      /\ read_cursor' = 0 /\ write_cursor' = 0 /\ pc' = "get"
  BY DEF FetchNothing, Kept, sourceVars, clientVars
<1> HIDE DEF s
<1>4. HeadersOK(s)
  BY <1>2 DEF LInv, HeadersOK
<1>5. ChainOK(fs, s, source_fs.file, source_line)
  <2>1. ASSUME NEW i \in 1 .. d
        PROVE  /\ i \in 1 .. Len(header_stack) /\ s[i] = header_stack[i]
               /\ i > 1 => s[i - 1] = header_stack[i - 1]
    BY <1>2
  <2> QED BY <1>2, <2>1 DEF LInv, ChainOK
<1>6. SourceOK' /\ BufferOK' /\ LastOK'
  BY <1>3 DEF LInv, SourceOK, BufferOK, LastOK
<1> QED BY <1>3, <1>4, <1>5, <1>6 DEF LInv

LEMMA FetchStepLInv == ASSUME TInv, LInv, NoReadErrors, Fetch PROVE LInv'
<1>1. PICK d \in 0 .. Len(header_stack) :
         \/ FetchNothing(d)    \/ FetchEmpty(d)        \/ FetchOmitted(d)
         \/ FetchText(d)       \/ FetchDefine(d)       \/ FetchInclude(d)
         \/ FetchBadInclude(d) \/ FetchEmptyInclude(d) \/ FetchIfdef(d)
         \/ FetchIfndef(d)     \/ FetchEndif(d)
  BY DEF Fetch
<1>2. ASSUME ReadLine(d) PROVE pc = "get"
  BY <1>2 DEF ReadLine, Kept
<1>3. CASE FetchNothing(d)
  BY <1>3, FetchNothingLInv
<1>4. CASE FetchEmpty(d)
  BY <1>2, <1>4, FetchLInv DEF FetchEmpty, clientVars
<1>5. ASSUME \/ FetchOmitted(d) \/ FetchText(d) \/ FetchDefine(d) \/ FetchBadInclude(d)
             \/ FetchEmptyInclude(d) \/ FetchIfdef(d) \/ FetchIfndef(d) \/ FetchEndif(d)
      PROVE  /\ ReadLine(d) /\ HasLine(Chosen(d)) /\ header_stack' = Counted(d)
             /\ UNCHANGED sourceVars /\ pc' # "idle"
  BY <1>2, <1>5
     DEF FetchOmitted, FetchText, FetchDefine, FetchBadInclude, FetchEmptyInclude,
         FetchIfdef, FetchIfndef, FetchEndif, Reads, clientVars
<1>6. CASE FetchInclude(d)
  <2>1. /\ ReadLine(d) /\ HasLine(Chosen(d)) /\ ThisLine(d).kind = "include"
        /\ ThisWidth(d) \in Nat
    BY <1>6, ReadLineLemma DEF FetchInclude, Reads
  <2>2. ~(read_cursor' < write_cursor')
    BY <1>6, <2>1 DEF FetchInclude, Reads, Consume
  <2>3. pc' # "idle" /\ UNCHANGED sourceVars
    BY <1>2, <1>6, <2>1 DEF FetchInclude, clientVars
  <2> QED BY <1>6, <2>1, <2>2, <2>3, FetchLInv DEF FetchInclude
<1> QED BY <1>1, <1>3, <1>4, <1>5, <1>6, FetchLInv

IInv == TInv /\ (NoReadErrors => LInv)

LEMMA StepIInv == IInv /\ [Next]_vars => IInv'
<1> SUFFICES ASSUME IInv, [Next]_vars PROVE IInv'
  OBVIOUS
<1>1. TInv /\ TInv'
  BY StepTInv DEF IInv
<1>2. NoReadErrors' => NoReadErrors
  <2>1. fs' = fs
    <3>1. CASE Fetch
      BY <3>1
         DEF Fetch, FetchNothing, FetchEmpty, FetchOmitted, FetchText, FetchDefine,
             FetchInclude, FetchBadInclude, FetchEmptyInclude, FetchIfdef,
             FetchIfndef, FetchEndif, sourceVars
    <3>2. CASE UNCHANGED vars
      BY <3>2 DEF vars, sourceVars
    <3> QED
      BY <3>1, <3>2
         DEF Next, Seek, NextSource, NextPastEnd, Push, CallGet, ReturnChar,
             ReturnNul, sourceVars
  <2> QED BY <2>1 DEF NoReadErrors
<1>3. ASSUME NoReadErrors' PROVE LInv'
  <2>1. NoReadErrors /\ LInv
    BY <1>2, <1>3 DEF IInv
  <2>2. CASE UNCHANGED vars
    BY <2>1, <2>2
       DEF LInv, HeadersOK, SourceOK, ChainOK, BufferOK, LastOK, TopIs, Includes,
           vars, sourceVars, stateVars, clientVars
  <2> QED BY <1>1, <2>1, <2>2, SeekLInv, CallLInv, FetchStepLInv DEF Next
<1> QED BY <1>1, <1>3 DEF IInv

THEOREM SpecIInv == Spec => []IInv
<1>1. Init => IInv
  BY InitTInv, InitLInv DEF IInv
<1> QED BY <1>1, StepIInv, PTL DEF Spec

LEMMA IInvLocation == IInv => LocationCorrect
<1> SUFFICES ASSUME IInv, pc = "idle", last # Nul, NoReadErrors
             PROVE  file_name = last.file /\ line_no = last.no /\ col_no = last.col
  BY DEF LocationCorrect
<1>1. /\ header_stack = <<>> => source_fs.state = "open"
      /\ TopIs(header_stack, source_fs.file, source_line, last)
      /\ last.col = read_cursor
  BY DEF IInv, LInv, LastOK
<1>2. source_fs.state = "open" => /\ current_source < Len(input_source)
                                  /\ source_fs.file = input_source[current_source + 1]
  BY DEF IInv, LInv, SourceOK
<1> QED BY <1>1, <1>2 DEF TopIs, file_name, line_no, col_no

(* file_name(), line_no() and col_no() are right for every disk without    *)
(* read errors, however the headers are nested.                            *)
THEOREM LocationsCorrect == Spec => []LocationCorrect
  BY IInvLocation, SpecIInv, PTL

(* The stack is a chain of #include lines for every disk without read      *)
(* errors.                                                                 *)
THEOREM HeaderStackChained == Spec => []HeaderStackIsChain
<1>1. IInv => HeaderStackIsChain
  BY DEF IInv, LInv, ChainOK, Includes, HeaderStackIsChain
<1> QED BY <1>1, SpecIInv, PTL
LEMMA StepEof == EofOnlyWithNul /\ [Next]_vars => EofOnlyWithNul'
<1> SUFFICES ASSUME EofOnlyWithNul, [Next]_vars PROVE EofOnlyWithNul'
  OBVIOUS
<1>1. CASE Seek \/ NextSource \/ NextPastEnd
  BY <1>1 DEF Seek, NextSource, NextPastEnd, Clear, EofOnlyWithNul
<1>2. CASE Push \/ CallGet \/ ReturnChar \/ ReturnNul
  BY <1>2 DEF Push, CallGet, ReturnChar, ReturnNul, Good, EofOnlyWithNul,
              stateVars, clientVars
<1>3. CASE Fetch
  <2>1. ASSUME NEW d \in 0 .. Len(header_stack), Kept(d) PROVE pc = "get"
    BY <2>1 DEF Kept
  <2>2. pc' # "idle"
    BY <1>3, <2>1
       DEF Fetch, FetchNothing, FetchEmpty, FetchOmitted, FetchText, FetchDefine,
           FetchInclude, FetchBadInclude, FetchEmptyInclude, FetchIfdef,
           FetchIfndef, FetchEndif, Reads, ReadLine, clientVars
  <2> QED BY <2>2 DEF EofOnlyWithNul
<1>4. CASE UNCHANGED vars
  BY <1>4 DEF vars, stateVars, clientVars, EofOnlyWithNul
<1> QED BY <1>1, <1>2, <1>3, <1>4 DEF Next

(* eof_ never holds after a get() that returned a character of the source. *)
THEOREM EofWithNul == Spec => []EofOnlyWithNul
<1>1. Init => EofOnlyWithNul
  BY DEF Init, EofOnlyWithNul
<1> QED BY <1>1, StepEof, PTL DEF Spec
-----------------------------------------------------------------------------
(* Delivery.  What is left of the files being read is a chain: resuming    *)
(* each, the top one first, takes the walk from what has been reached to   *)
(* the text of the whole source.                                           *)

(* What the rest of a file that is being read makes of s. *)
Resumed(disk, is, room, s) ==
  IF is.state = "open"
  THEN LastLines(disk, FileWalk(disk)[room - 1])[Len(disk[is.file]) - is.pos][<<is.file, s>>]
  ELSE s

(* The files being read: the source and the headers above it. *)
Frame(src, stack, i) == IF i = 0 THEN src ELSE stack[i].is

(* A walk that has come to top comes to goal when it reads the rest of     *)
(* every file it is in, the top one first.                                 *)
IsChain(disk, src, stack, top, goal, S) ==
  /\ S \in [0 .. Len(stack) + 1 -> Walked(disk)]
  /\ S[0] = goal /\ S[Len(stack) + 1] = top
  /\ \A i \in 0 .. Len(stack) :
       S[i] = Resumed(disk, Frame(src, stack, i), MaxOpen - i, S[i + 1])

LeadsTo(disk, src, stack, top, goal) ==
  \E S : IsChain(disk, src, stack, top, goal, S)

(* A stream that can be read, of a file that was opened with i files below *)
(* it.                                                                     *)
FrameOK(disk, is, i) ==
  is.state = "open" =>
    is.file \in DOMAIN disk /\ is.pos \in 0 .. Len(disk[is.file]) /\ i < MaxOpen

FramesOK(disk, src, stack) ==
  \A i \in 0 .. Len(stack) : FrameOK(disk, Frame(src, stack, i), i)

AtEnd(disk, is) == is.state = "open" => is.pos = Len(disk[is.file])

(* Nothing is left of a file at its end. *)
LEMMA ResumedAtEnd ==
  ASSUME NEW disk, HasLines(disk), NEW s \in Walked(disk), NEW i \in Nat, NEW is,
         FrameOK(disk, is, i), AtEnd(disk, is)
  PROVE  Resumed(disk, is, MaxOpen - i, s) = s
<1>1. CASE is.state # "open"
  BY <1>1 DEF Resumed
<1>2. CASE is.state = "open"
  <2>1. /\ is.file \in DOMAIN disk /\ MaxOpen - i - 1 \in Nat
        /\ Len(disk[is.file]) - is.pos = 0
    BY <1>2, MaxOpenAssumption DEF FrameOK, AtEnd, HasLines
  <2>2. FileWalk(disk)[MaxOpen - i - 1] \in Walks(disk)
    BY <2>1, FileWalkEquations
  <2> QED BY <1>2, <2>1, <2>2, LastLinesEquations DEF Resumed
<1> QED BY <1>1, <1>2

(* The files at their ends can be closed. *)
LEMMA ChainPop ==
  ASSUME NEW disk, HasLines(disk), NEW src, NEW stack, NEW top, NEW goal,
         LeadsTo(disk, src, stack, top, goal), FramesOK(disk, src, stack),
         Len(stack) \in Nat, NEW d \in 0 .. Len(stack),
         \A i \in d + 1 .. Len(stack) : AtEnd(disk, stack[i].is),
         NEW kept, Len(kept) = d, \A i \in 1 .. d : kept[i].is = stack[i].is
  PROVE  LeadsTo(disk, src, kept, top, goal)
<1> DEFINE m == Len(stack)
<1>1. PICK S : IsChain(disk, src, stack, top, goal, S)
  BY DEF LeadsTo
<1>2. /\ S \in [0 .. m + 1 -> Walked(disk)] /\ S[0] = goal /\ S[m + 1] = top
      /\ \A i \in 0 .. m : S[i] = Resumed(disk, Frame(src, stack, i), MaxOpen - i, S[i + 1])
  BY <1>1 DEF IsChain
<1>3. ASSUME NEW i \in d + 1 .. m PROVE S[i] = S[i + 1]
  <2>1. /\ i \in 0 .. m /\ i \in Nat /\ i # 0 /\ S[i + 1] \in Walked(disk)
        /\ Frame(src, stack, i) = stack[i].is
    BY <1>2, SMTT(30) DEF Frame
  <2>2. FrameOK(disk, stack[i].is, i)
    BY <2>1 DEF FramesOK
  <2> QED BY <1>2, <2>1, <2>2, ResumedAtEnd
<1> DEFINE P == {j \in Nat : j <= m - d => S[m + 1 - j] = top}
<1>4. 0 \in P /\ P \subseteq Nat
  BY <1>2
<1>5. ASSUME NEW j \in P PROVE j + 1 \in P
  <2> SUFFICES ASSUME j + 1 <= m - d PROVE S[m + 1 - (j + 1)] = top
    OBVIOUS
  <2>1. /\ m - j \in d + 1 .. m /\ m + 1 - (j + 1) = m - j /\ m + 1 - j = (m - j) + 1
        /\ j <= m - d
    OBVIOUS
  <2> QED BY <1>3, <2>1
<1>6. \A j \in Nat : j \in P
  <2> HIDE DEF P
  <2> QED BY <1>4, <1>5, SetInduction
<1>7. S[d + 1] = top
  <2>1. m - d \in Nat /\ m + 1 - (m - d) = d + 1
    OBVIOUS
  <2>2. m - d \in P
    <3> HIDE DEF P
    <3> QED BY <1>6, <2>1
  <2>3. m - d <= m - d
    BY <2>1
  <2> QED BY <2>1, <2>2, <2>3
<1> DEFINE K == [i \in 0 .. d + 1 |-> S[i]]
<1>8. K \in [0 .. d + 1 -> Walked(disk)] /\ K[0] = goal /\ K[d + 1] = top
  BY <1>2, <1>7
<1>9. ASSUME NEW i \in 0 .. d
      PROVE  K[i] = Resumed(disk, Frame(src, kept, i), MaxOpen - i, K[i + 1])
  <2>1. Frame(src, kept, i) = Frame(src, stack, i)
    BY DEF Frame
  <2>2. i \in 0 .. m /\ i \in 0 .. d + 1 /\ i + 1 \in 0 .. d + 1
    OBVIOUS
  <2> QED BY <1>2, <2>1, <2>2
<1>10. IsChain(disk, src, kept, top, goal, K)
  <2> HIDE DEF K
  <2> QED BY <1>8, <1>9 DEF IsChain
<1> QED BY <1>10 DEF LeadsTo

(* Nothing changes when no stream moves. *)
LEMMA ChainStays ==
  ASSUME NEW disk, NEW src, NEW stack, NEW top, NEW goal, NEW src2, NEW stack2,
         LeadsTo(disk, src, stack, top, goal),
         Len(stack) \in Nat, Len(stack2) = Len(stack),
         \A i \in 0 .. Len(stack) :
           /\ Frame(src2, stack2, i).state = Frame(src, stack, i).state
           /\ Frame(src2, stack2, i).file = Frame(src, stack, i).file
           /\ Frame(src2, stack2, i).pos = Frame(src, stack, i).pos
  PROVE  LeadsTo(disk, src2, stack2, top, goal)
<1>1. PICK S : IsChain(disk, src, stack, top, goal, S)
  BY DEF LeadsTo
<1>2. \A s : \A i \in 0 .. Len(stack) :
        Resumed(disk, Frame(src2, stack2, i), MaxOpen - i, s) =
          Resumed(disk, Frame(src, stack, i), MaxOpen - i, s)
  BY DEF Resumed
<1>3. IsChain(disk, src2, stack2, top, goal, S)
  BY <1>1, <1>2 DEF IsChain
<1> QED BY <1>3 DEF LeadsTo

(* The top file gives its next line. *)
LEMMA ChainRead ==
  ASSUME NEW disk, HasLines(disk), NEW src, NEW stack, NEW top, NEW goal, NEW src2,
         NEW stack2, LeadsTo(disk, src, stack, top, goal), FramesOK(disk, src, stack),
         Len(stack) \in Nat, Len(stack2) = Len(stack),
         \A i \in 0 .. Len(stack) - 1 : Frame(src2, stack2, i) = Frame(src, stack, i),
         NEW is, is = Frame(src, stack, Len(stack)), is.state = "open",
         is.pos < Len(disk[is.file]),
         Frame(src2, stack2, Len(stack)).state = "open",
         Frame(src2, stack2, Len(stack)).file = is.file,
         Frame(src2, stack2, Len(stack)).pos = is.pos + 1
  PROVE  /\ AfterLine(disk, FileWalk(disk)[MaxOpen - Len(stack) - 1], is.file, is.pos + 1, top)
              \in Walked(disk)
         /\ LeadsTo(disk, src2, stack2,
              AfterLine(disk, FileWalk(disk)[MaxOpen - Len(stack) - 1], is.file, is.pos + 1, top),
              goal)
<1> DEFINE m == Len(stack)
           header == FileWalk(disk)[MaxOpen - m - 1]
           new == AfterLine(disk, header, is.file, is.pos + 1, top)
<1>1. PICK S : IsChain(disk, src, stack, top, goal, S)
  BY DEF LeadsTo
<1>2. /\ S \in [0 .. m + 1 -> Walked(disk)] /\ S[0] = goal /\ S[m + 1] = top
      /\ \A i \in 0 .. m : S[i] = Resumed(disk, Frame(src, stack, i), MaxOpen - i, S[i + 1])
  BY <1>1 DEF IsChain
<1>3. /\ is.file \in DOMAIN disk /\ is.pos \in Nat /\ MaxOpen - m - 1 \in Nat
      /\ Len(disk[is.file]) \in Nat /\ is.pos + 1 \in 1 .. Len(disk[is.file])
      /\ header \in Walks(disk) /\ top \in Walked(disk)
  <2>1. FrameOK(disk, is, m)
    BY DEF FramesOK
  <2>2. is.file \in DOMAIN disk /\ is.pos \in 0 .. Len(disk[is.file]) /\ m < MaxOpen
    BY <2>1 DEF FrameOK
  <2>3. MaxOpen - m - 1 \in Nat
    BY <2>2, MaxOpenAssumption
  <2>4. header \in Walks(disk)
    BY <2>3, FileWalkEquations
  <2>5. top \in Walked(disk)
    BY <1>2
  <2>6. Len(disk[is.file]) \in Nat
    BY <2>2 DEF HasLines
  <2> QED BY <2>2, <2>3, <2>4, <2>5, <2>6
<1> HIDE DEF header
<1>4. new \in Walked(disk)
  BY <1>3, AfterLineType
<1>5. S[m] = Resumed(disk, Frame(src2, stack2, m), MaxOpen - m, new)
  <2> DEFINE k == Len(disk[is.file]) - is.pos - 1
  <2>1. /\ k \in Nat /\ k < Len(disk[is.file]) /\ k + 1 = Len(disk[is.file]) - is.pos
        /\ Len(disk[is.file]) - k = is.pos + 1 /\ Len(disk[is.file]) - (is.pos + 1) = k
    BY <1>3
  <2> HIDE DEF k
  <2>2. S[m] = LastLines(disk, header)[k + 1][<<is.file, top>>]
    BY <1>2, <2>1 DEF Resumed, header
  <2>3. LastLines(disk, header)[k + 1][<<is.file, top>>] =
          LastLines(disk, header)[k][<<is.file, new>>]
    <3>1. LastLines(disk, header)[k + 1][<<is.file, top>>] =
            LastLines(disk, header)[k][<<is.file,
              AfterLine(disk, header, is.file, Len(disk[is.file]) - k, top)>>]
      <4>1. \A f \in DOMAIN disk, s \in Walked(disk) :
              k < Len(disk[f]) =>
                LastLines(disk, header)[k + 1][<<f, s>>] =
                  LastLines(disk, header)[k][<<f,
                    AfterLine(disk, header, f, Len(disk[f]) - k, s)>>]
        BY <1>3, <2>1, LastLinesEquations
      <4> HIDE DEF new
      <4> QED BY <1>3, <2>1, <4>1
    <3> QED BY <2>1, <3>1
  <2>4. Resumed(disk, Frame(src2, stack2, m), MaxOpen - m, new) =
          LastLines(disk, header)[k][<<is.file, new>>]
    BY <2>1 DEF Resumed, header
  <2> QED BY <2>2, <2>3, <2>4
<1> DEFINE K == [i \in 0 .. m + 1 |-> IF i = m + 1 THEN new ELSE S[i]]
<1> HIDE DEF new
<1>6. K \in [0 .. m + 1 -> Walked(disk)] /\ K[0] = goal /\ K[m + 1] = new
  BY <1>2, <1>4
<1>7. ASSUME NEW i \in 0 .. m
      PROVE  K[i] = Resumed(disk, Frame(src2, stack2, i), MaxOpen - i, K[i + 1])
  <2>1. CASE i = m
    <3>1. K[m] = S[m] /\ K[m + 1] = new
      OBVIOUS
    <3> QED BY <1>5, <2>1, <3>1
  <2>2. CASE i # m
    <3>1. i \in 0 .. m - 1 /\ K[i] = S[i] /\ K[i + 1] = S[i + 1]
      BY <2>2
    <3> QED BY <1>2, <3>1
  <2> QED BY <2>1, <2>2
<1>8. IsChain(disk, src2, stack2, new, goal, K)
  <2> HIDE DEF K
  <2> QED BY <1>6, <1>7 DEF IsChain
<1> QED BY <1>4, <1>8 DEF LeadsTo, new, header

(* The top file includes another one. *)
LEMMA ChainPush ==
  ASSUME NEW disk, NEW src, NEW stack \in Seq(Header), NEW top \in Walked(disk), NEW goal,
         NEW h \in Header,
         LeadsTo(disk, src, stack,
           Resumed(disk, h.is, MaxOpen - (Len(stack) + 1), top), goal)
  PROVE  LeadsTo(disk, src, Append(stack, h), top, goal)
<1> DEFINE m == Len(stack)
           rest == Resumed(disk, h.is, MaxOpen - (m + 1), top)
           more == Append(stack, h)
<1>1. PICK S : IsChain(disk, src, stack, rest, goal, S)
  BY DEF LeadsTo
<1> HIDE DEF rest
<1>2. /\ S \in [0 .. m + 1 -> Walked(disk)] /\ S[0] = goal /\ S[m + 1] = rest
      /\ \A i \in 0 .. m : S[i] = Resumed(disk, Frame(src, stack, i), MaxOpen - i, S[i + 1])
  BY <1>1 DEF IsChain
<1>3. m \in Nat /\ Len(more) = m + 1 /\ more[m + 1] = h /\ \A i \in 1 .. m : more[i] = stack[i]
  OBVIOUS
<1> HIDE DEF more, m
<1> DEFINE K == [i \in 0 .. m + 2 |-> IF i = m + 2 THEN top ELSE S[i]]
<1>4. K \in [0 .. m + 2 -> Walked(disk)] /\ K[0] = goal /\ K[m + 2] = top
  BY <1>2, <1>3
<1>5. ASSUME NEW i \in 0 .. m + 1
      PROVE  K[i] = Resumed(disk, Frame(src, more, i), MaxOpen - i, K[i + 1])
  <2>1. CASE i = m + 1
    <3>1. K[m + 1] = rest /\ K[i + 1] = top /\ Frame(src, more, i) = h.is
      BY <1>2, <1>3, <2>1 DEF Frame
    <3> QED BY <2>1, <3>1 DEF rest
  <2>2. CASE i # m + 1
    <3>1. i \in 0 .. m /\ K[i] = S[i] /\ K[i + 1] = S[i + 1]
      BY <1>3, <2>2
    <3>2. Frame(src, more, i) = Frame(src, stack, i)
      BY <1>3, <3>1 DEF Frame
    <3> QED BY <1>2, <3>1, <3>2
  <2> QED BY <2>1, <2>2
<1>6. IsChain(disk, src, more, top, goal, K)
  <2> HIDE DEF K
  <2>1. Len(more) + 1 = m + 2
    BY <1>3
  <2> QED BY <1>3, <1>4, <1>5, <2>1 DEF IsChain
<1> QED BY <1>6 DEF LeadsTo, more

(* The text walked so far is the beginning of the text that is wanted. *)
LEMMA ChainPrefix ==
  ASSUME NEW disk, HasLines(disk), NEW src, NEW stack, NEW top, NEW goal,
         LeadsTo(disk, src, stack, top, goal), FramesOK(disk, src, stack),
         Len(stack) \in Nat
  PROVE  /\ top \in Walked(disk) /\ goal \in Walked(disk)
         /\ IsPrefix(top.text, goal.text)
<1> DEFINE m == Len(stack)
<1>1. PICK S : IsChain(disk, src, stack, top, goal, S)
  BY DEF LeadsTo
<1>2. /\ S \in [0 .. m + 1 -> Walked(disk)] /\ S[0] = goal /\ S[m + 1] = top
      /\ \A i \in 0 .. m : S[i] = Resumed(disk, Frame(src, stack, i), MaxOpen - i, S[i + 1])
  BY <1>1 DEF IsChain
<1>3. \A i \in 0 .. m + 1 : S[i] \in Walked(disk) /\ S[i].text \in Seq(Place(disk))
  BY <1>2 DEF Walked
<1>4. ASSUME NEW i \in 0 .. m PROVE IsPrefix(S[i + 1].text, S[i].text)
  <2> DEFINE is == Frame(src, stack, i)
  <2>1. S[i] = Resumed(disk, is, MaxOpen - i, S[i + 1])
    BY <1>2
  <2>2. FrameOK(disk, is, i)
    BY DEF FramesOK
  <2> HIDE DEF is
  <2>3. CASE is.state # "open"
    BY <1>3, <2>1, <2>3, PrefixFacts DEF Resumed
  <2>4. CASE is.state = "open"
    <3> DEFINE k == Len(disk[is.file]) - is.pos
               header == FileWalk(disk)[MaxOpen - i - 1]
    <3>1. /\ is.file \in DOMAIN disk /\ MaxOpen - i - 1 \in Nat /\ k \in Nat
          /\ k <= Len(disk[is.file])
      BY <2>2, <2>4, MaxOpenAssumption DEF FrameOK, HasLines
    <3>2. header \in Walks(disk) /\ Grows(disk, header)
      BY <3>1, FileWalkEquations, FileWalkGrows
    <3>3. S[i] = LastLines(disk, header)[k][<<is.file, S[i + 1]>>]
      BY <2>1, <2>4 DEF Resumed
    <3> HIDE DEF header, k
    <3>4. S[i + 1] \in Walked(disk)
      BY <1>3
    <3> QED BY <3>1, <3>2, <3>3, <3>4, LastLinesGrow
  <2> QED BY <2>3, <2>4
<1> DEFINE P == {j \in Nat : j <= m + 1 => IsPrefix(top.text, S[m + 1 - j].text)}
<1>5. 0 \in P /\ P \subseteq Nat
  BY <1>2, <1>3, PrefixFacts
<1>6. ASSUME NEW j \in P PROVE j + 1 \in P
  <2> SUFFICES ASSUME j + 1 <= m + 1 PROVE IsPrefix(top.text, S[m + 1 - (j + 1)].text)
    OBVIOUS
  <2>1. /\ m - j \in 0 .. m /\ m + 1 - (j + 1) = m - j /\ m + 1 - j = (m - j) + 1
        /\ j <= m + 1
    OBVIOUS
  <2>2. IsPrefix(top.text, S[(m - j) + 1].text)
    BY <2>1
  <2>3. IsPrefix(S[(m - j) + 1].text, S[m - j].text)
    BY <1>4, <2>1
  <2>4. /\ top.text \in Seq(Place(disk)) /\ S[(m - j) + 1].text \in Seq(Place(disk))
        /\ S[m - j].text \in Seq(Place(disk))
    BY <1>2, <1>3, <2>1
  <2> HIDE DEF P
  <2> QED BY <2>1, <2>2, <2>3, <2>4, PrefixFacts
<1>7. \A j \in Nat : j \in P
  <2> HIDE DEF P
  <2> QED BY <1>5, <1>6, SetInduction
<1>8. IsPrefix(top.text, goal.text)
  <2>1. m + 1 \in P
    <3> HIDE DEF P
    <3> QED BY <1>7
  <2>2. m + 1 <= m + 1 /\ m + 1 - (m + 1) = 0
    OBVIOUS
  <2> QED BY <1>2, <2>1, <2>2
<1> QED BY <1>2, <1>8

(* A source that has just been opened, and one that has been read. *)
LEMMA ChainStart ==
  ASSUME NEW disk, HasLines(disk), NEW src, FrameOK(disk, src, 0),
         src.state = "open", src.pos = 0
  PROVE  LeadsTo(disk, src, <<>>, NothingWalked,
           FileWalk(disk)[MaxOpen][<<src.file, NothingWalked>>])
<1> DEFINE goal == FileWalk(disk)[MaxOpen][<<src.file, NothingWalked>>]
           S == [i \in 0 .. 1 |-> IF i = 0 THEN goal ELSE NothingWalked]
<1>1. /\ src.file \in DOMAIN disk /\ MaxOpen - 1 \in Nat /\ (MaxOpen - 1) + 1 = MaxOpen
      /\ MaxOpen \in Nat /\ Len(disk[src.file]) - src.pos = Len(disk[src.file])
      /\ MaxOpen - 0 = MaxOpen
  BY MaxOpenAssumption DEF FrameOK, HasLines
<1>2. NothingWalked \in Walked(disk)
  BY DEF NothingWalked, Walked
<1>3. goal \in Walked(disk)
  <2>1. FileWalk(disk)[MaxOpen] \in Walks(disk)
    BY <1>1, FileWalkEquations
  <2> QED BY <1>1, <1>2, <2>1 DEF Walks
<1>4. goal = LastLines(disk, FileWalk(disk)[MaxOpen - 1])[Len(disk[src.file])][<<src.file, NothingWalked>>]
  <2>1. \A room \in Nat, f \in DOMAIN disk, s \in Walked(disk) :
          FileWalk(disk)[room + 1][<<f, s>>] =
            LastLines(disk, FileWalk(disk)[room])[Len(disk[f])][<<f, s>>]
    BY FileWalkEquations
  <2> QED BY <1>1, <1>2, <2>1, ZenonT(60)
<1>5. goal = Resumed(disk, src, MaxOpen - 0, NothingWalked)
  BY <1>1, <1>4 DEF Resumed
<1> HIDE DEF goal
<1>6. IsChain(disk, src, <<>>, NothingWalked, goal, S)
  <2>1. Len(<<>>) = 0
    OBVIOUS
  <2>2. S \in [0 .. 1 -> Walked(disk)] /\ S[0] = goal /\ S[1] = NothingWalked
    BY <1>2, <1>3
  <2> HIDE DEF S
  <2> QED BY <1>5, <2>1, <2>2 DEF IsChain, Frame
<1> QED BY <1>6 DEF LeadsTo, goal

(* When every file is at its end, the walk is over. *)
LEMMA ChainEnd ==
  ASSUME NEW disk, HasLines(disk), NEW src, NEW top, NEW goal, FrameOK(disk, src, 0),
         AtEnd(disk, src), LeadsTo(disk, src, <<>>, top, goal)
  PROVE  top = goal
<1>1. PICK S : IsChain(disk, src, <<>>, top, goal, S)
  BY DEF LeadsTo
<1>2. /\ S[1] = top /\ S[0] = goal /\ S[1] \in Walked(disk)
      /\ S[0] = Resumed(disk, src, MaxOpen - 0, S[1])
  <2>1. Len(<<>>) = 0
    OBVIOUS
  <2> QED BY <1>1, <2>1 DEF IsChain, Frame
<1>3. S[0] = S[1]
  BY <1>2, ResumedAtEnd
<1> QED BY <1>2, <1>3
-----------------------------------------------------------------------------
(* The third invariant: what get() has returned, the rest of the line in   *)
(* the buffer, and the rest of the files that are open make up the text of *)
(* the source, until a condition is false, and the beginning of it after.  *)

(* The characters of the buffer that get() will return. *)
Buffered ==
  IF status = "OK" /\ pc # "crashed" /\ read_cursor < write_cursor
  THEN [c \in 1 .. write_cursor - read_cursor |->
          [file |-> buf.file, no |-> buf.no, col |-> read_cursor + c]]
  ELSE <<>>

Reached == out \o Buffered

(* A stream that is not good has come to the end of its file, and only the *)
(* header at the top can be one that could not be opened.                  *)
StreamsOK(src, stack) ==
  /\ FramesOK(fs, src, stack)
  /\ \A i \in 0 .. Len(stack) :
       Frame(src, stack, i).bits # {} => AtEnd(fs, Frame(src, stack, i))
  /\ \A i \in 1 .. Len(stack) - 1 : stack[i].is.state = "open"

Goal == FileWalk(fs)[MaxOpen][<<source_fs.file, NothingWalked>>]

(* The walk has come to t. *)
AtWalk(t) ==
  /\ LeadsTo(fs, source_fs, header_stack, t, Goal)
  /\ t.text = Reached /\ t.macros = macro_table /\ ~Skipping(t)

DInv ==
  source_fs.state = "open" =>
    /\ StreamsOK(source_fs, header_stack)
    /\ Reached \in Seq(Place(fs)) /\ IsPrefix(Reached, Goal.text)
    /\ ~in_omit_mode /\ status = "OK" /\ pc # "crashed" => \E t : AtWalk(t)
    /\ eof /\ ~in_omit_mode => out = Goal.text

(* What is on disk is sequences of lines. *)
LEMMA FilesHaveLines == ASSUME fs \in FileSystems PROVE HasLines(fs)
<1> SUFFICES ASSUME NEW f \in DOMAIN fs
             PROVE  /\ Len(fs[f]) \in Nat /\ DOMAIN fs[f] = 1 .. Len(fs[f])
                    /\ \A n \in 1 .. Len(fs[f]) :
                         fs[f][n].len \in Nat /\ fs[f][n].nl \in BOOLEAN
  BY DEF HasLines
<1>1. fs[f] \in Seq(Line)
  BY FileFacts
<1>2. \A n \in 1 .. Len(fs[f]) : fs[f][n] \in Line
  BY <1>1
<1>3. \A l \in Line : l.len \in Nat /\ l.nl \in BOOLEAN
  BY DEF Line
<1> QED BY <1>1, <1>2, <1>3

(* A stream that has something to give, and what it is after a line. *)
LEMMA GetlineEnds ==
  ASSUME fs \in FileSystems, NoReadErrors,
         NEW is, StreamOK(fs, is), "bad" \notin is.bits, ~Eof(is)
  PROVE  /\ is.state = "open" /\ is.file \in DOMAIN fs /\ is.pos \in Nat
         /\ is.pos <= Len(fs[is.file]) /\ Len(fs[is.file]) \in Nat
         /\ AfterGetline(is).state = "open" /\ AfterGetline(is).file = is.file
         /\ HasLine(is) => /\ is.pos < Len(fs[is.file])
                           /\ AfterGetline(is).pos = is.pos + 1
         /\ ~HasLine(is) => AfterGetline(is).pos = is.pos
         /\ AfterGetline(is).bits # {} => AtEnd(fs, AfterGetline(is))
<1>1. /\ is.state = "open" /\ is.file \in DOMAIN fs /\ is \in Stream
      /\ is.pos \in Nat /\ is.pos <= Len(fs[is.file])
      /\ AfterGetline(is).state = "open" /\ AfterGetline(is).file = is.file
      /\ HasLine(is) => AfterGetline(is).pos = is.pos + 1
                        /\ is.pos + 1 \in 1 .. Len(fs[is.file])
  BY GetlineLemma DEF StreamOK, Stream
<1>2. is.bits = {}
  BY <1>1, CleanGetline DEF GoodStream
<1>3. /\ Len(fs[is.file]) \in Nat
      /\ \A i \in 1 .. Len(fs[is.file]) : i < Len(fs[is.file]) => fs[is.file][i].nl
  BY <1>1, FileSystemsAssumption DEF WellFormed
<1>4. CASE HasLine(is)
  <2>1. is.pos # Len(fs[is.file])
    BY <1>1, <1>3, <1>4
  <2> DEFINE b == IF fs[is.file][is.pos + 1].nl THEN {} ELSE {"eof"}
  <2>2. AfterGetline(is) = [is EXCEPT !.pos = @ + 1, !.bits = b]
    BY <1>2, <1>4, <2>1 DEF AfterGetline, GoodStream
  <2>3. b # {} => is.pos + 1 = Len(fs[is.file])
    BY <1>1, <1>3, <1>4
  <2> HIDE DEF b
  <2>4. AfterGetline(is).bits = b
    BY <1>1, <2>2 DEF Stream
  <2> QED BY <1>1, <1>3, <1>4, <2>3, <2>4 DEF AtEnd
<1>5. CASE ~HasLine(is)
  <2>1. is.pos = Len(fs[is.file])
    BY <1>1, <1>2, <1>3, <1>5 DEF HasLine, GoodStream, NoReadErrors
  <2>2. AfterGetline(is) = [is EXCEPT !.bits = {"eof", "fail"}]
    BY <1>2, <2>1 DEF AfterGetline, GoodStream
  <2>3. AfterGetline(is).pos = is.pos
    BY <1>1, <2>2 DEF Stream
  <2> QED BY <1>1, <1>3, <1>5, <2>1, <2>3 DEF AtEnd
<1> QED BY <1>4, <1>5

(* The headers ReadLine keeps and the ones it removes. *)
LEMMA KeptFrames ==
  ASSUME TInv, LInv, NoReadErrors, StreamsOK(source_fs, header_stack),
         NEW d \in 0 .. Len(header_stack), Kept(d)
  PROVE  /\ d > 0 => /\ ~Eof(header_stack[d].is) /\ FromHeader(d) /\ ~BadTop(d)
                     /\ header_stack[d].is.state = "open"
         /\ ~BadTop(d)
         /\ \A i \in d + 1 .. Len(header_stack) : AtEnd(fs, header_stack[i].is)
         /\ Chosen(d) = Frame(source_fs, header_stack, d)
<1>1. /\ fs \in FileSystems /\ header_stack \in Seq(Header) /\ d \in Nat
      /\ Len(header_stack) \in Nat
      /\ d > 0 => d \in 1 .. Len(header_stack)
      /\ \A i \in 1 .. Len(header_stack) : /\ StreamOK(fs, header_stack[i].is)
                                           /\ "bad" \notin header_stack[i].is.bits
  BY DEF TInv, TypeOK, LInv, HeadersOK
<1>2. ASSUME d > 0
      PROVE  /\ ~Eof(header_stack[d].is) /\ FromHeader(d) /\ ~BadTop(d)
             /\ header_stack[d].is.state = "open"
  <2>1. ~Bad(header_stack[d].is)
    BY DEF Bad, Fail
  <2>2. ~Eof(header_stack[d].is)
    BY <1>2, <2>1 DEF Kept
  <2>3. GoodStream(header_stack[d].is) /\ header_stack[d].is.state = "open"
    BY <1>1, <1>2, <2>2, CleanGetline, GetlineLemma
  <2> QED BY <1>2, <2>1, <2>2, <2>3 DEF FromHeader, BadTop
<1>3. ASSUME NEW i \in d + 1 .. Len(header_stack) PROVE AtEnd(fs, header_stack[i].is)
  <2>1. /\ i \in 1 .. Len(header_stack) /\ i \in 0 .. Len(header_stack) /\ i # 0
        /\ Eof(header_stack[i].is)
    BY <1>1 DEF Kept
  <2>2. header_stack[i].is.bits # {} => AtEnd(fs, header_stack[i].is)
    BY <2>1 DEF StreamsOK, Frame
  <2>3. header_stack[i].is.state = "open" => header_stack[i].is.bits # {}
    BY <2>1 DEF Eof, Fail
  <2> QED BY <2>2, <2>3 DEF AtEnd
<1>4. ~BadTop(d)
  BY <1>2 DEF BadTop
<1>5. Chosen(d) = Frame(source_fs, header_stack, d)
  BY <1>1, <1>2 DEF Chosen, FromHeader, Frame
<1> QED BY <1>2, <1>3, <1>4, <1>5

(* The streams when ReadLine has read a line, or found no more. *)
LEMMA ReadStreams ==
  ASSUME TInv, LInv, NoReadErrors, source_fs.state = "open",
         StreamsOK(source_fs, header_stack),
         NEW d \in 0 .. Len(header_stack), ReadLine(d)
  PROVE  /\ StreamsOK(source_fs', Counted(d)) /\ Len(Counted(d)) = d
         /\ Counted(d) \in Seq(Header)
         /\ \A i \in 1 .. d : Counted(d)[i].is.state = "open"
         /\ source_fs'.state = "open" /\ source_fs'.file = source_fs.file
         /\ \A i \in 0 .. d - 1 : Frame(source_fs', Counted(d), i) =
                                    Frame(source_fs, header_stack, i)
         /\ Frame(source_fs', Counted(d), d) = AfterGetline(Chosen(d))
         /\ Chosen(d) = Frame(source_fs, header_stack, d)
         /\ StreamOK(fs, Chosen(d)) /\ "bad" \notin Chosen(d).bits /\ ~Eof(Chosen(d))
         /\ d < MaxOpen
<1>1. /\ fs \in FileSystems /\ header_stack \in Seq(Header) /\ d \in Nat
      /\ Len(header_stack) \in Nat
      /\ d > 0 => d \in 1 .. Len(header_stack)
      /\ StreamOK(fs, source_fs)
      /\ HeadersOK(header_stack) /\ SourceOK
  BY DEF TInv, TypeOK, LInv
<1>2. Kept(d)
  BY DEF ReadLine
<1>3. /\ d > 0 => FromHeader(d)
      /\ Chosen(d) = Frame(source_fs, header_stack, d)
  BY <1>2, KeptFrames
<1>4. /\ Counted(d) \in Seq(Header) /\ Len(Counted(d)) = d
      /\ \A i \in 1 .. d : StreamOK(fs, Counted(d)[i].is)
      /\ \A i \in 1 .. d : i < d => Counted(d)[i] = header_stack[i]
      /\ d > 0 => Counted(d)[d].is = AfterGetline(header_stack[d].is)
  BY <1>3, CountedLemma
<1>5. StreamOK(fs, Chosen(d)) /\ ~Eof(Chosen(d))
  BY ReadLineLemma DEF ReadLine
<1>6. "bad" \notin Chosen(d).bits
  BY <1>1, <1>3 DEF HeadersOK, SourceOK, Frame
<1>7. /\ Chosen(d).state = "open" /\ Chosen(d).file \in DOMAIN fs /\ Chosen(d).pos \in Nat
      /\ Chosen(d).pos <= Len(fs[Chosen(d).file]) /\ Len(fs[Chosen(d).file]) \in Nat
      /\ AfterGetline(Chosen(d)).state = "open"
      /\ AfterGetline(Chosen(d)).file = Chosen(d).file
      /\ HasLine(Chosen(d)) => /\ Chosen(d).pos < Len(fs[Chosen(d).file])
                               /\ AfterGetline(Chosen(d)).pos = Chosen(d).pos + 1
      /\ ~HasLine(Chosen(d)) => AfterGetline(Chosen(d)).pos = Chosen(d).pos
      /\ AfterGetline(Chosen(d)).bits # {} => AtEnd(fs, AfterGetline(Chosen(d)))
  BY <1>1, <1>5, <1>6, GetlineEnds
<1>8. source_fs' = IF d = 0 THEN AfterGetline(source_fs) ELSE source_fs
  BY <1>3 DEF ReadLine, FromHeader
<1>9. source_fs'.state = "open" /\ source_fs'.file = source_fs.file
  BY <1>3, <1>7, <1>8 DEF Frame
<1>10. \A i \in 0 .. d - 1 : Frame(source_fs', Counted(d), i) =
                               Frame(source_fs, header_stack, i)
  BY <1>1, <1>4, <1>8 DEF Frame
<1>11. Frame(source_fs', Counted(d), d) = AfterGetline(Chosen(d))
  BY <1>1, <1>3, <1>4, <1>8 DEF Frame
<1>12. FrameOK(fs, Chosen(d), d)
  BY <1>3 DEF StreamsOK, FramesOK
<1>13. StreamsOK(source_fs', Counted(d)) /\ \A i \in 1 .. d : Counted(d)[i].is.state = "open"
  <2>1. ASSUME NEW i \in 0 .. d
        PROVE  /\ FrameOK(fs, Frame(source_fs', Counted(d), i), i)
               /\ Frame(source_fs', Counted(d), i).bits # {} =>
                    AtEnd(fs, Frame(source_fs', Counted(d), i))
               /\ Frame(source_fs', Counted(d), i).state = "open"
    <3>1. CASE i = d
      <4>1. FrameOK(fs, AfterGetline(Chosen(d)), d)
        <5>1. d < MaxOpen
          BY <1>7, <1>12 DEF FrameOK
        <5>2. AfterGetline(Chosen(d)).pos \in 0 .. Len(fs[Chosen(d).file])
          BY <1>7
        <5> QED BY <1>7, <5>1, <5>2 DEF FrameOK
      <4> QED BY <1>7, <1>11, <3>1, <4>1
    <3>2. CASE i # d
      <4>1. i \in 0 .. d - 1 /\ i \in 0 .. Len(header_stack)
        BY <1>1, <3>2
      <4>2. Frame(source_fs, header_stack, i).state = "open"
        BY <1>1, <4>1 DEF StreamsOK, Frame
      <4> QED BY <1>10, <4>1, <4>2 DEF StreamsOK, FramesOK
    <3> QED BY <3>1, <3>2
  <2>2. ASSUME NEW i \in 1 .. d PROVE Counted(d)[i].is.state = "open"
    <3>1. i \in 0 .. d /\ Frame(source_fs', Counted(d), i) = Counted(d)[i].is
      BY <1>1 DEF Frame
    <3> QED BY <2>1, <3>1
  <2> QED BY <1>1, <1>4, <2>1, <2>2 DEF StreamsOK, FramesOK
<1>14. d < MaxOpen
  BY <1>7, <1>12 DEF FrameOK
<1> QED BY <1>3, <1>4, <1>5, <1>6, <1>9, <1>10, <1>11, <1>13, <1>14

(* What a line that was read makes of the walk. *)
NextWalk(d, t) ==
  AfterLine(fs, FileWalk(fs)[MaxOpen - d - 1], Chosen(d).file, Chosen(d).pos + 1, t)

(* Once ReadLine has read a line, the walk goes on behind that line. *)
LEMMA ReadChain ==
  ASSUME TInv, LInv, NoReadErrors, source_fs.state = "open",
         StreamsOK(source_fs, header_stack),
         NEW d \in 0 .. Len(header_stack), ReadLine(d), NEW t, NEW goal,
         LeadsTo(fs, source_fs, header_stack, t, goal)
  PROVE  /\ HasLine(Chosen(d)) =>
              /\ NextWalk(d, t) \in Walked(fs)
              /\ LeadsTo(fs, source_fs', Counted(d), NextWalk(d, t), goal)
         /\ ~HasLine(Chosen(d)) => LeadsTo(fs, source_fs', Counted(d), t, goal)
<1>1. /\ StreamsOK(source_fs', Counted(d)) /\ Len(Counted(d)) = d
      /\ \A i \in 0 .. d - 1 : Frame(source_fs', Counted(d), i) =
                                 Frame(source_fs, header_stack, i)
      /\ Frame(source_fs', Counted(d), d) = AfterGetline(Chosen(d))
      /\ Chosen(d) = Frame(source_fs, header_stack, d)
      /\ StreamOK(fs, Chosen(d)) /\ "bad" \notin Chosen(d).bits /\ ~Eof(Chosen(d))
  BY ReadStreams
<1>2. /\ fs \in FileSystems /\ header_stack \in Seq(Header) /\ d \in Nat
      /\ Len(header_stack) \in Nat /\ HasLines(fs)
  BY FilesHaveLines DEF TInv, TypeOK
<1>3. /\ Chosen(d).state = "open" /\ Chosen(d).file \in DOMAIN fs /\ Chosen(d).pos \in Nat
      /\ AfterGetline(Chosen(d)).state = "open"
      /\ AfterGetline(Chosen(d)).file = Chosen(d).file
      /\ HasLine(Chosen(d)) => /\ Chosen(d).pos < Len(fs[Chosen(d).file])
                               /\ AfterGetline(Chosen(d)).pos = Chosen(d).pos + 1
      /\ ~HasLine(Chosen(d)) => AfterGetline(Chosen(d)).pos = Chosen(d).pos
  BY <1>1, <1>2, GetlineEnds
<1> DEFINE kept == SubSeq(header_stack, 1, d)
<1>4. Len(kept) = d /\ \A i \in 1 .. d : kept[i] = header_stack[i]
  BY <1>2
<1> HIDE DEF kept
<1>5. LeadsTo(fs, source_fs, kept, t, goal)
  <2>1. \A i \in d + 1 .. Len(header_stack) : AtEnd(fs, header_stack[i].is)
    BY KeptFrames DEF ReadLine
  <2>2. FramesOK(fs, source_fs, header_stack)
    BY DEF StreamsOK
  <2> QED BY <1>2, <1>4, <2>1, <2>2, ChainPop
<1>6. \A i \in 0 .. d : Frame(source_fs, kept, i) = Frame(source_fs, header_stack, i)
  BY <1>2, <1>4 DEF Frame
<1>7. FramesOK(fs, source_fs, kept)
  BY <1>2, <1>4, <1>6 DEF StreamsOK, FramesOK
<1>8. \A i \in 0 .. d - 1 : Frame(source_fs', Counted(d), i) = Frame(source_fs, kept, i)
  BY <1>1, <1>2, <1>6
<1>9. Chosen(d) = Frame(source_fs, kept, d)
  BY <1>1, <1>2, <1>6
<1>10. CASE HasLine(Chosen(d))
  <2>1. /\ NextWalk(d, t) \in Walked(fs)
        /\ LeadsTo(fs, source_fs', Counted(d), NextWalk(d, t), goal)
    BY <1>1, <1>2, <1>3, <1>4, <1>5, <1>7, <1>8, <1>9, <1>10, ChainRead DEF NextWalk
  <2> QED BY <1>10, <2>1
<1>11. CASE ~HasLine(Chosen(d))
  <2>1. ASSUME NEW i \in 0 .. d
        PROVE  /\ Frame(source_fs', Counted(d), i).state = Frame(source_fs, kept, i).state
               /\ Frame(source_fs', Counted(d), i).file = Frame(source_fs, kept, i).file
               /\ Frame(source_fs', Counted(d), i).pos = Frame(source_fs, kept, i).pos
    <3>1. CASE i = d
      BY <1>1, <1>3, <1>9, <1>11, <3>1
    <3>2. CASE i # d
      BY <1>2, <1>8, <3>2
    <3> QED BY <3>1, <3>2
  <2>2. LeadsTo(fs, source_fs', Counted(d), t, goal)
    BY <1>1, <1>2, <1>4, <1>5, <2>1, ChainStays
  <2> QED BY <1>11, <2>2
<1> QED BY <1>10, <1>11

(* What each kind of line makes of a walk that leaves nothing out. *)
LEMMA NextWalkOf ==
  ASSUME NEW d, NEW t \in Walked(fs), ~Skipping(t)
  PROVE  /\ ThisLine(d).kind = "text" =>
              /\ NextWalk(d, t).text =
                   t.text \o LineText(Chosen(d).file, Chosen(d).pos + 1, ThisLine(d))
              /\ NextWalk(d, t).macros = t.macros /\ ~Skipping(NextWalk(d, t))
         /\ ThisLine(d).kind = "define" =>
              /\ NextWalk(d, t).text = t.text
              /\ NextWalk(d, t).macros = t.macros \cup {ThisLine(d).arg}
              /\ ~Skipping(NextWalk(d, t))
         /\ ThisLine(d).kind = "endif" =>
              /\ NextWalk(d, t).text = t.text /\ NextWalk(d, t).macros = t.macros
              /\ ~Skipping(NextWalk(d, t))
         /\ ThisLine(d).kind = "ifdef" =>
              /\ NextWalk(d, t).text = t.text /\ NextWalk(d, t).macros = t.macros
              /\ Skipping(NextWalk(d, t)) <=> ThisLine(d).arg \notin t.macros
         /\ ThisLine(d).kind = "ifndef" =>
              /\ NextWalk(d, t).text = t.text /\ NextWalk(d, t).macros = t.macros
              /\ Skipping(NextWalk(d, t)) <=> ThisLine(d).arg \in t.macros
         /\ ThisLine(d).kind = "include" =>
              NextWalk(d, t) = IF ThisLine(d).arg \in DOMAIN fs
                               THEN FileWalk(fs)[MaxOpen - d - 1][<<ThisLine(d).arg, t>>]
                               ELSE t
         /\ ThisLine(d).kind \in {"include_bad", "include_empty"} => NextWalk(d, t) = t
<1> DEFINE line == ThisLine(d)
           u == NextWalk(d, t)
<1>1. t.text \in Seq(Place(fs)) /\ t.groups \in Seq(BOOLEAN)
      /\ \A i \in 1 .. Len(t.groups) : t.groups[i]
  BY DEF Walked, Skipping
<1>2. \A c \in BOOLEAN : /\ InGroup(t, c).text = t.text /\ InGroup(t, c).macros = t.macros
                         /\ Skipping(InGroup(t, c)) <=> ~c
  <2> SUFFICES ASSUME NEW c \in BOOLEAN
               PROVE  /\ InGroup(t, c).text = t.text /\ InGroup(t, c).macros = t.macros
                      /\ Skipping(InGroup(t, c)) <=> ~c
    OBVIOUS
  <2>1. /\ InGroup(t, c).text = t.text /\ InGroup(t, c).macros = t.macros
        /\ InGroup(t, c).groups = Append(t.groups, c)
    BY DEF InGroup, Walked
  <2>2. (\E i \in 1 .. Len(Append(t.groups, c)) : ~Append(t.groups, c)[i]) <=> ~c
    BY <1>1
  <2> QED BY <2>1, <2>2 DEF Skipping
<1>3. /\ EndGroup(t).text = t.text /\ EndGroup(t).macros = t.macros
      /\ ~Skipping(EndGroup(t))
  <2>1. CASE t.groups = <<>>
    BY <2>1 DEF EndGroup
  <2>2. CASE t.groups # <<>>
    <3> DEFINE g == SubSeq(t.groups, 1, Len(t.groups) - 1)
    <3>1. \A i \in 1 .. Len(g) : g[i]
      BY <1>1, <2>2
    <3> HIDE DEF g
    <3>2. EndGroup(t) = [t EXCEPT !.groups = g]
      BY <2>2 DEF EndGroup, g
    <3>3. /\ EndGroup(t).text = t.text /\ EndGroup(t).macros = t.macros
          /\ EndGroup(t).groups = g
      BY <3>2 DEF Walked
    <3> QED BY <3>1, <3>3 DEF Skipping
  <2> QED BY <2>1, <2>2
<1>4. u = CASE line.kind = "endif" -> EndGroup(t)
            [] line.kind = "ifdef" -> InGroup(t, line.arg \in t.macros)
            [] line.kind = "ifndef" -> InGroup(t, line.arg \notin t.macros)
            [] line.kind = "define" /\ ~Skipping(t) ->
                 [t EXCEPT !.macros = @ \cup {line.arg}]
            [] line.kind = "include" /\ ~Skipping(t) /\ line.arg \in DOMAIN fs ->
                 FileWalk(fs)[MaxOpen - d - 1][<<line.arg, t>>]
            [] line.kind = "text" /\ ~Skipping(t) ->
                 [t EXCEPT !.text = @ \o LineText(Chosen(d).file, Chosen(d).pos + 1, line)]
            [] OTHER -> t
  BY DEF NextWalk, AfterLine, ThisLine
<1> HIDE DEF u, line
<1>5. CASE line.kind = "text"
  <2>1. u = [t EXCEPT !.text = @ \o LineText(Chosen(d).file, Chosen(d).pos + 1, line)]
    BY <1>4, <1>5
  <2>2. /\ u.text = t.text \o LineText(Chosen(d).file, Chosen(d).pos + 1, line)
        /\ u.macros = t.macros /\ u.groups = t.groups
    BY <2>1 DEF Walked
  <2> QED BY <1>5, <2>2 DEF Skipping, u, line
<1>6. CASE line.kind = "define"
  <2>1. u = [t EXCEPT !.macros = @ \cup {line.arg}]
    BY <1>4, <1>6
  <2>2. u.text = t.text /\ u.macros = t.macros \cup {line.arg} /\ u.groups = t.groups
    BY <2>1 DEF Walked
  <2> QED BY <1>6, <2>2 DEF Skipping, u, line
<1>7. CASE line.kind = "endif"
  <2>1. u = EndGroup(t)
    BY <1>4, <1>7
  <2> QED BY <1>3, <1>7, <2>1 DEF u, line
<1>8. CASE line.kind = "ifdef"
  <2>1. u = InGroup(t, line.arg \in t.macros)
    BY <1>4, <1>8
  <2>2. (line.arg \in t.macros) \in BOOLEAN
    OBVIOUS
  <2>3. /\ u.text = t.text /\ u.macros = t.macros
        /\ Skipping(u) <=> ~(line.arg \in t.macros)
    BY <1>2, <2>1, <2>2, Zenon
  <2> QED BY <1>8, <2>3 DEF u, line
<1>9. CASE line.kind = "ifndef"
  <2>1. u = InGroup(t, line.arg \notin t.macros)
    BY <1>4, <1>9
  <2>2. (line.arg \notin t.macros) \in BOOLEAN
    OBVIOUS
  <2>3. /\ u.text = t.text /\ u.macros = t.macros
        /\ Skipping(u) <=> ~(line.arg \notin t.macros)
    BY <1>2, <2>1, <2>2, Zenon
  <2> QED BY <1>9, <2>3 DEF u, line
<1>10. CASE line.kind = "include"
  <2>1. u = IF line.arg \in DOMAIN fs
            THEN FileWalk(fs)[MaxOpen - d - 1][<<line.arg, t>>] ELSE t
    BY <1>4, <1>10
  <2> QED BY <1>10, <2>1 DEF u, line
<1>11. CASE line.kind \in {"include_bad", "include_empty"}
  <2>1. u = t
    BY <1>4, <1>11
  <2> QED BY <1>11, <2>1 DEF u, line
<1> QED BY <1>5, <1>6, <1>7, <1>8, <1>9, <1>10, <1>11 DEF line

(* The invariant holds again when the walk has come to u. *)
LEMMA WalkDInv ==
  ASSUME HasLines(fs), UNCHANGED fs, UNCHANGED eof, ~eof,
         source_fs'.state = "open", source_fs'.file = source_fs.file,
         header_stack' \in Seq(Header), StreamsOK(source_fs', header_stack'),
         NEW u, LeadsTo(fs, source_fs', header_stack', u, Goal), u.text = Reached',
         ~in_omit_mode' /\ status' = "OK" /\ pc' # "crashed" =>
           u.macros = macro_table' /\ ~Skipping(u)
  PROVE  DInv'
<1>1. Goal' = Goal
  BY DEF Goal
<1>2. FramesOK(fs, source_fs', header_stack') /\ Len(header_stack') \in Nat
  BY DEF StreamsOK
<1>3. /\ u \in Walked(fs) /\ IsPrefix(u.text, Goal.text)
  BY <1>2, ChainPrefix
<1>4. u.text \in Seq(Place(fs))
  BY <1>3 DEF Walked
<1>5. StreamsOK(source_fs, header_stack)'
  BY DEF StreamsOK, FramesOK, FrameOK, AtEnd, Frame
<1>6. ~in_omit_mode' /\ status' = "OK" /\ pc' # "crashed" => AtWalk(u)'
  BY <1>1 DEF AtWalk
<1> QED BY <1>1, <1>3, <1>4, <1>5, <1>6 DEF DInv

(* With an empty buffer, what has been reached is what was returned. *)
LEMMA NothingBuffered ==
  ASSUME TypeOK
  PROVE  read_cursor >= write_cursor \/ status # "OK" \/ pc = "crashed" => Reached = out
<1>1. read_cursor \in Nat /\ write_cursor \in Nat
  BY DEF TypeOK
<1>2. out \o <<>> = out
  <2>1. \E S : out \in Seq(S)
    BY DEF TypeOK
  <2> QED BY <2>1
<1>3. read_cursor >= write_cursor \/ status # "OK" \/ pc = "crashed" => Buffered = <<>>
  BY <1>1 DEF Buffered
<1> QED BY <1>2, <1>3 DEF Reached

(* The steps of get()'s loop begin with an empty buffer. *)
LEMMA FetchBegins ==
  ASSUME TInv, DInv, NEW d \in 0 .. Len(header_stack), Kept(d), source_fs.state = "open"
  PROVE  /\ Reached = out /\ pc = "get" /\ status = "OK" /\ ~eof /\ HasLines(fs)
         /\ StreamsOK(source_fs, header_stack)
         /\ Reached \in Seq(Place(fs)) /\ IsPrefix(Reached, Goal.text)
         /\ ~in_omit_mode => \E t : AtWalk(t)
<1>1. pc = "get" /\ status = "OK" /\ ~eof /\ read_cursor >= write_cursor
  BY DEF Kept, Good
<1>2. Reached = out /\ HasLines(fs)
  BY <1>1, NothingBuffered, FilesHaveLines DEF TInv
<1> QED BY <1>1, <1>2 DEF DInv

(* No stream has anything left: the walk is over. *)
LEMMA FetchNothingDInv ==
  ASSUME TInv, LInv, NoReadErrors, DInv, NEW d \in 0 .. Len(header_stack),
         FetchNothing(d), source_fs.state = "open"
  PROVE  DInv'
<1>1. /\ Kept(d)
      /\ BadTop(d) \/ Eof(Chosen(d)) \/ Bad(Chosen(d))
      /\ eof' /\ header_stack' = SubSeq(header_stack, 1, d)
      /\ read_cursor' = 0 /\ write_cursor' = 0
      /\ fs' = fs /\ source_fs' = source_fs /\ in_omit_mode' = in_omit_mode
      /\ macro_table' = macro_table /\ pc' = pc /\ out' = out
      /\ status' = IF BadTop(d) \/ ~Eof(Chosen(d)) THEN "IOError" ELSE status
  BY DEF FetchNothing, sourceVars, clientVars
<1>2. /\ Reached = out /\ pc = "get" /\ status = "OK" /\ HasLines(fs)
      /\ StreamsOK(source_fs, header_stack)
      /\ Reached \in Seq(Place(fs)) /\ IsPrefix(Reached, Goal.text)
      /\ ~in_omit_mode => \E t : AtWalk(t)
  BY <1>1, FetchBegins
<1>3. /\ header_stack \in Seq(Header) /\ Len(header_stack) \in Nat /\ d \in Nat
      /\ "bad" \notin source_fs.bits /\ out \in Seq(Place(fs))
  BY <1>2 DEF TInv, TypeOK, LInv, SourceOK
<1>4. /\ d > 0 => ~Eof(header_stack[d].is) /\ FromHeader(d)
      /\ ~BadTop(d)
      /\ \A i \in d + 1 .. Len(header_stack) : AtEnd(fs, header_stack[i].is)
      /\ Chosen(d) = Frame(source_fs, header_stack, d)
  BY <1>1, <1>2, KeptFrames
<1>5. d = 0 /\ Chosen(d) = source_fs /\ Eof(source_fs)
  <2>1. d > 0 => Chosen(d) = header_stack[d].is /\ ~Bad(header_stack[d].is)
    BY <1>3, <1>4 DEF Frame, BadTop
  <2>2. d = 0
    BY <1>1, <1>3, <1>4, <2>1
  <2>3. Chosen(d) = source_fs /\ ~Bad(source_fs)
    BY <1>3, <1>4, <2>2 DEF Frame, Bad
  <2> QED BY <1>1, <1>4, <2>2, <2>3
<1>6. header_stack' = <<>>
  BY <1>1, <1>3, <1>5
<1>7. AtEnd(fs, source_fs) /\ FrameOK(fs, source_fs, 0)
  <2>1. source_fs.bits # {}
    BY <1>5 DEF Eof, Fail
  <2>2. Frame(source_fs, header_stack, 0) = source_fs /\ 0 \in 0 .. Len(header_stack)
    BY <1>3 DEF Frame
  <2> QED BY <1>2, <2>1, <2>2 DEF StreamsOK, FramesOK
<1>8. StreamsOK(source_fs, header_stack)'
  <2>1. Len(<<>>) = 0 /\ 0 .. 0 = {0} /\ \A i \in 1 .. 0 - 1 : FALSE
    OBVIOUS
  <2>2. Frame(source_fs, <<>>, 0) = source_fs
    BY DEF Frame
  <2>3. \A i \in 0 .. Len(<<>>) :
           FrameOK(fs, Frame(source_fs, <<>>, i), i) /\ AtEnd(fs, Frame(source_fs, <<>>, i))
    BY <1>7, <2>1, <2>2
  <2>4. StreamsOK(source_fs, <<>>)
    BY <2>1, <2>3 DEF StreamsOK, FramesOK
  <2> QED BY <1>1, <1>6, <2>4 DEF StreamsOK, FramesOK, FrameOK, AtEnd, Frame
<1>9. Reached' = out /\ Goal' = Goal /\ Place(fs)' = Place(fs)
  <2>1. Reached' = out \o <<>>
    BY <1>1 DEF Reached, Buffered
  <2> QED BY <1>1, <1>3, <2>1 DEF Goal
<1>10. ASSUME ~in_omit_mode
       PROVE  \E t : AtWalk(t) /\ LeadsTo(fs, source_fs, <<>>, t, Goal) /\ out = Goal.text
  <2>1. PICK t : AtWalk(t)
    BY <1>2, <1>10
  <2>2. LeadsTo(fs, source_fs, <<>>, t, Goal)
    <3>1. Len(<<>>) = d /\ d \in 0 .. Len(header_stack) /\ \A i \in 1 .. d : FALSE
      BY <1>5
    <3>2. FramesOK(fs, source_fs, header_stack) /\ LeadsTo(fs, source_fs, header_stack, t, Goal)
      BY <1>2, <2>1 DEF StreamsOK, AtWalk
    <3> QED BY <1>2, <1>3, <1>4, <3>1, <3>2, ChainPop
  <2>3. t = Goal
    BY <1>2, <1>7, <2>2, ChainEnd
  <2> QED BY <1>2, <2>1, <2>2, <2>3 DEF AtWalk
<1>11. ~in_omit_mode => \E t : AtWalk(t)'
  <2> SUFFICES ASSUME ~in_omit_mode PROVE \E t : AtWalk(t)'
    OBVIOUS
  <2>1. PICK t : AtWalk(t) /\ LeadsTo(fs, source_fs, <<>>, t, Goal)
    BY <1>10
  <2>2. AtWalk(t)'
    BY <1>1, <1>2, <1>6, <1>9, <2>1 DEF AtWalk
  <2> QED BY <2>2
<1> QED BY <1>1, <1>2, <1>8, <1>9, <1>10, <1>11 DEF DInv

(* Reading at the end of a file, and reading what is left out. *)
LEMMA FetchIdleDInv ==
  ASSUME TInv, LInv, NoReadErrors, DInv, NEW d \in 0 .. Len(header_stack),
         FetchEmpty(d) \/ FetchOmitted(d), source_fs.state = "open", TypeOK'
  PROVE  DInv'
<1>1. /\ ReadLine(d) /\ Kept(d)
      /\ header_stack' = Counted(d) /\ read_cursor' >= write_cursor'
      /\ fs' = fs /\ in_omit_mode' = in_omit_mode /\ status' = status /\ eof' = eof
      /\ macro_table' = macro_table /\ pc' = pc /\ out' = out
      /\ FetchEmpty(d) => ~HasLine(Chosen(d))
      /\ FetchOmitted(d) => in_omit_mode
  BY DEF FetchEmpty, FetchOmitted, Consume, sourceVars, clientVars, ReadLine, TypeOK
<1>2. /\ Reached = out /\ pc = "get" /\ status = "OK" /\ ~eof /\ HasLines(fs)
      /\ StreamsOK(source_fs, header_stack)
      /\ Reached \in Seq(Place(fs)) /\ IsPrefix(Reached, Goal.text)
      /\ ~in_omit_mode => \E t : AtWalk(t)
  BY <1>1, FetchBegins
<1>3. /\ StreamsOK(source_fs', Counted(d)) /\ Counted(d) \in Seq(Header)
      /\ source_fs'.state = "open" /\ source_fs'.file = source_fs.file
  BY <1>1, <1>2, ReadStreams
<1>4. Reached' = out
  <2>1. Buffered' = <<>>
    <3>1. write_cursor' \in Nat /\ read_cursor' \in 0 .. write_cursor'
      BY DEF TypeOK
    <3>2. ~(read_cursor' < write_cursor')
      BY <1>1, <3>1
    <3> QED BY <3>2 DEF Buffered
  <2>2. out \o <<>> = out
    BY <1>2
  <2> QED BY <1>1, <2>1, <2>2 DEF Reached
<1>5. CASE ~in_omit_mode
  <2>1. PICK t : AtWalk(t)
    BY <1>2, <1>5
  <2>2. LeadsTo(fs, source_fs', Counted(d), t, Goal)
    BY <1>1, <1>2, <1>5, <2>1, ReadChain DEF AtWalk
  <2>3. t.text = Reached' /\ t.macros = macro_table' /\ ~Skipping(t)
    BY <1>1, <1>2, <1>4, <2>1 DEF AtWalk
  <2> QED BY <1>1, <1>2, <1>3, <2>2, <2>3, WalkDInv
<1>6. CASE in_omit_mode
  <2>1. Goal' = Goal /\ Place(fs)' = Place(fs)
    BY <1>1, <1>3 DEF Goal
  <2>2. StreamsOK(source_fs, header_stack)'
    BY <1>1, <1>3 DEF StreamsOK, FramesOK, FrameOK, AtEnd, Frame
  <2> QED BY <1>1, <1>2, <1>4, <1>6, <2>1, <2>2 DEF DInv
<1> QED BY <1>5, <1>6

(* A line that was read, of any kind but #include. *)
LEMMA FetchLineDInv ==
  ASSUME TInv, LInv, NoReadErrors, DInv, NEW d \in 0 .. Len(header_stack),
         \/ FetchText(d) \/ FetchDefine(d) \/ FetchBadInclude(d) \/ FetchEmptyInclude(d)
         \/ FetchIfdef(d) \/ FetchIfndef(d) \/ FetchEndif(d),
         source_fs.state = "open", TypeOK'
  PROVE  DInv'
<1> DEFINE line == ThisLine(d)
           k == line.kind
<1>1. /\ ReadLine(d) /\ Kept(d) /\ HasLine(Chosen(d)) /\ ~in_omit_mode
      /\ header_stack' = Counted(d) /\ write_cursor' = ThisWidth(d)
      /\ fs' = fs /\ eof' = eof /\ out' = out
      /\ buf' = [file |-> Chosen(d).file, no |-> Chosen(d).pos + 1]
  BY DEF FetchText, FetchDefine, FetchBadInclude, FetchEmptyInclude, FetchIfdef,
         FetchIfndef, FetchEndif, Reads, ReadLine, sourceVars, clientVars
<1>2. /\ Reached = out /\ pc = "get" /\ status = "OK" /\ ~eof /\ HasLines(fs)
      /\ StreamsOK(source_fs, header_stack) /\ Reached \in Seq(Place(fs))
      /\ \E t : AtWalk(t)
  BY <1>1, FetchBegins
<1>3. /\ StreamsOK(source_fs', Counted(d)) /\ Counted(d) \in Seq(Header)
      /\ source_fs'.state = "open" /\ source_fs'.file = source_fs.file
      /\ StreamOK(fs, Chosen(d)) /\ "bad" \notin Chosen(d).bits /\ ~Eof(Chosen(d))
  BY <1>1, <1>2, ReadStreams
<1>4. write_cursor' \in Nat /\ read_cursor' \in 0 .. write_cursor' /\ out \o <<>> = out
  BY <1>2 DEF TypeOK
<1>5. PICK t : AtWalk(t)
  BY <1>2
<1>6. t \in Walked(fs) /\ t.text = out /\ t.macros = macro_table /\ ~Skipping(t)
  <2>1. FramesOK(fs, source_fs, header_stack) /\ Len(header_stack) \in Nat
    BY <1>2 DEF StreamsOK, TInv, TypeOK
  <2>2. LeadsTo(fs, source_fs, header_stack, t, Goal)
    BY <1>5 DEF AtWalk
  <2>3. t \in Walked(fs)
    BY <1>2, <2>1, <2>2, ChainPrefix
  <2> QED BY <1>2, <1>5, <2>3 DEF AtWalk
<1> DEFINE u == NextWalk(d, t)
<1>7. LeadsTo(fs, source_fs', Counted(d), u, Goal)
  BY <1>1, <1>2, <1>5, ReadChain DEF AtWalk
<1>8. /\ k = "text" =>
           /\ u.text = t.text \o LineText(Chosen(d).file, Chosen(d).pos + 1, line)
           /\ u.macros = t.macros /\ ~Skipping(u)
      /\ k = "define" => /\ u.text = t.text /\ u.macros = t.macros \cup {line.arg}
                         /\ ~Skipping(u)
      /\ k = "endif" => u.text = t.text /\ u.macros = t.macros /\ ~Skipping(u)
      /\ k = "ifdef" => /\ u.text = t.text /\ u.macros = t.macros
                        /\ Skipping(u) <=> line.arg \notin t.macros
      /\ k = "ifndef" => /\ u.text = t.text /\ u.macros = t.macros
                         /\ Skipping(u) <=> line.arg \in t.macros
      /\ k \in {"include_bad", "include_empty"} => u = t
  BY <1>6, NextWalkOf
<1> HIDE DEF u, line
<1>9. read_cursor' >= write_cursor' \/ status' # "OK" \/ pc' = "crashed" => Reached' = out
  <2>1. read_cursor' >= write_cursor' => ~(read_cursor' < write_cursor')
    BY <1>4
  <2>2. read_cursor' >= write_cursor' \/ status' # "OK" \/ pc' = "crashed" => Buffered' = <<>>
    BY <2>1 DEF Buffered
  <2> QED BY <1>1, <1>4, <2>2 DEF Reached
<1>10. ASSUME u.text = Reached',
              ~in_omit_mode' /\ status' = "OK" /\ pc' # "crashed" =>
                u.macros = macro_table' /\ ~Skipping(u)
       PROVE  DInv'
  BY <1>1, <1>2, <1>3, <1>7, <1>10, WalkDInv
<1>11. CASE FetchText(d)
  <2>1. /\ k = "text" /\ read_cursor' = 0 /\ macro_table' = macro_table /\ status' = status
        /\ pc' = pc
    BY <1>11 DEF FetchText, Reads, clientVars, line
  <2>2. LineText(Chosen(d).file, Chosen(d).pos + 1, line) = Buffered'
    <3> DEFINE w == ThisWidth(d)
    <3>1. LineText(Chosen(d).file, Chosen(d).pos + 1, line) =
            [c \in 1 .. w |-> [file |-> Chosen(d).file, no |-> Chosen(d).pos + 1, col |-> c]]
      BY DEF LineText, ThisWidth, line
    <3>2. w \in Nat /\ write_cursor' = w /\ w - 0 = w /\ \A c \in 1 .. w : 0 + c = c
      BY <1>1, <1>4
    <3> HIDE DEF w
    <3>3. CASE w > 0
      <4>1. Buffered' = [c \in 1 .. w - 0 |-> [file |-> buf'.file, no |-> buf'.no, col |-> 0 + c]]
        BY <1>2, <2>1, <3>2, <3>3 DEF Buffered
      <4>2. buf'.file = Chosen(d).file /\ buf'.no = Chosen(d).pos + 1
        BY <1>1
      <4> QED BY <3>1, <3>2, <4>1, <4>2
    <3>4. CASE w = 0
      <4>1. Buffered' = <<>>
        BY <2>1, <3>2, <3>4 DEF Buffered
      <4>2. Chosen(d).file \in DOMAIN fs /\ Chosen(d).pos + 1 \in 1 .. Len(fs[Chosen(d).file])
        BY <1>1, <1>2, <1>3, GetlineLemma DEF TInv
      <4>3. /\ LineText(Chosen(d).file, Chosen(d).pos + 1, line) \in Seq(Place(fs))
            /\ Len(LineText(Chosen(d).file, Chosen(d).pos + 1, line)) = w
        BY <1>2, <4>2, LineTextType DEF line, ThisLine, w, ThisWidth
      <4> QED BY <3>4, <4>1, <4>3
    <3> QED BY <3>2, <3>3, <3>4
  <2>3. u.text = Reached'
    BY <1>1, <1>6, <1>8, <2>1, <2>2 DEF Reached
  <2> QED BY <1>6, <1>8, <1>10, <2>1, <2>3
<1>12. CASE FetchDefine(d)
  <2>1. /\ k = "define" /\ read_cursor' = write_cursor'
        /\ macro_table' = macro_table \cup {line.arg}
    BY <1>12 DEF FetchDefine, Reads, Consume, line
  <2> QED BY <1>4, <1>6, <1>8, <1>9, <1>10, <2>1
<1>13. CASE FetchBadInclude(d) \/ FetchEmptyInclude(d)
  <2>1. k \in {"include_bad", "include_empty"} /\ (status' # "OK" \/ pc' = "crashed")
    BY <1>13 DEF FetchBadInclude, FetchEmptyInclude, Reads, line
  <2> QED BY <1>6, <1>8, <1>9, <1>10, <2>1
<1>14. CASE FetchIfdef(d)
  <2>1. /\ k = "ifdef" /\ read_cursor' = write_cursor' /\ macro_table' = macro_table
        /\ ~in_omit_mode' <=> line.arg \in macro_table
    BY <1>14 DEF FetchIfdef, Reads, Consume, line
  <2> QED BY <1>4, <1>6, <1>8, <1>9, <1>10, <2>1
<1>15. CASE FetchIfndef(d)
  <2>1. /\ k = "ifndef" /\ read_cursor' = write_cursor' /\ macro_table' = macro_table
        /\ ~in_omit_mode' <=> line.arg \notin macro_table
    BY <1>15 DEF FetchIfndef, Reads, Consume, line
  <2> QED BY <1>4, <1>6, <1>8, <1>9, <1>10, <2>1
<1>16. CASE FetchEndif(d)
  <2>1. /\ k = "endif" /\ read_cursor' = write_cursor' /\ macro_table' = macro_table
    BY <1>16 DEF FetchEndif, Reads, Consume, line
  <2> QED BY <1>4, <1>6, <1>8, <1>9, <1>10, <2>1
<1> QED BY <1>11, <1>12, <1>13, <1>14, <1>15, <1>16

(* As many files are open as are being read. *)
LEMMA OpenCounted ==
  ASSUME NEW stack \in Seq(Header), NEW is, is.state = "open",
         \A i \in 1 .. Len(stack) : stack[i].is.state = "open"
  PROVE  OpenCount(stack, is) = Len(stack) + 1
<1>1. {i \in 1 .. Len(stack) : stack[i].is.state = "open"} = 1 .. Len(stack)
  OBVIOUS
<1>2. Cardinality(1 .. Len(stack)) = Len(stack)
  <2>1. Len(stack) \in Nat /\ 1 \in Int /\ Len(stack) \in Int
    OBVIOUS
  <2>2. Cardinality(1 .. Len(stack)) = IF 1 > Len(stack) THEN 0 ELSE Len(stack) - 1 + 1
    BY <2>1, FS_Interval
  <2> QED BY <2>1, <2>2
<1> QED BY <1>1, <1>2 DEF OpenCount

(* A line that includes a header. *)
LEMMA FetchIncludeDInv ==
  ASSUME TInv, LInv, NoReadErrors, DInv, NEW d \in 0 .. Len(header_stack),
         FetchInclude(d), source_fs.state = "open", TypeOK'
  PROVE  DInv'
<1> DEFINE line == ThisLine(d)
           is == Fopen(line.arg, d + 1)
           h == [name |-> line.arg, line |-> 0, is |-> is]
<1>1. /\ ReadLine(d) /\ Kept(d) /\ HasLine(Chosen(d)) /\ ~in_omit_mode
      /\ line.kind = "include" /\ read_cursor' = write_cursor' /\ write_cursor' = ThisWidth(d)
      /\ fs' = fs /\ eof' = eof /\ out' = out /\ macro_table' = macro_table
      /\ status' = status /\ pc' = pc
      /\ header_stack' =
           Append(Counted(d),
                  [name |-> line.arg, line |-> 0,
                   is |-> Fopen(line.arg, OpenCount(Counted(d), source_fs'))])
  BY DEF FetchInclude, Reads, ReadLine, sourceVars, clientVars, Consume
<1>2. /\ Reached = out /\ pc = "get" /\ status = "OK" /\ ~eof /\ HasLines(fs)
      /\ StreamsOK(source_fs, header_stack) /\ Reached \in Seq(Place(fs))
      /\ \E t : AtWalk(t)
  BY <1>1, FetchBegins
<1>3. /\ StreamsOK(source_fs', Counted(d)) /\ Counted(d) \in Seq(Header)
      /\ Len(Counted(d)) = d
      /\ \A i \in 1 .. d : Counted(d)[i].is.state = "open"
      /\ source_fs'.state = "open" /\ source_fs'.file = source_fs.file
      /\ d < MaxOpen
  BY <1>1, <1>2, ReadStreams
<1>4. OpenCount(Counted(d), source_fs') = d + 1
  BY <1>3, OpenCounted
<1>5. fs \in FileSystems /\ line.arg \in Files /\ d \in Nat
  BY <1>1, ReadLineLemma, SMTT(30) DEF TInv, TypeOK
<1>6. header_stack' = Append(Counted(d), h)
  BY <1>1, <1>4
<1>7. StreamOK(fs, is) /\ is.file = line.arg /\ is.pos = 0 /\ is \in Stream
  BY <1>5, FopenLemma DEF StreamOK
<1>8. /\ is.state = IF line.arg \in DOMAIN fs /\ d + 1 < MaxOpen THEN "open" ELSE "missing"
      /\ is.state = "open" => is.bits = {}
  BY DEF Fopen, Missing
<1>9. h \in Header /\ h.is = is
  BY <1>5, <1>7 DEF Header
<1> HIDE DEF is, h
<1>10. PICK t : AtWalk(t)
  BY <1>2
<1>11. t \in Walked(fs) /\ t.text = out /\ t.macros = macro_table /\ ~Skipping(t)
  <2>1. FramesOK(fs, source_fs, header_stack) /\ Len(header_stack) \in Nat
    BY <1>2 DEF StreamsOK, TInv, TypeOK
  <2>2. LeadsTo(fs, source_fs, header_stack, t, Goal)
    BY <1>10 DEF AtWalk
  <2>3. t \in Walked(fs)
    BY <1>2, <2>1, <2>2, ChainPrefix
  <2> QED BY <1>2, <1>10, <2>3 DEF AtWalk
<1>12. LeadsTo(fs, source_fs', Counted(d), NextWalk(d, t), Goal)
  BY <1>1, <1>2, <1>10, ReadChain DEF AtWalk
<1>13. NextWalk(d, t) = IF line.arg \in DOMAIN fs
                        THEN FileWalk(fs)[MaxOpen - d - 1][<<line.arg, t>>] ELSE t
  BY <1>1, <1>11, NextWalkOf
<1>14. NextWalk(d, t) = Resumed(fs, is, MaxOpen - (d + 1), t)
  <2>1. /\ \A f \in DOMAIN fs, s \in Walked(fs) : FileWalk(fs)[0][<<f, s>>] = s
        /\ \A room \in Nat, f \in DOMAIN fs, s \in Walked(fs) :
              FileWalk(fs)[room + 1][<<f, s>>] =
                LastLines(fs, FileWalk(fs)[room])[Len(fs[f])][<<f, s>>]
    BY <1>2, FileWalkEquations
  <2>2. CASE line.arg \in DOMAIN fs /\ d + 1 < MaxOpen
    <3>1. /\ MaxOpen - d - 2 \in Nat /\ (MaxOpen - d - 2) + 1 = MaxOpen - d - 1
          /\ MaxOpen - (d + 1) - 1 = MaxOpen - d - 2
          /\ Len(fs[line.arg]) - 0 = Len(fs[line.arg])
      BY <1>2, <1>5, <2>2, MaxOpenAssumption DEF HasLines
    <3>2. Resumed(fs, is, MaxOpen - (d + 1), t) =
            LastLines(fs, FileWalk(fs)[MaxOpen - d - 2])[Len(fs[line.arg])][<<line.arg, t>>]
      BY <1>7, <1>8, <2>2, <3>1 DEF Resumed
    <3>3. NextWalk(d, t) = FileWalk(fs)[(MaxOpen - d - 2) + 1][<<line.arg, t>>]
      BY <1>13, <2>2, <3>1
    <3> QED BY <1>11, <2>1, <2>2, <3>1, <3>2, <3>3
  <2>3. CASE line.arg \in DOMAIN fs /\ ~(d + 1 < MaxOpen)
    <3>1. MaxOpen - d - 1 = 0
      BY <1>3, <1>5, <2>3, MaxOpenAssumption
    <3>2. NextWalk(d, t) = t
      BY <1>11, <1>13, <2>1, <2>3, <3>1
    <3> QED BY <1>8, <2>3, <3>2 DEF Resumed
  <2>4. CASE line.arg \notin DOMAIN fs
    BY <1>8, <1>13, <2>4 DEF Resumed
  <2> QED BY <2>2, <2>3, <2>4
<1>15. LeadsTo(fs, source_fs', header_stack', t, Goal)
  BY <1>3, <1>6, <1>9, <1>11, <1>12, <1>14, ChainPush
<1>16. StreamsOK(source_fs', header_stack') /\ header_stack' \in Seq(Header)
  <2> DEFINE stack == Append(Counted(d), h)
  <2>1. /\ stack \in Seq(Header) /\ Len(stack) = d + 1 /\ stack[d + 1] = h
        /\ \A i \in 1 .. d : stack[i] = Counted(d)[i]
    BY <1>3, <1>9
  <2> HIDE DEF stack
  <2>2. \A i \in 0 .. d : Frame(source_fs', stack, i) = Frame(source_fs', Counted(d), i)
    BY <2>1 DEF Frame
  <2>3. Frame(source_fs', stack, d + 1) = is
    BY <1>5, <1>9, <2>1 DEF Frame
  <2>4. FrameOK(fs, is, d + 1) /\ (is.bits # {} => AtEnd(fs, is))
    <3>1. is.state = "open" => /\ is.file \in DOMAIN fs /\ d + 1 < MaxOpen
                               /\ Len(fs[is.file]) \in Nat
      BY <1>2, <1>7, <1>8 DEF HasLines
    <3> QED BY <1>7, <1>8, <3>1 DEF FrameOK, AtEnd
  <2>5. ASSUME NEW i \in 0 .. d + 1
        PROVE  /\ FrameOK(fs, Frame(source_fs', stack, i), i)
               /\ Frame(source_fs', stack, i).bits # {} => AtEnd(fs, Frame(source_fs', stack, i))
    <3>1. CASE i = d + 1
      BY <2>3, <2>4, <3>1
    <3>2. CASE i # d + 1
      <4>1. i \in 0 .. d
        BY <1>5, <3>2
      <4> QED BY <1>3, <2>2, <4>1 DEF StreamsOK, FramesOK
    <3> QED BY <3>1, <3>2
  <2>6. \A i \in 1 .. (d + 1) - 1 : stack[i].is.state = "open"
    BY <1>3, <1>5, <2>1
  <2>7. StreamsOK(source_fs', stack)
    BY <2>1, <2>5, <2>6 DEF StreamsOK, FramesOK
  <2> QED BY <1>6, <2>1, <2>7 DEF stack
<1>17. Reached' = out
  <2>1. write_cursor' \in Nat /\ out \o <<>> = out
    BY <1>2 DEF TypeOK
  <2>2. Buffered' = <<>>
    BY <1>1, <2>1 DEF Buffered
  <2> QED BY <1>1, <2>1, <2>2 DEF Reached
<1> QED BY <1>1, <1>2, <1>3, <1>11, <1>15, <1>16, <1>17, WalkDInv

(* A step that leaves the streams and what has been reached as they are.   *)
LEMMA SameDInv ==
  ASSUME DInv, UNCHANGED <<fs, source_fs, header_stack, macro_table, in_omit_mode, status, eof>>,
         Reached' = Reached, pc' = "crashed" <=> pc = "crashed",
         eof => out' = out
  PROVE  DInv'
<1> SUFFICES ASSUME source_fs.state = "open"
             PROVE  /\ StreamsOK(source_fs, header_stack)'
                    /\ (Reached \in Seq(Place(fs)) /\ IsPrefix(Reached, Goal.text))'
                    /\ ~in_omit_mode' /\ status' = "OK" /\ pc' # "crashed" =>
                         \E t : AtWalk(t)'
                    /\ eof' /\ ~in_omit_mode' => out' = Goal.text'
  BY DEF DInv
<1>1. Goal' = Goal
  BY DEF Goal
<1>2. StreamsOK(source_fs, header_stack)'
  BY DEF DInv, StreamsOK, FramesOK, FrameOK, AtEnd, Frame
<1>3. \A t : AtWalk(t) => AtWalk(t)'
  BY <1>1 DEF AtWalk
<1> QED BY <1>1, <1>2, <1>3 DEF DInv

(* The first element of a sequence moves to the end of the one before it. *)
LEMMA MoveFirst ==
  ASSUME NEW S, NEW a \in Seq(S), NEW b \in Seq(S), NEW c \in Seq(S), b # <<>>,
         Len(c) = Len(b) - 1, \A i \in 1 .. Len(c) : c[i] = b[i + 1]
  PROVE  Append(a, b[1]) \o c = a \o b
<1> DEFINE more == Append(a, b[1])
<1>1. /\ Len(a) \in Nat /\ Len(b) \in Nat /\ Len(b) > 0
      /\ more \in Seq(S) /\ Len(more) = Len(a) + 1
      /\ \A i \in 1 .. Len(a) : more[i] = a[i]
      /\ more[Len(a) + 1] = b[1]
  OBVIOUS
<1> HIDE DEF more
<1>2. /\ more \o c \in Seq(S) /\ a \o b \in Seq(S)
      /\ Len(more \o c) = Len(a) + Len(b) /\ Len(a \o b) = Len(a) + Len(b)
  <2>1. \A x, y \in Seq(S) : x \o y \in Seq(S) /\ Len(x \o y) = Len(x) + Len(y)
    OBVIOUS
  <2>2. /\ more \o c \in Seq(S) /\ Len(more \o c) = Len(more) + Len(c)
        /\ a \o b \in Seq(S) /\ Len(a \o b) = Len(a) + Len(b)
    <3> SUFFICES more \in Seq(S) BY <2>1
    <3> QED BY <1>1
  <2>3. (Len(a) + 1) + (Len(b) - 1) = Len(a) + Len(b)
    BY <1>1
  <2> QED BY <1>1, <2>2, <2>3
<1>3. ASSUME NEW i \in 1 .. Len(a) + Len(b) PROVE (more \o c)[i] = (a \o b)[i]
  <2>1. CASE i <= Len(a)
    <3>1. (more \o c)[i] = more[i]
      BY <1>1, <2>1
    <3>2. (a \o b)[i] = a[i]
      BY <1>1, <2>1
    <3> QED BY <1>1, <2>1, <3>1, <3>2
  <2>2. CASE i = Len(a) + 1
    <3>1. (more \o c)[i] = more[i]
      BY <1>1, <2>2
    <3>2. (a \o b)[i] = b[1]
      BY <1>1, <2>2
    <3> QED BY <1>1, <2>2, <3>1, <3>2
  <2>3. CASE i > Len(a) + 1
    <3>1. (more \o c)[i] = c[i - (Len(a) + 1)]
      BY <1>1, <2>3
    <3>2. (a \o b)[i] = b[i - Len(a)]
      BY <1>1, <2>3
    <3>3. i - (Len(a) + 1) \in 1 .. Len(c) /\ (i - (Len(a) + 1)) + 1 = i - Len(a)
      BY <1>1, <2>3
    <3> QED BY <3>1, <3>2, <3>3
  <2> QED BY <1>1, <2>1, <2>2, <2>3
<1>4. more \o c = a \o b
  BY <1>1, <1>2, <1>3, SMTT(30)
<1> QED BY <1>4 DEF more

(* Calls and their returns move characters from the buffer to out. *)
LEMMA CallDInv ==
  ASSUME TInv, DInv, Push \/ CallGet \/ ReturnChar \/ ReturnNul
  PROVE  DInv'
<1>1. CASE Push \/ CallGet \/ ReturnNul
  <2>1. /\ UNCHANGED <<fs, source_fs, header_stack, macro_table, in_omit_mode, status, eof>>
        /\ pc' = "crashed" <=> pc = "crashed"
        /\ out' = out /\ read_cursor' = read_cursor /\ write_cursor' = write_cursor
        /\ buf' = buf
    BY <1>1 DEF Push, CallGet, ReturnNul, sourceVars, stateVars, clientVars
  <2>2. Reached' = Reached
    BY <2>1 DEF Reached, Buffered
  <2> QED BY <2>1, <2>2, SameDInv
<1>2. CASE ReturnChar
  <2> DEFINE char(c) == [file |-> buf.file, no |-> buf.no, col |-> c]
             k == write_cursor - read_cursor
             B == [c \in 1 .. k |-> char(read_cursor + c)]
             D == [c \in 1 .. k - 1 |-> char((read_cursor + 1) + c)]
  <2>1. /\ UNCHANGED <<fs, source_fs, header_stack, macro_table, in_omit_mode, status, eof>>
        /\ pc = "get" /\ pc' = "idle" /\ status = "OK" /\ ~eof
        /\ read_cursor < write_cursor /\ read_cursor' = read_cursor + 1
        /\ write_cursor' = write_cursor /\ buf' = buf
        /\ out' = Append(out, char(read_cursor + 1))
    BY <1>2 DEF ReturnChar, Good, sourceVars, stateVars
  <2>2. read_cursor \in Nat /\ write_cursor \in Nat /\ k \in Nat /\ k > 0
        /\ k - 1 = write_cursor - (read_cursor + 1)
    BY <2>1 DEF TInv, TypeOK
  <2> DEFINE S == [file : Files \cup {"unknown_file"}, no : Nat, col : Nat]
  <2>3. out \in Seq(S) /\ \A c \in Nat : char(c) \in S
    BY DEF TInv, TypeOK
  <2>4. B \in Seq(S) /\ Len(B) = k /\ \A c \in 1 .. k : B[c] = char(read_cursor + c)
    <3>1. B \in [1 .. k -> S]
      BY <2>2, <2>3
    <3> QED BY <2>2, <3>1
  <2>5. D \in Seq(S) /\ Len(D) = k - 1
        /\ \A c \in 1 .. k - 1 : D[c] = char((read_cursor + 1) + c)
    <3>1. k - 1 \in Nat /\ \A c \in 1 .. k - 1 : (read_cursor + 1) + c \in Nat
      BY <2>2
    <3> HIDE DEF S, char, k
    <3>2. D \in [1 .. k - 1 -> S]
      BY <2>3, <3>1
    <3> QED BY <3>1, <3>2
  <2>6. Buffered = B
    BY <2>1 DEF Buffered
  <2>7. Buffered' = D
    <3>1. CASE read_cursor + 1 < write_cursor
      BY <2>1, <2>2, <3>1 DEF Buffered
    <3>2. CASE ~(read_cursor + 1 < write_cursor)
      <4>1. Buffered' = <<>> /\ k - 1 = 0
        BY <2>1, <2>2, <3>2 DEF Buffered
      <4> HIDE DEF D, k
      <4> QED BY <2>5, <4>1
    <3> QED BY <3>1, <3>2
  <2>8. Append(out, char(read_cursor + 1)) \o D = out \o B
    <3>1. /\ 1 \in 1 .. k
          /\ \A i \in 1 .. k - 1 : /\ i + 1 \in 1 .. k
                                   /\ (read_cursor + 1) + i = read_cursor + (i + 1)
      BY <2>2
    <3> HIDE DEF S, char, B, D, k
    <3>2. B # <<>> /\ B[1] = char(read_cursor + 1) /\ Len(D) = Len(B) - 1
      BY <2>2, <2>4, <2>5, <3>1
    <3>3. \A i \in 1 .. Len(D) : D[i] = B[i + 1]
      BY <2>4, <2>5, <3>1
    <3>4. Append(out, B[1]) \o D = out \o B
      BY <2>3, <2>4, <2>5, <3>2, <3>3, MoveFirst
    <3> QED BY <3>2, <3>4
  <2>9. Reached' = Reached
    <3> HIDE DEF B, D
    <3> QED BY <2>1, <2>6, <2>7, <2>8 DEF Reached
  <2> QED BY <2>1, <2>9, SameDInv
<1> QED BY <1>1, <1>2

(* A source that has been opened. *)
LEMMA SeekDInv ==
  ASSUME TInv, Seek \/ NextSource \/ NextPastEnd
  PROVE  DInv'
<1> SUFFICES ASSUME source_fs'.state = "open" PROVE DInv'
  BY DEF DInv
<1>1. ~NextPastEnd
  BY DEF NextPastEnd, Missing
<1>2. PICK f \in Files : source_fs' = Fopen(f, OpenCount(<<>>, source_fs))
  <2>1. \A i \in 1 .. Len(input_source) : input_source[i] \in Files
    BY DEF TInv, TypeOK
  <2>2. CASE Seek
    <3>1. current_source + 1 \in 1 .. Len(input_source)
      BY <2>2 DEF Seek, TInv, TypeOK
    <3> QED BY <2>1, <2>2, <3>1 DEF Seek
  <2>3. CASE NextSource
    <3>1. current_source' + 1 \in 1 .. Len(input_source)
      BY <2>3 DEF NextSource, TInv, TypeOK
    <3> QED BY <2>1, <2>3, <3>1 DEF NextSource
  <2> QED BY <1>1, <2>2, <2>3
<1>3. /\ AtBoundary /\ Clear /\ out' = <<>> /\ fs' = fs /\ pc' = pc
      /\ UNCHANGED <<read_cursor, write_cursor>>
  BY <1>1 DEF Seek, NextSource, sourceVars
<1>4. fs \in FileSystems /\ HasLines(fs)
  BY FilesHaveLines DEF TInv
<1>5. OpenCount(<<>>, source_fs) \in Nat
  <2>1. {i \in 1 .. Len(<<>>) : <<>>[i].is.state = "open"} = {}
    OBVIOUS
  <2>2. Cardinality({}) = 0
    BY FS_EmptySet
  <2> QED BY <2>1, <2>2 DEF OpenCount
<1>6. /\ source_fs'.file = f /\ source_fs'.pos = 0 /\ source_fs'.bits = {}
      /\ f \in DOMAIN fs /\ 0 < MaxOpen
  BY <1>2, <1>5, MaxOpenAssumption DEF Fopen, Missing
<1>7. FrameOK(fs, source_fs', 0)
  BY <1>4, <1>6 DEF FrameOK, HasLines
<1>8. StreamsOK(source_fs', <<>>)
  <2>1. Len(<<>>) = 0 /\ \A i \in 0 .. 0 : i = 0
    OBVIOUS
  <2>2. Frame(source_fs', <<>>, 0) = source_fs'
    BY DEF Frame
  <2> QED BY <1>6, <1>7, <2>1, <2>2 DEF StreamsOK, FramesOK
<1>9. LeadsTo(fs, source_fs', <<>>, NothingWalked, Goal')
  BY <1>3, <1>4, <1>6, <1>7, ChainStart DEF Goal
<1>10. Reached' = <<>>
  <2>1. ~(read_cursor' < write_cursor')
    BY <1>3 DEF AtBoundary, TInv, TypeOK
  <2> QED BY <1>3, <2>1 DEF Reached, Buffered
<1>11. /\ NothingWalked.text = <<>> /\ NothingWalked.macros = {} /\ ~Skipping(NothingWalked)
  BY DEF NothingWalked, Skipping
<1>12. AtWalk(NothingWalked)'
  BY <1>3, <1>9, <1>10, <1>11 DEF AtWalk, Clear
<1>13. IsPrefix(<<>>, Goal.text')
  <2>1. FramesOK(fs, source_fs', <<>>) /\ Len(<<>>) \in Nat
    BY <1>8 DEF StreamsOK
  <2> QED BY <1>4, <1>9, <1>11, <2>1, ChainPrefix
<1>14. StreamsOK(source_fs, header_stack)'
  BY <1>3, <1>8 DEF Clear, StreamsOK, FramesOK, FrameOK, AtEnd, Frame
<1> QED BY <1>3, <1>10, <1>12, <1>13, <1>14 DEF DInv, Clear

(* One step of get()'s loop. *)
LEMMA FetchDInv == ASSUME TInv, LInv, NoReadErrors, DInv, Fetch, TInv' PROVE DInv'
<1>1. PICK d \in 0 .. Len(header_stack) :
         \/ FetchNothing(d)    \/ FetchEmpty(d)        \/ FetchOmitted(d)
         \/ FetchText(d)       \/ FetchDefine(d)       \/ FetchInclude(d)
         \/ FetchBadInclude(d) \/ FetchEmptyInclude(d) \/ FetchIfdef(d)
         \/ FetchIfndef(d)     \/ FetchEndif(d)
  BY DEF Fetch
<1> SUFFICES ASSUME source_fs'.state = "open" PROVE DInv'
  BY DEF DInv
<1>2. source_fs.state = "open"
  <2>1. CASE FetchNothing(d)
    BY <2>1 DEF FetchNothing
  <2>2. CASE ~FetchNothing(d)
    <3>1. ReadLine(d)
      BY <1>1, <2>2
         DEF FetchEmpty, FetchOmitted, FetchText, FetchDefine, FetchInclude,
             FetchBadInclude, FetchEmptyInclude, FetchIfdef, FetchIfndef, FetchEndif, Reads
    <3>2. Chosen(d).state = "open"
      BY <3>1, ReadLineLemma
    <3> QED BY <3>1, <3>2 DEF ReadLine, Chosen
  <2> QED BY <2>1, <2>2
<1>3. TypeOK'
  BY DEF TInv
<1> QED
  BY <1>1, <1>2, <1>3, FetchNothingDInv, FetchIdleDInv, FetchLineDInv, FetchIncludeDInv

(* Every step keeps DInv on a disk without read errors. *)
LEMMA StepDInv ==
  ASSUME IInv, NoReadErrors => DInv, [Next]_vars
  PROVE  NoReadErrors' => DInv'
<1> SUFFICES ASSUME NoReadErrors' PROVE DInv'
  OBVIOUS
<1>1. TInv /\ TInv'
  BY StepTInv DEF IInv
<1>2. fs' = fs
  <2>1. CASE Fetch
    BY <2>1
       DEF Fetch, FetchNothing, FetchEmpty, FetchOmitted, FetchText, FetchDefine,
           FetchInclude, FetchBadInclude, FetchEmptyInclude, FetchIfdef,
           FetchIfndef, FetchEndif, sourceVars
  <2>2. CASE UNCHANGED vars
    BY <2>2 DEF vars, sourceVars
  <2> QED
    BY <2>1, <2>2
       DEF Next, Seek, NextSource, NextPastEnd, Push, CallGet, ReturnChar,
           ReturnNul, sourceVars
<1>3. NoReadErrors /\ LInv /\ DInv
  BY <1>2 DEF NoReadErrors, IInv
<1>4. CASE UNCHANGED vars
  <2>1. /\ UNCHANGED <<fs, source_fs, header_stack, macro_table, in_omit_mode, status, eof>>
        /\ pc' = pc /\ out' = out /\ read_cursor' = read_cursor
        /\ write_cursor' = write_cursor /\ buf' = buf
    BY <1>4 DEF vars, sourceVars, stateVars, clientVars
  <2>2. Reached' = Reached
    BY <2>1 DEF Reached, Buffered
  <2> QED BY <1>3, <2>1, <2>2, SameDInv
<1> QED BY <1>1, <1>3, <1>4, SeekDInv, CallDInv, FetchDInv DEF Next

(* DInv is an invariant on disks without read errors. *)
THEOREM SpecDInv == Spec => [](IInv /\ (NoReadErrors => DInv))
<1>1. Init => (NoReadErrors => DInv)
  BY DEF Init, DInv, NullStream
<1>2. Init => IInv
  BY InitTInv, InitLInv DEF IInv
<1>3. IInv /\ (NoReadErrors => DInv) /\ [Next]_vars => (IInv /\ (NoReadErrors => DInv))'
  BY StepIInv, StepDInv
<1> QED BY <1>1, <1>2, <1>3, PTL DEF Spec

(* DInv says of out what DeliversExpansion says. *)
LEMMA DInvDelivers == IInv /\ (NoReadErrors => DInv) => DeliversExpansion
<1> SUFFICES ASSUME IInv, DInv, source_fs.state = "open", NoReadErrors
             PROVE  IsPrefix(out, Expected) /\ (eof /\ ~in_omit_mode => out = Expected)
  BY DEF DeliversExpansion
<1>1. fs \in FileSystems /\ source_fs.file \in DOMAIN fs /\ HasLines(fs)
  BY FilesHaveLines DEF IInv, TInv, StreamOK
<1>2. Expected = Goal.text
  BY <1>1 DEF Expected, Expanded, Goal
<1>3. /\ Reached \in Seq(Place(fs)) /\ IsPrefix(Reached, Goal.text)
      /\ eof /\ ~in_omit_mode => out = Goal.text
  BY DEF DInv
<1>4. Goal.text \in Seq(Place(fs))
  <2>1. Goal \in Walked(fs)
    <3>1. FileWalk(fs)[MaxOpen] \in Walks(fs)
      BY <1>1, FileWalkEquations, MaxOpenAssumption
    <3>2. NothingWalked \in Walked(fs)
      BY DEF NothingWalked, Walked
    <3> QED BY <1>1, <3>1, <3>2 DEF Walks, Goal
  <2> QED BY <2>1 DEF Walked
<1>5. IsPrefix(out, Reached) /\ out \in Seq(Place(fs))
  <2> DEFINE S == [file : Files \cup {"unknown_file"}, no : Nat, col : Nat]
  <2>1. out \in Seq(S) /\ Buffered \in Seq(S)
    <3>1. ASSUME status = "OK" /\ pc # "crashed" /\ read_cursor < write_cursor
          PROVE  Buffered \in Seq(S)
      <4> DEFINE k == write_cursor - read_cursor
                 B == [c \in 1 .. k |-> [file |-> buf.file, no |-> buf.no,
                                         col |-> read_cursor + c]]
      <4>1. k \in Nat /\ \A c \in 1 .. k : read_cursor + c \in Nat
        BY <3>1 DEF IInv, TInv, TypeOK
      <4>2. buf.file \in Files \cup {"unknown_file"} /\ buf.no \in Nat
        BY DEF IInv, TInv, TypeOK
      <4>3. B \in [1 .. k -> S]
        BY <4>1, <4>2
      <4>4. Buffered = B
        BY <3>1 DEF Buffered
      <4> HIDE DEF B, k, S
      <4> QED BY <4>1, <4>3, <4>4
    <3>2. ASSUME ~(status = "OK" /\ pc # "crashed" /\ read_cursor < write_cursor)
          PROVE  Buffered \in Seq(S)
      BY <3>2 DEF Buffered
    <3> QED BY <3>1, <3>2 DEF IInv, TInv, TypeOK
  <2> HIDE DEF S
  <2>2. /\ Len(out) \in Nat /\ Len(Reached) = Len(out) + Len(Buffered)
        /\ Len(Buffered) \in Nat
        /\ \A i \in 1 .. Len(out) : Reached[i] = out[i]
    BY <2>1 DEF Reached
  <2>3. \A i \in 1 .. Len(out) : i \in 1 .. Len(Reached) /\ out[i] \in Place(fs)
    BY <1>3, <2>2
  <2>4. out \in Seq(Place(fs))
    <3>1. out = [i \in 1 .. Len(out) |-> out[i]]
      BY <2>1
    <3> QED BY <2>2, <2>3, <3>1
  <2> QED BY <1>3, <2>2, <2>3, <2>4, PrefixPointwise
<1>6. IsPrefix(out, Goal.text)
  BY <1>3, <1>4, <1>5, PrefixFacts
<1> QED BY <1>2, <1>3, <1>6

(* What get() returns is a beginning of the text the source stands for, in *)
(* order, each character once, and all of it at the end of the source      *)
(* unless a condition was false, for every disk without read errors and    *)
(* any nesting of headers.                                                 *)
THEOREM ExpansionDelivered == Spec => []DeliversExpansion
  BY DInvDelivers, SpecDInv, PTL
=============================================================================
