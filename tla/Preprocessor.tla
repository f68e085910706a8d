---------------------------- MODULE Preprocessor ----------------------------
(***************************************************************************)
(* PreprocessorImpl: the source files of a compilation, the stack of the   *)
(* headers being read, conditional directives, and get(), which hands the  *)
(* text to the scanner one character at a time.                            *)
(*                                                                         *)
(* A file is a sequence of lines; of a line the model keeps what the code  *)
(* tells apart (its kind, the name a directive mentions, its length, and   *)
(* whether '\n' ends it).  LineBuffer.tla models how a line gets into      *)
(* buffer_; here one step of get()'s loop (ReadLine, then ProcessLine) is  *)
(* one action, and buf remembers which line of which file the buffer       *)
(* holds.  The client calls one method at a time, and asks for another     *)
(* source (seek, next) only when no character of a line is pending: both   *)
(* leave the buffer alone.                                                 *)
(***************************************************************************)
EXTENDS Integers, Sequences, FiniteSets, SequencesExt, Lines, Expansion

CONSTANTS
  Files,        (* names of files                                          *)
  Macros,       (* names of macros                                         *)
  FileSystems,  (* what may be on disk: functions from names to contents   *)
  Sources,      (* the values CompilerOptions::files may have              *)
  MaxSources,   (* bound: push() is called on fewer sources than this      *)
  MaxOpen,      (* files the process may have open: fopen() fails beyond   *)
  LineModulus   (* line numbers are uint32_t: 2^32 in the code             *)

Kinds == {"text", "define", "include", "include_bad", "include_empty",
          "ifdef", "ifndef", "endif", "ioerror"}

Line == [kind : Kinds, arg : Files \cup Macros \cup {"none"},
         len : Nat, nl : BOOLEAN]

(* Files contain whole directives; only the last line may lack a '\n'.     *)
WellFormed(content) ==
  /\ content \in Seq(Line)
  /\ Len(content) + 1 < LineModulus
  /\ \A i \in 1 .. Len(content) :
       /\ content[i].kind = "include" => content[i].arg \in Files
       /\ content[i].kind # "text" => content[i].len > 1
       /\ i < Len(content) => content[i].nl
       /\ i = Len(content) /\ content[i].len = 0 => content[i].nl

ASSUME LineModulusAssumption == LineModulus \in Nat \ {0}
ASSUME MaxOpenAssumption == MaxOpen \in Nat
ASSUME SourcesAssumption == Sources \subseteq Seq(Files)
ASSUME FileSystemsAssumption ==
  \A f \in FileSystems : \A n \in DOMAIN f : n \in Files /\ WellFormed(f[n])

VARIABLES
  fs,              (* the files on disk                                    *)
  input_source, current_source, source_fs, source_line,
  header_stack, macro_table, in_omit_mode, status, eof,
  read_cursor, write_cursor,
  buf,             (* the line buffer_ holds: its file and number          *)
  pc,              (* "idle", "get" (in get()'s loop) or "crashed"         *)
  last,            (* what the last get() returned                         *)
  out              (* history: the characters of this source returned      *)

sourceVars == <<fs, input_source, current_source>>
stateVars  == <<header_stack, macro_table, in_omit_mode, status, eof>>
clientVars == <<pc, last, out>>
vars == <<sourceVars, source_fs, source_line, stateVars, read_cursor,
          write_cursor, buf, clientVars>>
-----------------------------------------------------------------------------
(* An istream: the file, the lines read, its state bits, and whether there *)
(* is one ("null" is the null pointer) and its file could be opened.       *)
Stream == [file : Files \cup {"unknown_file"}, pos : Nat,
           bits : SUBSET {"eof", "fail", "bad"},
           state : {"null", "missing", "open"}]

NullStream ==
  [file |-> "unknown_file", pos |-> 0, bits |-> {}, state |-> "null"]

Missing(f) == [file |-> f, pos |-> 0, bits |-> {"fail"}, state |-> "missing"]

GoodStream(is) == is.bits = {}
Fail(is)       == is.bits \cap {"fail", "bad"} # {}

(* Mutant: a stream that failed is not taken as ended. *)
Eof_IgnoresFail(is) == is.state = "null" \/ "eof" \in is.bits

(* The helpers eof(is) and bad(is); fail() is also true of a bad stream.   *)
Eof(is) ==
  is.state = "null" \/ "eof" \in is.bits \/ (Fail(is) /\ "bad" \notin is.bits)

Bad(is) == is.state # "null" /\ "bad" \in is.bits /\ ~Fail(is)

OpenCount(stack, is) ==
  Cardinality({i \in 1 .. Len(stack) : stack[i].is.state = "open"})
    + IF is.state = "open" THEN 1 ELSE 0

(* InputSystem::fopen: never a null pointer, a failed stream if the file   *)
(* cannot be opened.                                                       *)
Fopen(f, opened) ==
  IF f \in DOMAIN fs /\ opened < MaxOpen
  THEN [file |-> f, pos |-> 0, bits |-> {}, state |-> "open"]
  ELSE Missing(f)

HasLine(is) ==
  /\ GoodStream(is) /\ is.pos < Len(fs[is.file])
  /\ fs[is.file][is.pos + 1].kind # "ioerror"

(* The stream after getline().  At the end of the file an empty read sets  *)
(* eofbit and failbit, a read error badbit, a stream that is not good      *)
(* failbit, a last line without '\n' eofbit.                               *)
AfterGetline(is) ==
  IF ~GoodStream(is) THEN [is EXCEPT !.bits = @ \cup {"fail"}]
  ELSE IF is.pos = Len(fs[is.file]) THEN [is EXCEPT !.bits = {"eof", "fail"}]
  ELSE IF ~HasLine(is) THEN [is EXCEPT !.bits = {"bad"}]
  ELSE [is EXCEPT !.pos = @ + 1,
          !.bits = IF fs[is.file][is.pos + 1].nl THEN {} ELSE {"eof"}]

NoLine == [file |-> "unknown_file", no |-> 0]
Nul    == [file |-> "unknown_file", no |-> 0, col |-> 0]

Good == ~eof /\ status = "OK"
-----------------------------------------------------------------------------
Init ==
  /\ fs \in FileSystems
  /\ input_source \in Sources
  /\ current_source = 0 /\ source_fs = NullStream /\ source_line = 0
  /\ header_stack = <<>> /\ macro_table = {} /\ in_omit_mode = FALSE
  /\ status = "OK" /\ eof = FALSE
  /\ read_cursor = 0 /\ write_cursor = 0 /\ buf = NoLine
  /\ pc = "idle" /\ last = Nul /\ out = <<>>

Clear ==
  /\ eof' = FALSE /\ status' = "OK" /\ macro_table' = {}
  /\ source_line' = 0 /\ header_stack' = <<>> /\ in_omit_mode' = FALSE

AtBoundary == pc = "idle" /\ read_cursor >= write_cursor

(* seek() with a current source; without one it changes nothing.           *)
Seek ==
  /\ AtBoundary /\ current_source < Len(input_source)
  /\ Clear
  /\ source_fs' = Fopen(input_source[current_source + 1],
                        OpenCount(<<>>, source_fs))
  /\ last' = Nul /\ out' = <<>>
  /\ UNCHANGED <<sourceVars, read_cursor, write_cursor, buf, pc>>

(* next() with a source behind the current one.                            *)
NextSource ==
  /\ AtBoundary /\ current_source + 1 < Len(input_source)
  /\ Clear
  /\ current_source' = current_source + 1
  /\ source_fs' = Fopen(input_source[current_source' + 1],
                        OpenCount(<<>>, source_fs))
  /\ last' = Nul /\ out' = <<>>
  /\ UNCHANGED <<fs, input_source, read_cursor, write_cursor, buf, pc>>

(* next() on the last source reads input_source_[size()]: the process      *)
(* crashes, or fopen() fails on whatever name it finds there.              *)
NextPastEnd ==
  /\ AtBoundary /\ current_source + 1 = Len(input_source)
  /\ Clear
  /\ current_source' = current_source + 1
  /\ source_fs' = Missing("unknown_file")
  /\ pc' \in {"idle", "crashed"}
  /\ last' = Nul /\ out' = <<>>
  /\ UNCHANGED <<fs, input_source, read_cursor, write_cursor, buf>>

Push ==
  /\ pc = "idle" /\ Len(input_source) < MaxSources
  /\ \E f \in Files : input_source' = Append(input_source, f)
  /\ UNCHANGED <<fs, current_source, source_fs, source_line, stateVars,
                 read_cursor, write_cursor, buf, clientVars>>

CallGet ==
  /\ pc = "idle"
  /\ pc' = "get"
  /\ UNCHANGED <<sourceVars, source_fs, source_line, stateVars, read_cursor,
                 write_cursor, buf, last, out>>
-----------------------------------------------------------------------------
(* Mutant: when one header has ended, the ones below it go too. *)
Kept_PopsAll(d) ==
  /\ pc = "get" /\ read_cursor >= write_cursor /\ Good
  /\ d \in {0, Len(header_stack)}
  /\ d > 0 => ~Eof(header_stack[d].is)
  /\ d = 0 /\ header_stack # <<>> => Eof(header_stack[Len(header_stack)].is)

(* ReadLine removes the headers at the top of the stack that have ended:   *)
(* d headers are kept.                                                     *)
Kept(d) ==
  /\ pc = "get" /\ read_cursor >= write_cursor /\ Good
  /\ d > 0 => ~Eof(header_stack[d].is) \/ Bad(header_stack[d].is)
  /\ \A i \in d + 1 .. Len(header_stack) :
       Eof(header_stack[i].is) /\ ~Bad(header_stack[i].is)

(* The stream ReadLine reads: the top header's, unless it is not good.     *)
FromHeader(d) == d > 0 /\ GoodStream(header_stack[d].is)

Chosen(d) == IF FromHeader(d) THEN header_stack[d].is ELSE source_fs

BadTop(d) == d > 0 /\ Bad(header_stack[d].is)

(* ReadLine finds no stream to read: eof_, and a status for a bad stream.  *)
FetchNothing(d) ==
  /\ Kept(d)
  /\ BadTop(d) \/ Eof(Chosen(d)) \/ Bad(Chosen(d))
  /\ eof' = TRUE
  /\ status' = IF BadTop(d) \/ ~Eof(Chosen(d)) THEN "IOError" ELSE status
  /\ header_stack' = SubSeq(header_stack, 1, d)
  /\ read_cursor' = 0 /\ write_cursor' = 0 /\ buf' = NoLine
  /\ UNCHANGED <<sourceVars, source_fs, source_line, macro_table,
                 in_omit_mode, clientVars>>

Increment(n) == (n + 1) % LineModulus

(* Mutant: the line of a header is not counted. *)
Counted_NotCounting(d) ==
  [i \in 1 .. d |->
     IF i < d THEN header_stack[i]
     ELSE [header_stack[i] EXCEPT
             !.is = IF FromHeader(d) THEN AfterGetline(@) ELSE @]]

(* The stack after a line was read with d headers kept and counted by      *)
(* ProcessLine: for the top header, whichever stream the line is from.     *)
Counted(d) ==
  [i \in 1 .. d |->
     IF i < d THEN header_stack[i]
     ELSE [header_stack[i] EXCEPT
             !.line = Increment(@),
             !.is = IF FromHeader(d) THEN AfterGetline(@) ELSE @]]

(* Mutant: lines of headers are counted for the source too. *)
ReadLine_CountsSource(d) ==
  /\ Kept(d)
  /\ ~BadTop(d) /\ ~Eof(Chosen(d)) /\ ~Bad(Chosen(d))
  /\ source_fs' = IF FromHeader(d) THEN source_fs ELSE AfterGetline(source_fs)
  /\ source_line' = Increment(source_line)
  /\ IF HasLine(Chosen(d))
     THEN buf' = [file |-> Chosen(d).file, no |-> Chosen(d).pos + 1]
     ELSE buf' = NoLine

(* What ReadLine and the first lines of ProcessLine do for a line l, which *)
(* is NoLine if getline() extracted nothing.                               *)
ReadLine(d) ==
  /\ Kept(d)
  /\ ~BadTop(d) /\ ~Eof(Chosen(d)) /\ ~Bad(Chosen(d))
  /\ source_fs' = IF FromHeader(d) THEN source_fs ELSE AfterGetline(source_fs)
  /\ source_line' = IF d = 0 THEN Increment(source_line) ELSE source_line
  /\ IF HasLine(Chosen(d))
     THEN buf' = [file |-> Chosen(d).file, no |-> Chosen(d).pos + 1]
     ELSE buf' = NoLine

(* The line ReadLine reads. *)
ThisLine(d) == fs[Chosen(d).file][Chosen(d).pos + 1]
ThisWidth(d) == Width(ThisLine(d).len, ThisLine(d).nl)

(* A line of kind k was read, and ProcessLine looks at it. *)
Reads(d, k) ==
  /\ ReadLine(d)
  /\ HasLine(Chosen(d)) /\ ThisLine(d).kind = k
  /\ ~in_omit_mode
  /\ write_cursor' = ThisWidth(d)

(* Mutant: one past the last character. *)
Consume_OffByOne == read_cursor' = write_cursor' + 1

(* read_cursor_ = write_cursor_ *)
Consume == read_cursor' = write_cursor'

(* getline() extracted nothing; ProcessLine counts a line all the same.    *)
FetchEmpty(d) ==
  /\ ReadLine(d) /\ ~HasLine(Chosen(d))
  /\ read_cursor' = 0 /\ write_cursor' = 0
  /\ header_stack' = Counted(d)
  /\ UNCHANGED <<sourceVars, macro_table, in_omit_mode, status, eof,
                 clientVars>>

(* In omit mode every line is dropped, an #endif too.                      *)
FetchOmitted(d) ==
  /\ ReadLine(d) /\ HasLine(Chosen(d))
  /\ in_omit_mode
  /\ write_cursor' = ThisWidth(d) /\ Consume
  /\ header_stack' = Counted(d)
  /\ UNCHANGED <<sourceVars, macro_table, in_omit_mode, status, eof,
                 clientVars>>

FetchText(d) ==
  /\ Reads(d, "text")
  /\ read_cursor' = 0
  /\ header_stack' = Counted(d)
  /\ UNCHANGED <<sourceVars, macro_table, in_omit_mode, status, eof,
                 clientVars>>

FetchDefine(d) ==
  /\ Reads(d, "define") /\ Consume
  /\ macro_table' = macro_table \cup {ThisLine(d).arg}
  /\ header_stack' = Counted(d)
  /\ UNCHANGED <<sourceVars, in_omit_mode, status, eof,
                 clientVars>>

(* "Not a valid header file": the line stays in the buffer.                *)
FetchBadInclude(d) ==
  /\ Reads(d, "include_bad")
  /\ status' = "Corruption"
  /\ read_cursor' = 0
  /\ header_stack' = Counted(d)
  /\ UNCHANGED <<sourceVars, macro_table, in_omit_mode, eof, clientVars>>

(* No identifier, as in #include <x>: substr(1, ...) of an empty string    *)
(* throws, and nothing catches it.                                         *)
FetchEmptyInclude(d) ==
  /\ Reads(d, "include_empty")
  /\ pc' = "crashed"
  /\ read_cursor' = 0
  /\ header_stack' = Counted(d)
  /\ UNCHANGED <<sourceVars, macro_table, in_omit_mode, status, eof, last, out>>

FetchInclude(d) ==
  /\ Reads(d, "include") /\ Consume
  /\ LET h == ThisLine(d).arg
     IN  header_stack' =
           Append(Counted(d),
                  [name |-> h, line |-> 0,
                   is |-> Fopen(h, OpenCount(Counted(d), source_fs'))])
  /\ UNCHANGED <<sourceVars, macro_table, in_omit_mode, status, eof,
                 clientVars>>

FetchIfdef(d) ==
  /\ Reads(d, "ifdef") /\ Consume
  /\ in_omit_mode' = (ThisLine(d).arg \notin macro_table)
  /\ header_stack' = Counted(d)
  /\ UNCHANGED <<sourceVars, macro_table, status, eof,
                 clientVars>>

FetchIfndef(d) ==
  /\ Reads(d, "ifndef") /\ Consume
  /\ in_omit_mode' = (ThisLine(d).arg \in macro_table)
  /\ header_stack' = Counted(d)
  /\ UNCHANGED <<sourceVars, macro_table, status, eof,
                 clientVars>>

FetchEndif(d) ==
  /\ Reads(d, "endif") /\ Consume
  /\ in_omit_mode' = FALSE
  /\ header_stack' = Counted(d)
  /\ UNCHANGED <<sourceVars, macro_table, status, eof,
                 clientVars>>

(* One step of the loop in get().                                          *)
Fetch ==
  \E d \in 0 .. Len(header_stack) :
    \/ FetchNothing(d)    \/ FetchEmpty(d)        \/ FetchOmitted(d)
    \/ FetchText(d)       \/ FetchDefine(d)       \/ FetchInclude(d)
    \/ FetchBadInclude(d) \/ FetchEmptyInclude(d) \/ FetchIfdef(d)
    \/ FetchIfndef(d)     \/ FetchEndif(d)

(* Mutant: eof_ is set with the last character instead of behind it. *)
ReturnChar_SetsEof ==
  /\ pc = "get" /\ Good /\ read_cursor < write_cursor
  /\ last' = [file |-> buf.file, no |-> buf.no, col |-> read_cursor + 1]
  /\ out' = Append(out, last')
  /\ read_cursor' = read_cursor + 1
  /\ pc' = "idle"
  /\ eof' = (/\ read_cursor' = write_cursor /\ header_stack = <<>>
             /\ ~GoodStream(source_fs))
  /\ UNCHANGED <<sourceVars, source_fs, source_line, header_stack, macro_table,
                 in_omit_mode, status, write_cursor, buf>>

(* get() returns a character of the buffer ...                             *)
ReturnChar ==
  /\ pc = "get" /\ Good /\ read_cursor < write_cursor
  /\ last' = [file |-> buf.file, no |-> buf.no, col |-> read_cursor + 1]
  /\ out' = Append(out, last')
  /\ read_cursor' = read_cursor + 1
  /\ pc' = "idle"
  /\ UNCHANGED <<sourceVars, source_fs, source_line, stateVars, write_cursor,
                 buf>>

(* ... or '\0'.                                                            *)
ReturnNul ==
  /\ pc = "get" /\ ~Good
  /\ last' = Nul
  /\ pc' = "idle"
  /\ UNCHANGED <<sourceVars, source_fs, source_line, stateVars, read_cursor,
                 write_cursor, buf, out>>

Next ==
  \/ Seek \/ NextSource \/ NextPastEnd \/ Push
  \/ CallGet \/ Fetch \/ ReturnChar \/ ReturnNul

(* A call that was made runs to its end; no client must make one.          *)
Fairness == WF_vars(Fetch \/ ReturnChar \/ ReturnNul)

Spec == Init /\ [][Next]_vars /\ Fairness
-----------------------------------------------------------------------------
file_name ==
  IF header_stack # <<>> THEN header_stack[Len(header_stack)].name
  ELSE IF current_source < Len(input_source)
  THEN input_source[current_source + 1]
  ELSE "unknown_file"

line_no ==
  IF header_stack # <<>> THEN header_stack[Len(header_stack)].line
  ELSE IF current_source < Len(input_source) THEN source_line
  ELSE 0

col_no == read_cursor

Header == [is : Stream, name : Files, line : Nat]

(* The values of the variables (fs keeps its initial value). *)
TypeOK ==
  /\ input_source \in Seq(Files)
  /\ current_source \in Nat
  /\ source_fs \in Stream
  /\ source_line \in Nat
  /\ header_stack \in Seq(Header)
  /\ macro_table \subseteq Files \cup Macros \cup {"none"}
  /\ in_omit_mode \in BOOLEAN /\ eof \in BOOLEAN
  /\ status \in {"OK", "Corruption", "IOError"}
  /\ write_cursor \in Nat /\ read_cursor \in 0 .. write_cursor
  /\ buf \in [file : Files \cup {"unknown_file"}, no : Nat]
  /\ pc \in {"idle", "get", "crashed"}
  /\ last \in [file : Files \cup {"unknown_file"}, no : Nat, col : Nat]
  /\ out \in Seq([file : Files \cup {"unknown_file"}, no : Nat, col : Nat])

(* No file that can be read has a read error in it.                        *)
NoReadErrors ==
  \A n \in DOMAIN fs : \A i \in 1 .. Len(fs[n]) : fs[n][i].kind # "ioerror"

(* file_name(), line_no() and col_no() name the place of the character the *)
(* last get() returned, through any nesting of headers: error messages and *)
(* the ContextDescriptor test rely on it.                                  *)
LocationCorrect ==
  pc = "idle" /\ last # Nul /\ NoReadErrors =>
    file_name = last.file /\ line_no = last.no /\ col_no = last.col

(* Every header on the stack is there because the line the file below it   *)
(* has come to includes it: the stack is the chain of #include lines.      *)
HeaderStackIsChain ==
  NoReadErrors =>
    \A i \in 1 .. Len(header_stack) :
      LET below == IF i = 1 THEN [file |-> source_fs.file, no |-> source_line]
                   ELSE [file |-> header_stack[i - 1].name,
                         no   |-> header_stack[i - 1].line]
      IN  /\ below.file \in DOMAIN fs
          /\ below.no \in 1 .. Len(fs[below.file])
          /\ fs[below.file][below.no].kind = "include"
          /\ fs[below.file][below.no].arg = header_stack[i].name

(* get() never returns a character of a source once it has set eof_, and   *)
(* eof_ is set only by a get() that returns '\0' (the comment on eof()).   *)
EofOnlyWithNul == pc = "idle" /\ eof => last = Nul

(* The text of the current source, by the reference definition. *)
Expected == Expanded(fs, source_fs.file, MaxOpen)

(* The text get() returns is the text of the source with its headers in    *)
(* place, in order, each line once and nothing else; at the end of the     *)
(* source it is all of it, unless a condition was false.                   *)
DeliversExpansion ==
  source_fs.state = "open" /\ NoReadErrors =>
    /\ IsPrefix(out, Expected)
    /\ eof /\ ~in_omit_mode => out = Expected

(* get() returns: it does not spin on streams that have nothing to give.   *)
(* A file whose reads fail is the exception: its stream has badbit, which  *)
(* is neither what eof(is) nor what bad(is) looks for.                     *)
GetReturns == NoReadErrors => (pc = "get" ~> pc # "get")
=============================================================================
