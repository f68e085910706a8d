---------------------------- MODULE ScannerInput ----------------------------
(***************************************************************************)
(* The scanner as the client of the preprocessor: CompilerImpl::Run seeks  *)
(* the source, and yylex() takes its text in blocks with YY_INPUT, which   *)
(* calls get() until the block is full or eof() holds.  The program has    *)
(* one thread, so a call of get() runs to its end before anything else     *)
(* happens.                                                                *)
(*                                                                         *)
(* Which tokens there are does not matter here: the scanner matches any    *)
(* piece of the text it has, and asks for another block whenever it may    *)
(* (flex does so at the end of the block, in the middle of a token or      *)
(* not).  When a block is empty flex reads no more, matches what is left   *)
(* and returns the token EOF.  The parser may give up earlier.             *)
(***************************************************************************)
EXTENDS Preprocessor

CONSTANT MaxRead   (* bound: the largest max_size flex passes to YY_INPUT  *)

ASSUME MaxReadAssumption == MaxRead \in Nat \ {0}

VARIABLES
  yy,        (* "start", "match", "fill" (in YY_INPUT), "getting" (in its  *)
             (* call of get()), "last" (no more input) or "end"            *)
  result, max_size,
  text,      (* the characters YY_INPUT has stored                         *)
  matched,   (* how many of them are in tokens                             *)
  line,      (* the scanner's own line counter                             *)
  block      (* history: where the current block starts in text            *)

scannerVars == <<yy, result, max_size, text, matched, line, block>>
allVars == <<vars, scannerVars>>

ScanInit ==
  /\ Init
  /\ yy = "start" /\ result = 0 /\ max_size = 0
  /\ text = <<>> /\ matched = 0 /\ line = 0 /\ block = 0

(* Run() seeks the first source, and does not look at what seek() returns. *)
Start ==
  /\ yy = "start" /\ yy' = "match"
  /\ Seek \/ (input_source = <<>> /\ UNCHANGED vars)
  /\ UNCHANGED <<result, max_size, text, matched, line, block>>

(* A character is the '\n' of its line if ReadLine completed the line.     *)
IsNewline(c) ==
  LET l == fs[c.file][c.no] IN Completed(l.len, l.nl) /\ c.col = l.len + 1

(* YY_INPUT: result = 0.                                                   *)
Input ==
  /\ yy = "match" /\ yy' = "fill"
  /\ result' = 0 /\ max_size' \in 1 .. MaxRead
  /\ block' = Len(text)
  /\ UNCHANGED <<vars, text, matched, line>>

(* Mutant: while (result <= max_size). *)
CallPp_OffByOne ==
  /\ yy = "fill" /\ result <= max_size
  /\ CallGet
  /\ yy' = "getting"
  /\ UNCHANGED <<result, max_size, text, matched, line, block>>

(* while (result < max_size) buf[result] = get() ...                       *)
CallPp ==
  /\ yy = "fill" /\ result < max_size
  /\ CallGet
  /\ yy' = "getting"
  /\ UNCHANGED <<result, max_size, text, matched, line, block>>

(* ... which runs until it returns.                                        *)
RunPp ==
  /\ yy = "getting" /\ pc = "get"
  /\ Fetch \/ ReturnChar \/ ReturnNul
  /\ UNCHANGED scannerVars

(* Mutant: the test of eof() is missing from the loop's if. *)
Store_IgnoresEof ==
  /\ yy = "getting" /\ pc = "idle"
  /\ yy' = "fill" /\ result' = result + 1
  /\ text' = IF last = Nul THEN text ELSE Append(text, last)
  /\ UNCHANGED <<vars, max_size, matched, line, block>>

(* Mutant: the character read when the block is full is not counted. *)
Store_DropsLast ==
  /\ yy = "getting" /\ pc = "idle"
  /\ IF eof \/ result + 1 = max_size
     THEN yy' = (IF result = 0 THEN "last" ELSE "match")
            /\ UNCHANGED <<result, text>>
     ELSE /\ yy' = "fill" /\ result' = result + 1
          /\ text' = IF last = Nul THEN text ELSE Append(text, last)
  /\ UNCHANGED <<vars, max_size, matched, line, block>>

(* Mutant: the loop is left for a '\0' instead of for eof(). *)
Store_StopsAtNul ==
  /\ yy = "getting" /\ pc = "idle"
  /\ IF last = Nul \/ (~IsNewline(last) /\ fs[last.file][last.no].len < last.col)
     THEN yy' = (IF result = 0 THEN "last" ELSE "match")
            /\ UNCHANGED <<result, text>>
     ELSE /\ yy' = "fill" /\ result' = result + 1
          /\ text' = IF last = Nul THEN text ELSE Append(text, last)
  /\ UNCHANGED <<vars, max_size, matched, line, block>>

(* if (!eof()) result ++; else break.  The '\0's that get() returns for a  *)
(* preprocessor that has failed are counted, and the scanner ignores them. *)
Store ==
  /\ yy = "getting" /\ pc = "idle"
  /\ IF eof
     THEN yy' = (IF result = 0 THEN "last" ELSE "match")
            /\ UNCHANGED <<result, text>>
     ELSE /\ yy' = "fill" /\ result' = result + 1
          /\ text' = IF last = Nul THEN text ELSE Append(text, last)
  /\ UNCHANGED <<vars, max_size, matched, line, block>>

(* The block is full.                                                      *)
Full ==
  /\ yy = "fill" /\ result = max_size
  /\ yy' = "match"
  /\ UNCHANGED <<vars, result, max_size, text, matched, line, block>>

(* Mutant: the last character of a token is not looked at. *)
Newlines_NotLast(from, to) == Cardinality({i \in from .. to - 1 : IsNewline(text[i])})

(* count(): the '\n's among the characters of a token.                     *)
Newlines(from, to) == Cardinality({i \in from .. to : IsNewline(text[i])})

(* A rule matches the text up to n.                                        *)
Match(n) ==
  /\ yy \in {"match", "last"}
  /\ matched' = n
  /\ line' = line + Newlines(matched + 1, n)
  /\ UNCHANGED <<vars, yy, result, max_size, text, block>>

(* The token EOF: yywrap() returns 1.                                      *)
EndOfFile ==
  /\ yy = "last" /\ matched = Len(text)
  /\ yy' = "end"
  /\ UNCHANGED <<vars, result, max_size, text, matched, line, block>>

ScanNext ==
  \/ Start \/ Input \/ CallPp \/ RunPp \/ Store \/ Full \/ EndOfFile
  \/ \E n \in matched + 1 .. Len(text) : Match(n)

(* One thread: some step of the scan is taken whenever one can be.         *)
ScanSpec == ScanInit /\ [][ScanNext]_allVars /\ WF_allVars(ScanNext)
-----------------------------------------------------------------------------
(* The values of the scanner's variables. *)
ScanTypeOK ==
  /\ yy \in {"start", "match", "fill", "getting", "last", "end"}
  /\ max_size \in 0 .. MaxRead /\ result \in 0 .. max_size
  /\ block \in 0 .. Len(text) /\ matched \in 0 .. Len(text)
  /\ line \in 0 .. matched

(* The character get() has returned and YY_INPUT has not stored yet. *)
Pending == IF yy = "getting" /\ pc = "idle" /\ last # Nul THEN <<last>> ELSE <<>>

(* However the text is cut into blocks, the scanner has every character    *)
(* get() returned, once and in order: none is lost when a block is full    *)
(* or when eof() holds after the call.                                     *)
NothingLost == text \o Pending = out

(* The scanner stops asking only when the preprocessor has nothing more:   *)
(* the token EOF never cuts the source short.                              *)
EofIsReal == yy \in {"last", "end"} => eof /\ text = out

(* Lines that give the scanner no '\n': directives, and blank lines, which *)
(* are delivered as a '\0'.                                                *)
Silent(l) == l.kind # "text" \/ ~Completed(l.len, l.nl)

(* Nothing resets the scanner's counter (set_count has no caller), so it   *)
(* is the number of the token's line, counted from 0, only up to the       *)
(* silent lines before it: behind n of them it is n too small, however the *)
(* text was cut into blocks and tokens.  Headers and conditions aside.     *)
TokenLine ==
  matched < Len(text) =>
    LET c == text[matched + 1]
        f == fs[c.file]
    IN  (\A i \in DOMAIN f : f[i].kind \in {"text", "define"})
          /\ c.file = input_source[1] =>
        line + 1 + Cardinality({i \in 1 .. c.no - 1 : Silent(f[i])}) = c.no

(* The text of the source, by the reference definition. *)
Wanted ==
  IF input_source = <<>> THEN <<>> ELSE Expanded(fs, input_source[1], MaxOpen)

(* The scanner is given the text of the source with its headers in place,  *)
(* each character once and in order; EOF comes after all of it, and comes. *)
Source == INSTANCE CharSource WITH
            wanted <- Wanted, given <- text, done <- (yy = "end")
ImplementsCharSource == Source!SourceSpec

(* The scan ends: the parser gets its token EOF. *)
ScanEnds == <>(yy = "end")
=============================================================================
