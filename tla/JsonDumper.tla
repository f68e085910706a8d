----------------------------- MODULE JsonDumper -----------------------------
(***************************************************************************)
(* JsonDumper: the parse tree is written as one JSON object while          *)
(* Symbol::Invoke walks it.  The dumper overrides none of the methods for  *)
(* kinds of nonterminals, so Invoke calls VisitNonTerminal, the children,  *)
(* ExitNonTerminal for all of them.  Of the text its commas, braces, keys  *)
(* and values are kept, as a reader of JSON takes them in; layout is not.  *)
(***************************************************************************)
EXTENDS UniqueSymtable, SequencesExt

(* A symbol: the type is a token's number or a name's tag.  The text of a  *)
(* terminal is "plain", "quoted" (a string literal), or "raw": with a '"'  *)
(* elsewhere, or with an escape that JSON does not have.                   *)
Symbol(terminal, type, text, kids) ==
  [terminal |-> terminal, type |-> type, text |-> text, kids |-> kids]

VARIABLES
  calls,         (* for each active Invoke the children it has yet to call *)
  block_head,    (* block_head_: nothing is in the current object yet      *)
  terminal_id,   (* terminal_id_                                           *)
  reader,        (* what a reader of the file has met: the number of       *)
                 (* members of each object it is in, and whether it has    *)
                 (* refused the text                                       *)
  doc            (* history: the keys and ends of objects written          *)

dumper == <<calls, block_head, terminal_id, reader, doc>>

DumperInit ==
  /\ calls = <<>> /\ block_head = TRUE /\ terminal_id = 0
  /\ reader = [members |-> <<>>, refused |-> FALSE] /\ doc = <<>>

(* A member with or without a comma before it.                             *)
ReadMember(comma, legal) ==
  [members |-> [reader.members EXCEPT ![Len(reader.members)] = @ + 1],
   refused |-> reader.refused \/ ~legal \/ ~(comma <=> Last(reader.members) > 0)]

(* filter() escapes the first and the last character of a text that starts *)
(* with '"', and leaves other texts as they are.                           *)
Readable(value) == value \in {"plain", "quoted"}

Advance == [calls EXCEPT ![Len(calls)] = Tail(@)]

(* Mutant: the count is shared by all dumpers. *)
Construct_KeepsCount(root) ==
  /\ calls = <<>>
  /\ calls' = <<<<root>>>>
  /\ block_head' = TRUE /\ UNCHANGED terminal_id
  /\ reader' = [members |-> <<0>>, refused |-> FALSE] /\ doc' = <<>>

(* The constructor, and root->Invoke(dumper).                              *)
Construct(root) ==
  /\ calls = <<>>
  /\ calls' = <<<<root>>>>
  /\ block_head' = TRUE /\ terminal_id' = 0
  /\ reader' = [members |-> <<0>>, refused |-> FALSE] /\ doc' = <<>>

Here == Head(Last(calls))

VisitTerminal ==
  /\ calls # <<>> /\ Last(calls) # <<>> /\ Here.terminal
  /\ block_head' = FALSE
  /\ reader' = ReadMember(~block_head, Readable(Here.text))
  /\ terminal_id' = terminal_id + 1
  /\ doc' = Append(doc, <<"terminal", terminal_id, Here.type, Here.text>>)
  /\ calls' = Advance

(* Mutant: the flag is not set for the new object. *)
VisitNonTerminal_KeepsHead ==
  /\ calls # <<>> /\ Last(calls) # <<>> /\ ~Here.terminal
  /\ block_head' = FALSE
  /\ reader' = LET r == ReadMember(~block_head, TRUE)
               IN  [r EXCEPT !.members = Append(@, 0)]
  /\ doc' = Append(doc, <<"symbol", Name(Here.type)>>)
  /\ calls' = Append(Advance, Here.kids)
  /\ UNCHANGED terminal_id

VisitNonTerminal ==
  /\ calls # <<>> /\ Last(calls) # <<>> /\ ~Here.terminal
  /\ block_head' = TRUE
  /\ reader' = LET r == ReadMember(~block_head, TRUE)
               IN  [r EXCEPT !.members = Append(@, 0)]
  /\ doc' = Append(doc, <<"symbol", Name(Here.type)>>)
  /\ calls' = Append(Advance, Here.kids)
  /\ UNCHANGED terminal_id

ExitNonTerminal ==
  /\ Len(calls) > 1 /\ Last(calls) = <<>>
  /\ block_head' = FALSE
  /\ reader' = [members |-> Front(reader.members), refused |-> reader.refused]
  /\ doc' = Append(doc, <<"end">>)
  /\ calls' = Front(calls)
  /\ UNCHANGED terminal_id

(* The walk has returned and the destructor writes the last brace.         *)
Destruct ==
  /\ Len(calls) = 1 /\ Last(calls) = <<>>
  /\ reader' = [members |-> Front(reader.members),
                refused |-> reader.refused \/ Len(reader.members) # 1]
  /\ calls' = <<>>
  /\ UNCHANGED <<block_head, terminal_id, doc>>

Walk == VisitTerminal \/ VisitNonTerminal \/ ExitNonTerminal
-----------------------------------------------------------------------------
(* Whatever the tree, a reader accepts the text as far as it is written:   *)
(* commas are between the members of an object and nowhere else, though    *)
(* one flag stands for all the objects that are open, and each brace is    *)
(* closed once.  Raw texts, which filter() lets through, are the exception. *)
DumpWellFormed ==
  /\ reader.refused =>
       \E i \in DOMAIN doc : doc[i][1] = "terminal" /\ ~Readable(doc[i][4])
  /\ calls = <<>> => reader.members = <<>>
=============================================================================
