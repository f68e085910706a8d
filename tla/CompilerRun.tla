----------------------------- MODULE CompilerRun -----------------------------
(***************************************************************************)
(* CompilerImpl::Run, for one compiler after another in a process, as the  *)
(* unit tests use them: the parser, the JSON dumper on the tree it left in *)
(* FrontEnv::root, the syntax visitor (see SyntaxVisitor; here its verdict *)
(* alone), ExportIR and ExportObj.  The tagger, the root and what flex has *)
(* in its buffer are the process's and outlive a compiler.                 *)
(***************************************************************************)
EXTENDS Parser

CONSTANTS
  Sources,      (* texts of source files; a missing file is an empty text  *)
  Options,      (* the sets of outputs that are asked for                  *)
  Faults,       (* the sets of output files that cannot be opened          *)
  MaxRuns       (* bound: compilers in a process                           *)

Outputs == {"json", "ir", "obj"}

ASSUME OptionsAssumption == Options \subseteq SUBSET Outputs

(* How many values are on bison's stack after the first i operations.      *)
Height(src) ==
  LET height[i \in 0 .. Len(src)] ==
        IF i = 0 THEN 0
        ELSE CASE src[i].op = "shift"  -> height[i - 1] + 1
               [] src[i].op = "reduce" -> height[i - 1] - src[i].n + 1
               [] src[i].op = "unit"   -> 1
               [] OTHER                -> 0
  IN  height

(* What bison does: tokens are leaves, rules have names of the grammar.    *)
IsOperation(o) ==
  CASE o.op = "shift"  -> o = Shift(o.symbol) /\ IsToken(o.symbol)
    [] o.op = "reduce" -> /\ o = Reduce(o.name, o.n, o.drop)
                          /\ o.n \in Nat /\ o.drop \in 0 .. o.n
                          /\ o.name \in Names \ {"translation_unit"}
    [] OTHER           -> o \in {ReduceUnit, Refuse}

Drops(o) == o.op = "reduce" /\ o.drop # 0

(* A rule finds as many values on the stack as it has symbols; what it     *)
(* leaves out is a token, with nothing but tokens behind it; and all of a  *)
(* source is read only when a translation_unit is reduced at its end.      *)
ASSUME SourcesAssumption ==
  /\ "translation_unit" \in Names
  /\ \A src \in Sources :
       /\ src \in Seq({src[i] : i \in DOMAIN src})
       /\ \A i \in DOMAIN src :
            /\ IsOperation(src[i])
            /\ src[i].op = "reduce" => src[i].n <= Height(src)[i - 1]
            /\ Drops(src[i]) =>
                 \A k \in 1 .. src[i].n - src[i].drop + 1 : i - k > 0 /\ src[i - k].op = "shift"
       /\ \/ src = <<>> \/ Last(src) = ReduceUnit
          \/ \E i \in DOMAIN src : src[i] = Refuse

VARIABLES
  pc,           (* where Run() is                                          *)
  runs,         (* compilers so far                                        *)
  wanted,       (* opts_: the outputs that have a file name                *)
  faulty,       (* the output files that cannot be opened                  *)
  s,            (* Run's status                                            *)
  broken,       (* whether LLVM's verifier refuses the module              *)
  files,        (* of each output: "none", "begun", "complete", "invalid"  *)
  source, accepted, clean   (* history: this run's source, whether all of  *)
                            (* it was accepted, and those before it        *)

table    == <<vec, map>>
parser   == <<text, values, root>>
request  == <<runs, wanted, faulty, source, clean>>
result   == <<s, broken, files>>
vars     == <<table, parser, dumper, request, result, pc, accepted>>

Init ==
  /\ TableInit /\ ParserInit /\ DumperInit
  /\ pc = "idle" /\ runs = 0 /\ wanted = {} /\ faulty = {}
  /\ s = "OK" /\ broken = FALSE /\ files = [o \in Outputs |-> "none"]
  /\ source = <<>> /\ accepted = TRUE /\ clean = TRUE

(* NewCompiler() puts a preprocessor for its sources in the place of the   *)
(* last one; seek(), whose answer is not looked at, opens the first.  What *)
(* flex has read before comes first all the same.                          *)
StartRun ==
  /\ pc \in {"idle", "returned"} /\ runs < MaxRuns
  /\ runs' = runs + 1
  /\ wanted' \in Options /\ faulty' \in Faults /\ source' \in Sources
  /\ text' = text \o source'
  /\ clean' = (clean /\ accepted)
  /\ files' = [o \in Outputs |-> "none"] /\ s' = "OK" /\ broken' = FALSE
  /\ accepted' = FALSE
  /\ pc' = "parse"
  /\ UNCHANGED <<table, values, root, dumper>>

ParseStep ==
  /\ pc = "parse" /\ Parse
  /\ UNCHANGED <<dumper, request, result, pc, accepted>>

AfterDump == IF wanted \cap {"ir", "obj"} = {} THEN "returned" ELSE "visit"

(* FrontEnv::Parse() returns FrontEnv::status, which nobody has set.  What *)
(* counts is the root, this run's or an earlier one's.                     *)
ParseReturns ==
  /\ pc = "parse" /\ (Accepts \/ Refuses)
  /\ accepted' = Accepts
  /\ text' = Rest /\ values' = <<>>
  /\ pc' = CASE root = NullSymbol -> "returned"
             [] root # NullSymbol /\ "json" \in wanted -> "dump"
             [] OTHER -> AfterDump
  /\ UNCHANGED <<table, root, dumper, request, result>>
-----------------------------------------------------------------------------
(* The dumper: constructed, invoked on the root, and destructed before     *)
(* anything else is done.  Its status is OK, whatever its stream is.       *)
StartDump ==
  /\ pc = "dump" /\ Construct(root)
  /\ files' = [files EXCEPT !["json"] = IF "json" \in faulty THEN "none" ELSE "begun"]
  /\ pc' = "json"
  /\ UNCHANGED <<table, parser, request, s, broken, accepted>>

DumpStep ==
  /\ pc = "json" /\ Walk
  /\ UNCHANGED <<table, parser, request, result, pc, accepted>>

(* Mutant: the dumper lives until Run() returns. *)
FinishDump_StaysOpen ==
  /\ pc = "json" /\ Destruct
  /\ UNCHANGED files
  /\ pc' = AfterDump
  /\ UNCHANGED <<table, parser, request, s, broken, accepted>>

FinishDump ==
  /\ pc = "json" /\ Destruct
  /\ files' = [files EXCEPT !["json"] = IF "json" \in faulty THEN "none" ELSE "complete"]
  /\ pc' = AfterDump
  /\ UNCHANGED <<table, parser, request, s, broken, accepted>>
-----------------------------------------------------------------------------
(* Mutant: the IR is exported without a look at its file name. *)
Export_IRAlways == "ir"

Export == IF "ir" \in wanted THEN "ir" ELSE "obj"

(* The visitor generates code, reports an error, or an assertion fails.    *)
(* It has each function verified, which does not cover the module.         *)
Visit ==
  /\ pc = "visit"
  /\ \/ pc' = "aborted" /\ UNCHANGED <<s, broken>>
     \/ /\ s' \in {"OK", "Corruption"} /\ broken' \in BOOLEAN
        /\ pc' = IF s' = "OK" THEN Export ELSE "returned"
  /\ UNCHANGED <<table, parser, dumper, request, files, accepted>>

(* Mutant: the object file is exported whatever became of the IR. *)
ExportIR_Unchecked ==
  /\ pc = "ir"
  /\ IF broken
     THEN s' = "Corruption" /\ UNCHANGED files
     ELSE /\ UNCHANGED s
          /\ files' = [files EXCEPT !["ir"] = IF "ir" \in faulty THEN "none" ELSE "complete"]
  /\ pc' = IF "obj" \in wanted THEN "obj" ELSE "returned"
  /\ UNCHANGED <<table, parser, dumper, request, broken, accepted>>

(* verifyModule() comes first; a stream that is not open takes the text    *)
(* and nobody asks it.                                                     *)
ExportIR ==
  /\ pc = "ir"
  /\ IF broken
     THEN s' = "Corruption" /\ UNCHANGED files
     ELSE /\ UNCHANGED s
          /\ files' = [files EXCEPT !["ir"] = IF "ir" \in faulty THEN "none" ELSE "complete"]
  /\ pc' = IF ~broken /\ "obj" \in wanted THEN "obj" ELSE "returned"
  /\ UNCHANGED <<table, parser, dumper, request, broken, accepted>>

(* raw_fd_ostream's error is not looked at: LLVM ends the process when it  *)
(* is destructed with one.  A module that nobody has verified may crash    *)
(* the passes, or they make something of it.                               *)
ExportObj ==
  /\ pc = "obj"
  /\ \/ /\ s' = "IOError" /\ pc' = "returned"    (* addPassesToEmitFile    *)
        /\ files' = [files EXCEPT !["obj"] = IF "obj" \in faulty THEN "none" ELSE "begun"]
     \/ /\ "obj" \notin faulty
        /\ files' = [files EXCEPT !["obj"] = IF broken THEN "invalid" ELSE "complete"]
        /\ s' = "OK" /\ pc' = "returned"
     \/ /\ \/ UNCHANGED files                    (* or assert(target) fails  *)
           \/ "obj" \notin faulty /\ broken /\ files' = [files EXCEPT !["obj"] = "begun"]
        /\ pc' = "aborted" /\ UNCHANGED s
  /\ UNCHANGED <<table, parser, dumper, request, broken, accepted>>

Step ==
  \/ ParseStep \/ ParseReturns
  \/ StartDump \/ DumpStep \/ FinishDump
  \/ Visit \/ ExportIR \/ ExportObj

Next == StartRun \/ Step

Spec == Init /\ [][Next]_vars
-----------------------------------------------------------------------------
(* The values of Run's own variables; an output is only worked on where it *)
(* was asked for, and the dumper only with a tree.                         *)
TypeOK ==
  /\ pc \in {"idle", "parse", "dump", "json", "visit", "ir", "obj", "returned", "aborted"}
  /\ pc \in {"dump", "json"} => "json" \in wanted /\ root # NullSymbol
  /\ pc = "ir" => "ir" \in wanted
  /\ pc = "obj" => "obj" \in wanted
  /\ wanted \subseteq Outputs
  /\ s \in {"OK", "Corruption", "IOError"}
  /\ broken \in BOOLEAN
  /\ files \in [Outputs -> {"none", "begun", "complete", "invalid"}]

(* A run that returns OK and had a tree has written all the files that     *)
(* were asked for and could be opened; and it has written an object file   *)
(* of a module that LLVM refuses only where no IR was asked for.           *)
OutputsComplete ==
  pc = "returned" /\ s = "OK" /\ root # NullSymbol =>
    \A o \in wanted \ faulty :
      files[o] = "complete" \/ (o = "obj" /\ "ir" \notin wanted /\ broken)

(* Whatever becomes of the visitor and of LLVM, an assertion that fails    *)
(* included, the JSON file of the tree is complete by then.                *)
JsonSurvives ==
  pc \in {"visit", "ir", "obj", "aborted"} /\ "json" \in wanted \ faulty =>
    files["json"] = "complete"

(* main() and the tests go by the status: if(!s.ok()) main prints it and   *)
(* fails, and EXPECT_TRUE(Run().ok()) is the test that a source compiles.  *)
ErrorReported == pc = "returned" /\ s = "OK" => accepted
-----------------------------------------------------------------------------
(* The symbols of a tree, as far down as a depth.                          *)
Symbols(tree, depth) ==
  LET Upto[n \in Nat] ==
        IF n = 0 THEN {tree} ELSE UNION {{t} \cup ToSet(t.kids) : t \in Upto[n - 1]}
  IN  Upto[depth]

(* For each tree of a set what a walk through it lists: something where    *)
(* each symbol is entered and something where it is left.                  *)
Listing(trees, entered, left) ==
  LET list[t \in trees] ==
        entered[t] \o FlattenSeq([i \in DOMAIN t.kids |-> list[t.kids[i]]]) \o left[t]
  IN  list

(* What bison did to make a tree, with each rule as if it had no symbols   *)
(* but those it links; no symbol is deeper than that is long.              *)
Operation(t) ==
  IF t.terminal THEN Shift(t)
  ELSE IF Name(t.type) = "translation_unit" THEN ReduceUnit
  ELSE Reduce(Name(t.type), Len(t.kids), 0)

Derivations(trees) == Listing(trees, [t \in trees |-> <<>>], [t \in trees |-> <<Operation(t)>>])

(* What a tree can tell of the first i operations of a source: all of      *)
(* them, without the tokens that rules have left out.                      *)
Recorded(src) ==
  LET recorded[i \in 0 .. Len(src)] ==
        IF i = 0 THEN <<>>
        ELSE LET o == src[i]
                 before == recorded[i - 1]
             IN  IF Drops(o)
                 THEN Append(RemoveAt(before, Len(before) - (o.n - o.drop)),
                             Reduce(o.name, o.n - 1, 0))
                 ELSE Append(before, o)
  IN  recorded

Told == Recorded(source)[Len(source)]

(* The keys of a tree, in the order of the source.                         *)
Key(t) == IF t.terminal THEN <<"terminal", t.type, t.text>> ELSE <<"symbol", Name(t.type)>>

AllKeys(trees) ==
  Listing(trees, [t \in trees |-> <<Key(t)>>],
                 [t \in trees |-> IF t.terminal THEN <<>> ELSE <<<<"end">>>>])
Keys(tree) == AllKeys(Symbols(tree, Len(doc)))[tree]

IsTerminal(entry) == entry[1] = "terminal"
KeyWritten(entry) == IF IsTerminal(entry) THEN <<"terminal", entry[3], entry[4]>> ELSE entry

(* The tree that is visited is that of this run's source, tags and all,    *)
(* as long as every source so far was accepted: nothing of an earlier run  *)
(* is in it, and nothing is missing but what rules leave out.              *)
TreeOfThisRun ==
  accepted /\ clean /\ pc # "idle" => Derivations(Symbols(root, Len(Told)))[root] = Told

(* A complete JSON file has the tree's symbols in their order, under the   *)
(* names they have in the grammar, and numbers the terminals from 0 on.    *)
DumpIsTree ==
  files["json"] = "complete" =>
    /\ [i \in DOMAIN doc |-> KeyWritten(doc[i])] = Keys(root)
    /\ \A i \in DOMAIN doc : IsTerminal(doc[i]) =>
         doc[i][2] = Cardinality({j \in 1 .. i - 1 : IsTerminal(doc[j])})
=============================================================================
