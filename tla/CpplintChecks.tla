----------------------------- MODULE CpplintChecks -----------------------------
(***************************************************************************)
(* build_support/cpplint.py: the checks that look at more than one line    *)
(* and are neither about blocks nor about includes.                        *)
(***************************************************************************)
EXTENDS CpplintNesting, CpplintIncludes

CONSTANTS
  _NORMAL_TRIGGER,   \* 250 in the code
  _TEST_TRIGGER,     \* 400 in the code
  MacroNames         \* the names in capitals only, TEST and TEST_F left out

------------------------------------------------------------------------------
(* _FunctionState. *)

NewFunctionState == [in_a_function |-> FALSE, lines_in_function |-> 0, current_function |-> ""]

\* int(math.log(lines / base, 2)), at most 5.
ErrorLevel(lines, base) ==
  CHOOSE k \in 0 .. 5 : base * 2 ^ k <= lines /\ (k = 5 \/ lines < base * 2 ^ (k + 1))

FunctionCheck(fn, verbose_level, linenum) ==
  LET base == IF fn.current_function \in {"TEST", "TEST_F", "Test"} THEN _TEST_TRIGGER ELSE _NORMAL_TRIGGER IN
  IF fn.in_a_function /\ fn.lines_in_function > base * 2 ^ verbose_level
  THEN <<<<linenum, "readability/fn_size", ErrorLevel(fn.lines_in_function, base)>>>> ELSE << >>

\* Where the "(" after the names at the head of an unindented line is, or 0.
FunctionHead(l) ==
  LET paren == First({i \in DOMAIN l.toks : l.toks[i] = "("}, 0) IN
  IF paren > 1 /\ l.indent = 0 /\ (\A i \in 1 .. paren - 1 : IsWord(l.toks[i]))
     /\ l.toks[paren - 1] \notin MacroNames
  THEN paren ELSE 0

CheckForFunctionLengths(fn, doc, linenum, verbose_level) ==
  LET l == doc.elided[linenum]
      has(k, toks) == \E i \in DOMAIN doc.elided[k].toks : doc.elided[k].toks[i] \in toks
      body == First({k \in linenum .. NumLines(doc) : has(k, {";", "}", "{"})}, 0)
      begun == [in_a_function |-> TRUE, lines_in_function |-> 0,
                current_function |-> l.toks[FunctionHead(l) - 1]]
  IN IF FunctionHead(l) # 0
     THEN [state |-> IF body = 0 \/ has(body, {";", "}"}) THEN fn ELSE begun,
           errors |-> IF body = 0 THEN <<<<linenum, "readability/fn_size", 5>>>> ELSE << >>]
     ELSE IF l.toks = <<"}">> /\ l.indent = 0
     THEN [state |-> [fn EXCEPT !.in_a_function = FALSE], errors |-> FunctionCheck(fn, verbose_level, linenum)]
     ELSE [state |-> IF IsBlankLine(l) \/ ~fn.in_a_function THEN fn ELSE [fn EXCEPT !.lines_in_function = @ + 1],
           errors |-> << >>]

------------------------------------------------------------------------------
(* The header guard.  cppvar is what GetHeaderGuardCPPVariable makes of the *)
(* name; an #endif has the macro of its comment, which is a "//" comment    *)
(* where slashes is TRUE.  The result is a sequence of <<"parse", line>>    *)
(* for a call of ParseNolintSuppressions and <<"error", error>>.            *)

Old(cppvar) == cppvar \o "_"

\* The lines that the guard is looked for in; 0 for none.
IfndefAt(lines) == First({k \in DOMAIN lines : lines[k].dir = "ifndef"}, 0)
DefineAt(lines) == First({k \in DOMAIN lines : lines[k].dir = "define"}, 0)
EndifAt(lines) == Latest({k \in DOMAIN lines : lines[k].dir = "endif" /\ lines[k].indent = 0}, 0)

\* The steps for its name, and those for the comment at its end.
GuardStyle(lines, at, cppvar) ==
  LET ifndef == lines[at].macro IN
  IF ifndef = cppvar THEN << >>
  ELSE <<<<"parse", at>>, <<"error", <<at, "build/header_guard", IF ifndef = Old(cppvar) THEN 0 ELSE 5>>>>>>

GuardClosed(lines, at, cppvar) ==
  LET endif == IF at = 0 THEN Plain ELSE lines[at]
      commented == endif.slashes \/ \A k \in DOMAIN lines : ~lines[k].slashes
  IN IF commented /\ endif.macro = cppvar THEN << >>
     ELSE <<<<"error", <<at, "build/header_guard", IF commented /\ endif.macro = Old(cppvar) THEN 0 ELSE 5>>>>>>

CheckForHeaderGuard(doc, cppvar) ==
  LET lines == doc.elided
      ifndef_linenum == IfndefAt(lines)
      define_linenum == DefineAt(lines)
      endif_linenum == EndifAt(lines)
  IN IF \E k \in DOMAIN lines : \/ lines[k].nolint = <<"line", "build/header_guard">>
                                \/ lines[k].dir = "pragma once"
     THEN << >>
     ELSE IF ifndef_linenum = 0 \/ define_linenum = 0 \/ lines[ifndef_linenum].macro # lines[define_linenum].macro
     THEN <<<<"error", <<0, "build/header_guard", 5>>>>>>
     ELSE GuardStyle(lines, ifndef_linenum, cppvar) \o <<<<"parse", endif_linenum>>>>
          \o GuardClosed(lines, endif_linenum, cppvar)

------------------------------------------------------------------------------
(* Blocks with a ";" behind them, and conditions without a body: both are   *)
(* reported in the line they end in, which may be one that is still to come.*)

TokenAt(l, i) == IF i \in DOMAIN l.toks THEN l.toks[i] ELSE ""

\* The "{" of a block after which no ";" belongs: after a ")", an else or a const,
\* or at the head of a line that follows a statement or another block; 0 for none.
BlockAt(doc, k) ==
  LET l == doc.elided[k]
      after(tok) == {i \in DOMAIN l.toks : l.toks[i] = "{" /\ TokenAt(l, i - 1) = tok}
      call == Latest(after(")"), 0)
      other == Latest(after("else") \cup {i \in after("const") : TokenAt(l, i - 2) = ")"}, 0)
      previous == Latest({j \in 1 .. k - 1 : ~IsBlankLine(doc.elided[j])}, 0)
      follows == previous # 0 /\ TokenAt(doc.elided[previous], Len(doc.elided[previous].toks)) \in {";", "{", "}"}
  IN IF call # 0 THEN IF l.spared THEN 0 ELSE call
     ELSE IF other # 0 THEN other
     ELSE IF follows /\ TokenAt(l, 1) = "{" THEN 1 ELSE 0

\* The line where that block ends with a ";" behind it; 0 for none.
SemicolonAt(doc, k, block, end) ==
  First({j \in k .. NumLines(doc) : block # 0 /\ j = end.linenum /\ TokenAt(doc.elided[j], end.pos) = ";"}, 0)
TrailingSemicolon(doc, k) ==
  LET block == BlockAt(doc, k)
  IN SemicolonAt(doc, k, block, CloseExpression(doc, k, block))

EmptyBodies == {"whitespace/empty_conditional_body", "whitespace/empty_loop_body", "whitespace/empty_if_body"}

\* The first token or directive at or after a position; linenum is 0 at the end of the file.
NextCode(doc, linenum, pos) ==
  LET at(j) == IF j = linenum THEN pos ELSE 1
      code(j) == TokenAt(doc.elided[j], at(j)) # "" \/ (j > linenum /\ doc.elided[j].dir # "")
      there == First({j \in linenum .. NumLines(doc) : code(j)}, 0)
  IN [linenum |-> there, pos |-> at(there), tok |-> IF there = 0 THEN "" ELSE TokenAt(doc.elided[there], at(there))]

\* What follows a condition is "{ }" without a comment in it, and no else follows.
NoBody(doc, open, close) ==
  LET commented(l) == l.slashes \/ l.ends \/ l.nolint # << >>
  IN /\ open.tok = "{"
     /\ close.pos # -1
     /\ ~commented(doc.raw_lines[open.linenum])
     /\ IF close.linenum = open.linenum THEN close.pos = open.pos + 2
        ELSE /\ open.pos = Len(doc.elided[open.linenum].toks) /\ close.pos = 2
             /\ \A j \in open.linenum + 1 .. close.linenum - 1 :
                  IsBlankLine(doc.raw_lines[j]) /\ ~commented(doc.raw_lines[j])
     /\ NextCode(doc, close.linenum, close.pos).tok # "else"

EmptyBody(doc, keyword, end) ==
  LET semicolon == TokenAt(doc.elided[end.linenum], end.pos) = ";"
      open == NextCode(doc, end.linenum, end.pos)
  IN CASE end.pos # -1 /\ semicolon ->
            <<<<end.linenum, IF keyword = "if" THEN "whitespace/empty_conditional_body" ELSE "whitespace/empty_loop_body", 5>>>>
       [] /\ end.pos # -1 /\ ~semicolon /\ keyword = "if"
          /\ NoBody(doc, open, CloseExpression(doc, open.linenum, open.pos)) ->
            <<<<end.linenum, "whitespace/empty_if_body", 4>>>>
       [] OTHER -> << >>
CheckEmptyBlockBody(doc, k) ==
  LET keyword == TokenAt(doc.elided[k], 1)
  IN IF keyword \in {"for", "while", "if"} /\ TokenAt(doc.elided[k], 2) = "("
     THEN EmptyBody(doc, keyword, CloseExpression(doc, k, 2)) ELSE << >>

------------------------------------------------------------------------------
(* The file as a whole.  The lines are those that RemoveMultiLineComments   *)
(* has been over, except for the copyright, which is looked for before.     *)

CheckForCopyright(lines) ==
  IF \E k \in DOMAIN lines : k <= 10 /\ "Copyright" \in lines[k].marks THEN << >>
  ELSE <<<<0, "legal/copyright", 5>>>>

CheckForBadCharacters(lines) ==
  LET of(k) == (IF "utf8" \in lines[k].marks THEN <<<<k, "readability/utf8", 5>>>> ELSE << >>)
               \o (IF "NUL" \in lines[k].marks THEN <<<<k, "readability/nul", 5>>>> ELSE << >>)
  IN FlattenSeq([k \in DOMAIN lines |-> of(k)])

CheckForNewlineAtEOF(newline, lines) ==
  IF newline \/ lines = << >> THEN << >> ELSE <<<<Len(lines), "whitespace/ending_newline", 5>>>>

\* The lines that end in CR LF, in a file that has both endings.
CheckLineEndings(newline, lines) ==
  LET ended == 1 .. IF newline THEN Len(lines) ELSE Len(lines) - 1
      crlf(k) == "CR" \in lines[k].marks
      of(k) == IF crlf(k) THEN <<<<k, "whitespace/newline", 1>>>> ELSE << >>
  IN IF \E j, k \in ended : crlf(j) /\ ~crlf(k) THEN FlattenSeq([k \in ended |-> of(k)]) ELSE << >>

\* Of CheckStyle, what depends on a setting or on the blocks.
CheckStyle(ns, doc, linenum, _line_length) ==
  LET l == doc.elided[linenum] IN
  (IF l.dir # "include" /\ l.width > _line_length THEN <<<<linenum, "whitespace/line_length", 2>>>> ELSE << >>)
  \o CheckSectionSpacing(ns, doc, linenum)
===============================================================================
