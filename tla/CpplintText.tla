----------------------------- MODULE CpplintText -----------------------------
(***************************************************************************)
(* build_support/cpplint.py: the lines of a file as the checks see them.   *)
(*                                                                         *)
(* A line is a name; Line gives what the checks tell apart in it:          *)
(*   toks    the tokens of the line without its comments and strings (a    *)
(*           string is "str"); << >> for a blank line and a directive      *)
(*   dir     the preprocessor directive, "" for none; macro its operand,   *)
(*           or the macro in the comment of an #endif                      *)
(*   inc     of an #include, the header; sys: between < and >              *)
(*   indent, width   of the line as it stands; width is 0 for a comment    *)
(*           that may be long (a URL, a copydoc)                           *)
(*   opens   begins with "/*" and does not end the comment; ends: the line *)
(*           ends with "*/"                                                *)
(*   raw     "begin": a raw string starts and does not end here; "end":    *)
(*           one that is open ends here, and tail follows it               *)
(*   nolint  << >> or <<"line" or "next", category>>, "*" for all          *)
(*   marks   which of "Copyright", "LINT_C_FILE", "LINT_KERNEL_FILE", an   *)
(*           invalid character ("utf8"), NUL, a final CR it holds          *)
(*   nsend   after "}", the comment's "namespace x": x, "anonymous", or    *)
(*           "" without such a comment; disallow: the class in a           *)
(*           DISALLOW_... macro; slashes: has a "//" comment; cont: ends   *)
(*           with a backslash; spared: its last "{" after a ")" is that of *)
(*           a lambda, a macro or the like, where a "};" may stand         *)
(*   uses    the standard headers that what it names is declared in        *)
(*   found   <<category, confidence>> for what the checks of a single line *)
(*           find, those without a state of their own                      *)
(* The marker lines that ProcessFileData adds at both ends are left out:   *)
(* they make the indices the line numbers, which is what is used here.     *)
(***************************************************************************)
EXTENDS Integers, Sequences, FiniteSets, FiniteSetsExt, SequencesExt

CONSTANT Line

\* What replaces a line of a multi-line comment, and a line in a raw string.
Plain == [toks |-> << >>, dir |-> "", macro |-> "", inc |-> "", sys |-> FALSE, indent |-> 0,
          width |-> 10, opens |-> FALSE, ends |-> FALSE, raw |-> "", tail |-> << >>,
          nolint |-> << >>, marks |-> {}, nsend |-> "", disallow |-> "", slashes |-> FALSE, cont |-> FALSE,
          spared |-> FALSE, uses |-> {}, found |-> {}]
Comment == [Plain EXCEPT !.ends = TRUE]
InRawString == [Plain EXCEPT !.toks = <<"str">>]

\* The least number of S, or other.
First(S, other) == IF S = {} THEN other ELSE Min(S)
\* The greatest.
Latest(S, other) == IF S = {} THEN other ELSE Max(S)

\* lines_without_raw_strings: CleanseRawStrings.  inside[k]: whether a raw
\* string is open after line k.
CleanseRawStrings(raw_lines) ==
  LET inside[k \in 0 .. Len(raw_lines)] ==
        k > 0 /\ IF inside[k - 1] THEN raw_lines[k].raw # "end" ELSE raw_lines[k].raw = "begin"
      cleansed(k) ==
        LET l == raw_lines[k] IN
        IF inside[k - 1] /\ inside[k] THEN InRawString
        ELSE IF inside[k - 1] THEN [l EXCEPT !.toks = <<"str">> \o l.tail]
        ELSE IF inside[k] THEN [l EXCEPT !.toks = @ \o <<"str">>]
        ELSE l
  IN [k \in DOMAIN raw_lines |-> cleansed(k)]

FindNextMultiLineCommentStart(lines, k) ==
  First({i \in k .. Len(lines) : lines[i].opens}, Len(lines) + 1)
FindNextMultiLineCommentEnd(lines, k) ==
  First({i \in k .. Len(lines) : lines[i].ends}, Len(lines) + 1)

\* from[k]: of line k and those after it, the lines in comments, and the error
\* for a comment that does not end, which goes to the line after its first.
RemoveMultiLineComments(lines) ==
  LET from[k \in 1 .. Len(lines) + 1] ==
        LET begin == FindNextMultiLineCommentStart(lines, k)
            end == FindNextMultiLineCommentEnd(lines, begin)
        IN IF begin > Len(lines) THEN [comments |-> {}, errors |-> << >>]
           ELSE IF end > Len(lines)
           THEN [comments |-> {}, errors |-> <<<<begin + 1, "readability/multiline_comment", 5>>>>]
           ELSE [from[end + 1] EXCEPT !.comments = @ \cup begin .. end]
      all == from[1]
  IN [lines |-> [k \in DOMAIN lines |-> IF k \in all.comments THEN Comment ELSE lines[k]],
      errors |-> all.errors]

\* The constructor: raw_lines, and elided, which stands for lines too: what
\* differs between the two is the text inside strings.
CleansedLines(lines) == [raw_lines |-> lines, elided |-> CleanseRawStrings(lines)]

NumLines(doc) == Len(doc.elided)
IsBlankLine(l) == l.toks = << >> /\ l.dir = ""

CountOf(tok, toks) == Cardinality({i \in DOMAIN toks : toks[i] = tok})

------------------------------------------------------------------------------
(* Matching brackets. *)

Opening(close) == CASE close = ")" -> "(" [] close = "]" -> "[" [] close = "}" -> "{"

PopAngles(stack) == SubSeq(stack, 1, Latest({i \in DOMAIN stack : stack[i] # "<"}, 0))

\* Where the search for the end of an expression is: at a token, with the
\* brackets that are open; or over, at the position after the end, or at -1.
On(stack) == [pos |-> -1, stack |-> stack, over |-> FALSE]
Unclosed == [pos |-> -1, stack |-> << >>, over |-> TRUE]

\* From token i on.  Positions count tokens from 1.
FindEndOfExpressionInLine(toks, from, open) ==
  LET step(i, stack) ==
        LET char == toks[i]
            before(j) == IF i > j THEN toks[i - j] ELSE ""
            pop(s) == IF Len(s) = 1 THEN [pos |-> i + 1, stack |-> << >>, over |-> TRUE] ELSE On(Front(s))
            angles == PopAngles(stack)
            top == IF stack = << >> THEN "" ELSE stack[Len(stack)]
        IN CASE char \in {"(", "[", "{"} -> On(Append(stack, char))
             [] char = "<" ->
                  IF before(1) = "<"
                  THEN IF top # "<" THEN On(stack)
                       ELSE IF Len(stack) = 1 THEN Unclosed ELSE On(Front(stack))
                  ELSE IF before(1) = "operator" THEN On(stack)
                  ELSE On(Append(stack, "<"))
             [] char \in {")", "]", "}"} ->
                  IF angles = << >> THEN Unclosed
                  ELSE IF angles[Len(angles)] = Opening(char) THEN pop(angles) ELSE Unclosed
             [] char = ">" ->
                  IF before(1) = "-" \/ before(2) = "operator" \/ top # "<" THEN On(stack) ELSE pop(stack)
             [] char = ";" -> IF angles = << >> THEN Unclosed ELSE On(angles)
             [] OTHER -> On(stack)
      upto[i \in from - 1 .. Len(toks)] ==
        IF i < from THEN On(open)
        ELSE LET was == upto[i - 1] IN IF was.over THEN was ELSE step(i, was.stack)
  IN upto[Len(toks)]

\* The line and the position after the bracket that closes the one at pos, or
\* pos = -1.
CloseExpression(doc, linenum, pos) ==
  LET line(k) == doc.elided[k].toks
      at(k, from, open) == [linenum |-> k, end |-> FindEndOfExpressionInLine(line(k), from, open)]
      upto[k \in linenum .. NumLines(doc)] ==
        IF k = linenum THEN at(k, pos, << >>)
        ELSE LET was == upto[k - 1] IN
             IF was.end.over \/ was.end.stack = << >> THEN was ELSE at(k, 1, was.end.stack)
      last == upto[NumLines(doc)]
      after == IF pos < Len(line(linenum)) THEN line(linenum)[pos + 1] ELSE ""
  IN IF \/ line(linenum)[pos] \notin {"(", "{", "[", "<"}
        \/ line(linenum)[pos] = "<" /\ after \in {"<", "="}
        \/ last.end.pos = -1
     THEN [linenum |-> NumLines(doc) + 1, pos |-> -1]
     ELSE [linenum |-> last.linenum, pos |-> last.end.pos]
===============================================================================
