---------------------------- MODULE CpplintNesting ----------------------------
(***************************************************************************)
(* build_support/cpplint.py, NestingState: the blocks that are open at the *)
(* end of a line, kept over #if groups by checkpoints of the stack.  Each  *)
(* operator returns the state and the errors <<line, category,             *)
(* confidence>> that the step reports.                                     *)
(*                                                                         *)
(* A block holds what its classes hold, by kind: "block", "extern",        *)
(* "class" or "namespace".  is_derived and access are written and never    *)
(* read.  A position in the truncated line is a number of tokens, where    *)
(* the code uses a number of characters.                                   *)
(***************************************************************************)
EXTENDS CpplintText

CONSTANTS
  NamespaceLines,   \* 10 in the code: a shorter namespace may end without a comment
  SectionLines      \* 24 in the code: a class of no more lines is not checked for blank lines

Structural == {"{", "}", "(", ")", ";", "<", ">", "=", ",", "[", "]", "str",
               "public:", "private:", "protected:"}
Access == {"public:", "private:", "protected:"}
IsWord(t) == t \notin Structural

_BlockInfo(linenum, seen_open_brace) ==
  [kind |-> "block", starting_linenum |-> linenum, seen_open_brace |-> seen_open_brace,
   open_parentheses |-> 0, inline_asm |-> "NO", check_namespace_indentation |-> FALSE,
   name |-> "", class_indent |-> 0, last_line |-> 0]
_ExternCInfo(linenum) == [_BlockInfo(linenum, TRUE) EXCEPT !.kind = "extern"]
_NamespaceInfo(name, linenum) ==
  [_BlockInfo(linenum, FALSE) EXCEPT !.kind = "namespace", !.name = name,
                                     !.check_namespace_indentation = TRUE]

\* last_line: the first line at whose end all braces since linenum are closed.
_ClassInfo(name, doc, linenum) ==
  LET depth[i \in linenum - 1 .. NumLines(doc)] ==
        IF i < linenum THEN 0
        ELSE depth[i - 1] + CountOf("{", doc.elided[i].toks) - CountOf("}", doc.elided[i].toks)
  IN [_BlockInfo(linenum, FALSE) EXCEPT
        !.kind = "class", !.name = name, !.check_namespace_indentation = TRUE,
        !.class_indent = doc.raw_lines[linenum].indent,
        !.last_line = First({i \in linenum .. NumLines(doc) : depth[i] = 0}, 0)]

_PreprocessorInfo(stack) == [stack_before_if |-> stack, stack_before_else |-> << >>, seen_else |-> FALSE]

NewNestingState == [stack |-> << >>, previous_stack_top |-> << >>, pp_stack |-> << >>]

Top(s) == s[Len(s)]
Pop(s) == SubSeq(s, 1, Len(s) - 1)
SeenOpenBrace(stack) == stack = << >> \/ Top(stack).seen_open_brace
InAsmBlock(ns) == ns.stack # << >> /\ Top(ns.stack).inline_asm # "NO"
IsKind(stack, kind) == stack # << >> /\ Top(stack).kind = kind

\* The class that encloses the line most closely, << >> for none.
InnermostClass(ns) ==
  LET classes == {i \in DOMAIN ns.stack : ns.stack[i].kind = "class"} IN
  IF classes = {} THEN << >> ELSE <<ns.stack[CHOOSE i \in classes : \A j \in classes : j <= i]>>

------------------------------------------------------------------------------
(* The ends of blocks. *)

ClassCheckEnd(b, doc, linenum) ==
  LET macros == {i \in 1 .. linenum - 1 : i > b.starting_linenum /\ doc.elided[i].disallow = b.name}
      last == Latest(macros, 0)
      l == doc.elided[linenum]
  IN (IF macros # {} /\ \E i \in last + 1 .. linenum - 1 : ~IsBlankLine(doc.elided[i])
      THEN <<<<last, "readability/constructors", 3>>>> ELSE << >>)
     \o IF l.toks # << >> /\ l.toks[1] = "}" /\ l.indent # b.class_indent
        THEN <<<<linenum, "whitespace/indent", 3>>>> ELSE << >>

NamespaceCheckEnd(b, doc, linenum) ==
  LET nsend == doc.raw_lines[linenum].nsend
      wanted == IF b.name = "" THEN "anonymous" ELSE b.name
  IN IF (linenum - b.starting_linenum < NamespaceLines /\ nsend = "") \/ nsend = wanted
     THEN << >> ELSE <<<<linenum, "readability/namespace", 5>>>>

CheckEnd(b, doc, linenum) ==
  CASE b.kind = "class" -> ClassCheckEnd(b, doc, linenum)
    [] b.kind = "namespace" -> NamespaceCheckEnd(b, doc, linenum)
    [] OTHER -> << >>

CheckCompletedBlocks(ns) ==
  LET of(b) == CASE b.kind = "class" -> <<<<b.starting_linenum, "build/class", 5>>>>
                 [] b.kind = "namespace" -> <<<<b.starting_linenum, "build/namespaces", 5>>>>
                 [] OTHER -> << >>
  IN FlattenSeq([i \in DOMAIN ns.stack |-> of(ns.stack[i])])

------------------------------------------------------------------------------
(* One line. *)

\* from[k, p]: as of token p of line k.
InTemplateArgumentList(doc, linenum, pos) ==
  LET from[k \in 1 .. NumLines(doc) + 1, p \in Nat] ==
        IF k > NumLines(doc) THEN FALSE
        ELSE
        LET line == doc.elided[k].toks
            at == First({i \in p .. Len(line) : line[i] \in {"{", "}", ";", "=", "[", "]", ".", "<", ">"}}, 0)
            close == CloseExpression(doc, k, at)
        IN IF at = 0 THEN from[k + 1, 1]
           ELSE CASE line[at] \in {"{", "}", ";"} -> FALSE
                  [] line[at] = "<" -> close.pos >= 0 /\ from[close.linenum, close.pos]
                  [] OTHER -> TRUE
  IN from[linenum, pos]

\* A mutation: each #else saves the stack for the #endif, not the first alone.
SavedAtEachElse(top, stack) == stack

\* What an #else or #elif keeps for the #endif: the stack at the end of the first branch.
SavedBeforeElse(top, stack) == IF top.seen_else THEN top.stack_before_else ELSE stack

UpdatePreprocessor(ns, l) ==
  LET top == Top(ns.pp_stack) IN
  CASE l.dir \in {"if", "ifdef", "ifndef"} ->
         [ns EXCEPT !.pp_stack = Append(@, _PreprocessorInfo(ns.stack))]
    [] l.dir \in {"else", "elif"} /\ ns.pp_stack # << >> ->
         [ns EXCEPT !.stack = top.stack_before_if,
                    !.pp_stack = Append(Pop(@), [top EXCEPT !.seen_else = TRUE,
                                                            !.stack_before_else = SavedBeforeElse(top, ns.stack)])]
    [] l.dir = "endif" /\ ns.pp_stack # << >> ->
         [ns EXCEPT !.stack = IF top.seen_else THEN top.stack_before_else ELSE @,
                    !.pp_stack = Pop(@)]
    [] OTHER -> ns

StartsAsm(toks) == Len(toks) > 1 /\ toks[1] = "asm" /\ toks[2] \in {"{", "("}

\* The parentheses of the line, and whether it begins or ends inline assembly.
CountParentheses(stack, toks) ==
  LET change == CountOf("(", toks) - CountOf(")", toks)
      open == Top(stack).open_parentheses + change
      asm == Top(stack).inline_asm
      next == IF asm \in {"NO", "END"}
              THEN IF change # 0 /\ open = 1 /\ StartsAsm(toks) THEN "INSIDE" ELSE "NO"
              ELSE IF asm = "INSIDE" /\ open = 0 THEN "END" ELSE asm
  IN IF stack = << >> THEN stack
     ELSE [stack EXCEPT ![Len(stack)].open_parentheses = open, ![Len(stack)].inline_asm = next]

\* The namespaces at the head of the line: the stack and what is left of it.
\* from[p]: those at token p, and the position after them.
ConsumeNamespaces(stack, toks, linenum) ==
  LET from[p \in 1 .. Len(toks) + 1] ==
        IF p > Len(toks) \/ toks[p] # "namespace" THEN [opened |-> << >>, rest |-> p]
        ELSE
        LET named == p < Len(toks) /\ IsWord(toks[p + 1])
            new == _NamespaceInfo(IF named THEN toks[p + 1] ELSE "", linenum)
            rest == IF named THEN p + 2 ELSE p + 1
            brace == First({i \in rest .. Len(toks) : toks[i] = "{"}, 0)
        IN [from[IF brace = 0 THEN rest ELSE brace + 1] EXCEPT
              !.opened = <<[new EXCEPT !.seen_open_brace = brace # 0]>> \o @]
      all == from[1]
  IN [stack |-> stack \o all.opened, toks |-> SubSeq(toks, all.rest, Len(toks))]

\* Where "class" is in "class X" or "template <...> class X" at the head, or 0.
ClassHead(toks) ==
  LET heads(at) == {i \in at : i < Len(toks) /\ toks[i] \in {"class", "struct"} /\ IsWord(toks[i + 1])}
      after == {i \in 4 .. Len(toks) : /\ toks[i - 1] = ">"
                                       /\ \A j \in 3 .. i - 2 : IsWord(toks[j]) \/ toks[j] \in {"<", ">", ",", "="}}
      found == heads(after)
  IN IF Len(toks) > 1 /\ toks[1] = "template" /\ toks[2] = "<"
     THEN IF found = {} THEN 0 ELSE CHOOSE i \in found : \A j \in found : j <= i
     ELSE IF heads({1}) = {} THEN 0 ELSE 1

\* From the rest of the line as of here, r = [stack, toks].
ConsumeClass(r, doc, linenum) ==
  LET head == ClassHead(r.toks) IN
  IF /\ head # 0
     /\ r.stack = << >> \/ Top(r.stack).open_parentheses = 0
     /\ ~InTemplateArgumentList(doc, linenum, head + 2)
  THEN [stack |-> Append(r.stack, _ClassInfo(r.toks[head + 1], doc, linenum)),
        toks |-> SubSeq(r.toks, head + 2, Len(r.toks))]
  ELSE r

\* An access specifier that only blanks precede is indented by one.
CheckAccess(stack, toks, l, linenum) ==
  LET last == {i \in DOMAIN toks : toks[i] \in Access} IN
  IF IsKind(stack, "class") /\ last = {1} /\ Len(toks) = Len(l.toks) /\ l.indent # Top(stack).class_indent + 1
  THEN <<<<linenum, "whitespace/indent", 3>>>> ELSE << >>

\* The braces, semicolons and closing parentheses of what is left of the line:
\* the stack and the errors after token p, which rest begins before.
ConsumeBraces(stack, toks, doc, linenum) ==
  LET tokens == {i \in DOMAIN toks : toks[i] \in {"{", ";", "}", ")"}}
      rest(p) == SubSeq(toks, Latest({i \in tokens : i < p}, 0) + 1, Len(toks))
      opened(s, r) ==
        CASE ~SeenOpenBrace(s) -> [s EXCEPT ![Len(s)].seen_open_brace = TRUE]
          [] SeenOpenBrace(s) /\ Len(r) > 2 /\ SubSeq(r, 1, 3) = <<"extern", "str", "{">> ->
               Append(s, _ExternCInfo(linenum))
          [] OTHER -> Append(s, [_BlockInfo(linenum, TRUE) EXCEPT !.inline_asm = IF StartsAsm(r) THEN "BLOCK" ELSE "NO"])
      after(s, p) ==
        CASE toks[p] = "{" -> opened(s, rest(p))
          [] toks[p] \in {";", ")"} -> IF SeenOpenBrace(s) THEN s ELSE Pop(s)
          [] OTHER -> IF s = << >> THEN s ELSE Pop(s)
      ended(s, p) == IF toks[p] = "}" /\ s # << >> THEN CheckEnd(Top(s), doc, linenum) ELSE << >>
      upto[p \in 0 .. Len(toks)] ==
        IF p = 0 THEN [stack |-> stack, errors |-> << >>]
        ELSE LET was == upto[p - 1] IN
             IF p \notin tokens THEN was
             ELSE [stack |-> after(was.stack, p), errors |-> was.errors \o ended(was.stack, p)]
  IN upto[Len(toks)]

ConsumeRest(r, doc, linenum) ==
  LET braces == ConsumeBraces(r.stack, r.toks, doc, linenum) IN
  [braces EXCEPT !.errors = CheckAccess(r.stack, r.toks, doc.elided[linenum], linenum) \o @]

\* Update after UpdatePreprocessor.
UpdateBlocks(stack, doc, linenum) ==
  LET toks == doc.elided[linenum].toks IN
  ConsumeRest(ConsumeClass(ConsumeNamespaces(CountParentheses(stack, toks), toks, linenum), doc, linenum),
              doc, linenum)

Update(ns, doc, linenum) ==
  LET checkpointed == UpdatePreprocessor(ns, doc.elided[linenum])
      r == UpdateBlocks(checkpointed.stack, doc, linenum)
  IN [state |-> [checkpointed EXCEPT !.previous_stack_top = IF ns.stack = << >> THEN << >> ELSE <<Top(ns.stack)>>,
                                     !.stack = r.stack],
      errors |-> r.errors]

------------------------------------------------------------------------------
(* The text that the stack follows, which the checkpoints are for. *)

\* The #if groups that are open after a line k with the directive: of each the line
\* of its #if and the number of #else and #elif since.
Branched(open, dir, k) ==
  CASE dir \in {"if", "ifdef", "ifndef"} -> Append(open, <<k, 0>>)
    [] dir \in {"else", "elif"} /\ open # << >> -> Append(Pop(open), <<Top(open)[1], Top(open)[2] + 1>>)
    [] dir = "endif" /\ open # << >> -> Pop(open)
    [] OTHER -> open

\* Per line, those that are open after it.
Branches(doc) ==
  LET after[k \in 0 .. NumLines(doc)] ==
        IF k = 0 THEN << >> ELSE Branched(after[k - 1], doc.elided[k].dir, k)
  IN after

\* Whether line k counts, when the groups in now are open and the others have
\* ended: of an open group the branch that is being read, of another the first.
Live(doc, now, k) ==
  \A g \in ToSet(Branches(doc)[k]) : IF \E h \in now : h[1] = g[1] THEN g \in now ELSE g[2] = 0

\* Per line, the blocks that are open in the lines up to it that count.
BlocksOf(doc, now) ==
  LET stack[k \in 0 .. NumLines(doc)] ==
        IF k = 0 THEN << >>
        ELSE IF Live(doc, now, k) THEN UpdateBlocks(stack[k - 1], doc, k).stack ELSE stack[k - 1]
  IN stack

\* What the checkpoints hold after line n: where the mth of the open groups b began,
\* the blocks of the text before it, and if it has had an #else or #elif, those of
\* the text without its later branches.
Outer(b, m) == {b[p] : p \in 1 .. m - 1}
Checkpoint(doc, info, b, m, n) ==
  /\ info = [stack_before_if |-> info.stack_before_if, stack_before_else |-> info.stack_before_else,
             seen_else |-> info.seen_else]
  /\ info.stack_before_if = BlocksOf(doc, Outer(b, m))[b[m][1] - 1]
  /\ info.seen_else <=> b[m][2] # 0
  /\ info.seen_else => info.stack_before_else = BlocksOf(doc, Outer(b, m))[n]
Checkpoints(doc, ns, n) ==
  LET b == Branches(doc)[n] IN
  /\ ns = [stack |-> ns.stack, previous_stack_top |-> ns.previous_stack_top, pp_stack |-> ns.pp_stack]
  /\ ns.stack = BlocksOf(doc, ToSet(b))[n]
  /\ Len(ns.pp_stack) = Len(b) /\ ns.pp_stack = [m \in 1 .. Len(b) |-> ns.pp_stack[m]]
  /\ \A m \in 1 .. Len(b) : Checkpoint(doc, ns.pp_stack[m], b, m, n)

------------------------------------------------------------------------------
(* The checks that read the stack. *)

IsMacroDefinition(doc, linenum) ==
  doc.elided[linenum].dir = "define" \/ (linenum > 1 /\ doc.elided[linenum - 1].cont)

IsForwardClassDeclaration(l) ==
  LET n == Len(l.toks) IN
  n > 2 /\ l.toks[n] = ";" /\ IsWord(l.toks[n - 1]) /\ l.toks[n - 2] = "class"

IsBlockInNameSpace(stack, is_forward_declaration) ==
  IF is_forward_declaration THEN IsKind(stack, "namespace")
  ELSE /\ Len(stack) > 1
       /\ Top(stack).check_namespace_indentation
       /\ stack[Len(stack) - 1].kind = "namespace"

\* previous_stack_top == stack[-2] compares objects: a directive puts copies on
\* the stack.
IsNamespaceIndentItem(ns, l) ==
  LET under == ns.stack[Len(ns.stack) - 1] IN
  /\ Len(ns.stack) > 1
  /\ Top(ns.stack).check_namespace_indentation
  /\ IsKind(ns.previous_stack_top, "namespace")
  /\ l.dir = ""
  /\ Top(ns.previous_stack_top).starting_linenum = under.starting_linenum
  /\ Top(ns.previous_stack_top).name = under.name

CheckForNamespaceIndentation(ns, doc, linenum) ==
  LET l == doc.elided[linenum]
      forward == IsForwardClassDeclaration(l)
  IN IF /\ forward \/ IsNamespaceIndentItem(ns, l)
        /\ ~IsMacroDefinition(doc, linenum)
        /\ IsBlockInNameSpace(ns.stack, forward)
        /\ l.indent > 0
     THEN <<<<linenum, "runtime/indentation_namespace", 4>>>> ELSE << >>

CheckSectionSpacing(ns, doc, linenum) ==
  LET class == InnermostClass(ns)
      c == class[1]
      prev == doc.elided[linenum - 1]
      toks == doc.elided[linenum].toks
      head == First({i \in c.starting_linenum .. linenum - 1 :
                       doc.elided[i].toks # << >> /\ Top(doc.elided[i].toks) = "{"}, c.starting_linenum)
  IN IF /\ class # << >>
        /\ c.last_line - c.starting_linenum > SectionLines
        /\ linenum > c.starting_linenum
        /\ toks # << >> /\ toks[1] \in Access
        /\ ~IsBlankLine(prev)
        /\ \A i \in DOMAIN prev.toks : prev.toks[i] \notin {"class", "struct"}
        /\ ~prev.cont
        /\ head < linenum - 1
     THEN <<<<linenum, "whitespace/blank_line", 3>>>> ELSE << >>
===============================================================================
