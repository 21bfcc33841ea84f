------------------------------- MODULE CpplintMC -------------------------------
(***************************************************************************)
(* Six themes, one per part of the program: all texts of a few lines over *)
(* the lines that matter to the part.  A scenario names its theme, its     *)
(* options and the CPPLINT.cfg of the directories /, /lib and /lib/sub.    *)
(* The thresholds are small: a namespace of 3 lines, a class of 4, a       *)
(* function of 1 (TEST: 2), doubled per step of verbosity.                 *)
(***************************************************************************)
EXTENDS Cpplint, TLC

Toks(t) == [Plain EXCEPT !.toks = t]
Dir(d, macro) == [Plain EXCEPT !.dir = d, !.macro = macro]
Inc(h, sys) == [Plain EXCEPT !.dir = "include", !.inc = h, !.sys = sys]
Finds(c, n) == [Toks(<<"x", ";">>) EXCEPT !.found = {<<c, n>>}]
Nolint(l, where, c) == [l EXCEPT !.nolint = <<where, c>>]
Marked(m) == [Plain EXCEPT !.marks = {m}]

Lines ==
  [blank |-> Plain, Copyright |-> Marked("Copyright"),
   \* blocks
   namespace |-> Toks(<<"namespace", "a", "{">>), anonymous |-> Toks(<<"namespace", "{">>),
   class |-> Toks(<<"class", "A", "{">>),
   indented |-> [Toks(<<"class", "A", "{">>) EXCEPT !.indent = 2],
   forward |-> [Toks(<<"class", "B", ";">>) EXCEPT !.indent = 2],
   head |-> Toks(<<"class", "A">>), open |-> Toks(<<"{">>), close |-> Toks(<<"}">>),
   closeindented |-> [Toks(<<"}", ";">>) EXCEPT !.indent = 2],
   closenamespace |-> [Toks(<<"}">>) EXCEPT !.nsend = "a", !.slashes = TRUE],
   template |-> Toks(<<"template", "<", "class", "T", ",">>), templated |-> Toks(<<"class", "U", ">">>),
   templateclass |-> Toks(<<"template", "<", "class", "T", ">", "class", "C", "{">>),
   argument |-> Toks(<<"class", "V", "<", "int", ">", "x", ")", ";">>),
   call |-> Toks(<<"f", "(">>), function |-> Toks(<<"f", "(", ")", "{">>), test |-> Toks(<<"TEST", "(", ")", "{">>),
   paren |-> Toks(<<")", ";">>), statement |-> [Toks(<<"x", ";">>) EXCEPT !.indent = 2],
   asm |-> [Toks(<<"asm", "(">>) EXCEPT !.indent = 2],
   asmblock |-> [Toks(<<"asm", "{">>) EXCEPT !.found = {<<"build/c++11", 5>>, <<"runtime/int", 4>>}],
   extern |-> Toks(<<"extern", "str", "{">>), public |-> Toks(<<"public:">>),
   disallow |-> [Toks(<<"M", "(", "A", ")", ";">>) EXCEPT !.disallow = "A", !.indent = 2],
   if |-> Dir("if", ""), else |-> Dir("else", ""), elif |-> Dir("elif", ""), endif |-> Dir("endif", ""),
   \* includes
   own |-> Inc("own", FALSE), maybe |-> Inc("maybe", FALSE), stdio |-> Inc("stdio", TRUE),
   vector |-> Inc("vector", TRUE), other |-> Inc("other", FALSE), second |-> Inc("second", FALSE),
   third |-> Inc("third", FALSE), source |-> Inc("source", FALSE), bare |-> Inc("bare", FALSE),
   uses |-> [Toks(<<"x", ";">>) EXCEPT !.uses = {"vector", "string"}],
   \* guards
   ifndef |-> Dir("ifndef", "G"), ifndefold |-> Nolint(Dir("ifndef", "G_"), "line", "build/include"),
   ifndefother |-> Nolint(Dir("ifndef", "X"), "line", "unknown"),
   ifndefnext |-> Nolint(Dir("ifndef", "X"), "next", "build/header_guard"),
   define |-> Dir("define", "G"), defineother |-> Dir("define", "X"), defineold |-> Dir("define", "G_"),
   endifguard |-> [Dir("endif", "G") EXCEPT !.slashes = TRUE],
   endifold |-> [Dir("endif", "G_") EXCEPT !.slashes = TRUE], endifcomment |-> Dir("endif", "G"),
   nolintguard |-> Nolint(Plain, "line", "build/header_guard"),
   nextguard |-> Nolint([Plain EXCEPT !.slashes = TRUE], "next", "build/header_guard"),
   pragma |-> Dir("pragma once", ""),
   \* errors
   int |-> Finds("runtime/int", 4), casting |-> Finds("readability/casting", 4), tab |-> Finds("whitespace/tab", 1),
   intnolint |-> Nolint(Finds("runtime/int", 4), "line", "*"),
   intother |-> Nolint(Finds("runtime/int", 4), "line", "whitespace/tab"),
   next |-> Nolint(Plain, "next", "*"), nextint |-> Nolint(Plain, "next", "runtime/int"),
   unknown |-> Nolint(Finds("runtime/int", 4), "line", "unknown"),
   legacy |-> Nolint(Finds("runtime/int", 4), "line", "readability/streams"),
   cfile |-> Marked("LINT_C_FILE"), kernel |-> Marked("LINT_KERNEL_FILE"),
   utf8 |-> Marked("utf8"), nul |-> Marked("NUL"), cr |-> Marked("CR"),
   comment |-> [Nolint(Plain, "next", "*") EXCEPT !.opens = TRUE],
   commentend |-> [Plain EXCEPT !.ends = TRUE],
   raw |-> [Finds("runtime/int", 4) EXCEPT !.raw = "begin"],
   rawend |-> [Toks(<<"}">>) EXCEPT !.raw = "end", !.tail = <<";">>],
   long |-> [Plain EXCEPT !.width = 90, !.slashes = TRUE],
   \* bodies
   ifhead |-> Toks(<<"if", "(", "a">>), whilehead |-> Toks(<<"while", "(", "a">>),
   ifwhole |-> Toks(<<"if", "(", "a", ")", ";">>), tail |-> Toks(<<"b", ")", ";">>),
   tailnolint |-> Nolint(Toks(<<"b", ")", ";">>), "line", "*"),
   tailunknown |-> Nolint(Toks(<<"b", ")", ";">>), "line", "unknown"),
   tailnext |-> Nolint(Toks(<<"b", ")">>), "next", "*"), tailopen |-> Toks(<<"b", ")", "{">>),
   lambda |-> [Toks(<<"a", "=", "[", "]", "(", ")", "{">>) EXCEPT !.spared = TRUE],
   elseopen |-> Toks(<<"}", "else", "{">>), both |-> Toks(<<"{", "}">>), closed |-> Toks(<<"}", ";">>),
   closednolint |-> Nolint(Toks(<<"}", ";">>), "line", "*"),
   closedunknown |-> Nolint(Toks(<<"}", ";">>), "line", "unknown"),
   closedempty |-> Nolint(Toks(<<"}", ";", "b", ")", ";">>), "line", "whitespace/empty_conditional_body")]

File(dir, own, ext) ==
  [dir |-> dir, public |-> "public", base |-> own, first |-> own, own |-> own, ext |-> ext,
   headers |-> {}, test |-> FALSE, readable |-> TRUE, newline |-> TRUE, cppvar |-> "G"]
Hdr(dir, base, ext, alpha) ==
  [dir |-> dir, base |-> base, first |-> base, own |-> base, ext |-> ext, cpp |-> FALSE, third |-> FALSE, alpha |-> alpha]
Headers ==
  [own |-> Hdr("lib", "a", "h", 4),
   maybe |-> [Hdr("lib", "a-x", "h", 3) EXCEPT !.first = "a"],
   stdio |-> Hdr("", "stdio", "h", 7), vector |-> [Hdr("", "vector", "", 8) EXCEPT !.cpp = TRUE],
   other |-> Hdr("net", "o", "h", 5), second |-> Hdr("lib", "a", "hpp", 6),
   third |-> [Hdr("", "Third", "h", 2) EXCEPT !.third = TRUE],
   source |-> Hdr("net", "o", "cc", 1), bare |-> Hdr("", "b", "h", 9)]
Contents == [own |-> {"string"}, other |-> {}]

Groups ==
  [c \in {"build/class", "build/c++11", "build/header_guard", "build/include", "build/include_alpha",
          "build/include_order", "build/include_subdir", "build/include_what_you_use", "build/namespaces"} |-> "build"]
  @@ [c \in {"legal/copyright"} |-> "legal"]
  @@ [c \in {"readability/casting", "readability/constructors", "readability/fn_size",
             "readability/braces", "readability/multiline_comment", "readability/namespace", "readability/nolint",
             "readability/nul", "readability/utf8"} |-> "readability"]
  @@ [c \in {"runtime/indentation_namespace", "runtime/int"} |-> "runtime"]
  @@ [c \in EmptyBodies |-> "whitespace"]
  @@ [c \in {"whitespace/blank_line", "whitespace/ending_newline", "whitespace/indent",
             "whitespace/line_length", "whitespace/newline", "whitespace/tab"} |-> "whitespace"]

------------------------------------------------------------------------------
(* Options and configuration files. *)

Minus(c) == [sign |-> "-", on |-> c]
Plus(c) == [sign |-> "+", on |-> c]

Defaults == [filenames |-> <<<<"lib", "a.cc">>>>, recursive |-> FALSE, exclude |-> {}, filters |-> << >>,
             verbose |-> 1, counting |-> "total", quiet |-> FALSE, extensions |-> {}, headers |-> {}, linelength |-> 80]
Options ==
  [default |-> Defaults,
   header |-> [Defaults EXCEPT !.filenames = <<<<"d.h">>>>, !.verbose = 0],
   strict |-> [Defaults EXCEPT !.verbose = 0, !.filters = <<Minus("whitespace"), Plus("whitespace/tab"), Plus("build")>>,
                               !.counting = "toplevel"],
   quiet |-> [Defaults EXCEPT !.quiet = TRUE, !.verbose = 4, !.filters = <<Minus("legal/copyright")>>,
                              !.counting = "detailed"],
   tree |-> [Defaults EXCEPT !.filenames = <<<<"lib", "sub", "b.cc">>, <<"lib", "gone.cc">>, <<"lib", "c.txt">>, <<"lib", "a.cc">>, <<"d.h">>>>,
                             !.filters = <<Minus("readability")>>],
   recursive |-> [Defaults EXCEPT !.filenames = <<<<"lib">>>>, !.recursive = TRUE, !.quiet = TRUE,
                                  !.exclude = {<<"lib", "gone.cc">>}],
   nothing |-> [Defaults EXCEPT !.filenames = << >>],
   wrong |-> [Defaults EXCEPT !.filters = <<[sign |-> "r", on |-> "runtime"]>>]]

Set(name) == [name |-> name, filters |-> << >>, names |-> {}, number |-> 0]
Cfg(lines) == [readable |-> TRUE, lines |-> lines]
Configs ==
  [filter |-> Cfg(<<[Set("filter") EXCEPT !.filters = <<Minus("runtime/int"), Plus("readability")>>],
                    [Set("filter") EXCEPT !.filters = <<Plus("runtime")>>]>>),
   top |-> Cfg(<<Set("set noparent"), [Set("filter") EXCEPT !.filters = <<Minus("")>>]>>),
   exclude |-> Cfg(<<[Set("filter") EXCEPT !.filters = <<Minus("runtime")>>],
                     [Set("exclude_files") EXCEPT !.names = {"a.cc", "sub"}]>>),
   size |-> Cfg(<<[Set("linelength") EXCEPT !.number = 100], [Set("extensions") EXCEPT !.names = {"cc", "txt"}],
                  [Set("headers") EXCEPT !.names = {"h", "hpp"}]>>),
   unreadable |-> [readable |-> FALSE, lines |-> << >>],
   wrong |-> Cfg(<<[Set("filter") EXCEPT !.filters = <<[sign |-> "r", on |-> "runtime"]>>]>>)]

Directories == [root |-> << >>, lib |-> <<"lib">>, sub |-> <<"lib", "sub">>]

------------------------------------------------------------------------------
(* Texts. *)

Upto(n, alphabet) == UNION {[1 .. k -> alphabet] : k \in 0 .. n}
Of(path, texts) == {[p \in {path} |-> t] : t \in texts}

Blocks ==
  Upto(5, {"class", "close", "if", "else", "elif", "endif"})
  \cup Upto(3, {"namespace", "anonymous", "indented", "forward", "head", "close", "closenamespace", "template",
                "templated", "argument", "paren", "asm"})
  \cup Upto(2, {"namespace", "indented", "head", "open", "close", "closeindented", "templateclass", "call", "paren",
                "asm", "asmblock", "extern", "public", "disallow", "statement"})
  \cup {<<"namespace", "class", "close", "close">>, <<"namespace", "indented", "closeindented", "closenamespace">>,
        <<"namespace", "statement", "statement", "close">>, <<"namespace", "namespace", "forward", "closenamespace">>,
        <<"class", "disallow", "statement", "close">>, <<"class", "public", "statement", "public", "statement", "close">>,
        <<"function", "statement", "statement", "statement", "close">>,
        <<"test", "statement", "statement", "statement", "statement", "statement", "close">>,
        <<"open", "asm", "statement", "paren", "statement", "close">>,
        <<"open", "asm", "if", "paren", "else", "statement", "endif", "close">>,
        <<"extern", "function", "if", "class", "else", "head", "elif", "open", "endif", "close", "close", "close">>}
Includes ==
  Upto(4, {"own", "stdio", "vector", "other", "if", "else", "elif", "endif"})
  \cup Upto(3, {"own", "maybe", "stdio", "vector", "other", "second", "third", "source", "bare", "uses"})
Guards ==
  Upto(3, {"ifndef", "ifndefold", "ifndefother", "define", "defineother", "defineold", "endifguard", "endifold",
           "endifcomment", "nolintguard", "nextguard", "pragma", "long"})
  \cup {<<a, b, c, d>> : a \in {"ifndef", "ifndefold", "ifndefother"}, b \in {"define", "defineold", "defineother"},
                         c \in {"nextguard", "next", "class", "int"}, d \in {"endifguard", "endifold", "endifcomment", "endif"}}
  \cup {<<"defineother", "ifndefnext", "endifold">>, <<"next", "ifndefother", "defineother">>}
Errors ==
  Upto(3, {"int", "casting", "intnolint", "next", "nextint", "unknown", "cfile", "comment", "commentend", "raw", "rawend", "long"})
  \cup Upto(2, {"int", "casting", "tab", "intnolint", "intother", "next", "legacy", "cfile", "kernel", "utf8", "nul", "cr"})
Bodies ==
  Upto(3, {"ifhead", "whilehead", "ifwhole", "tail", "tailnolint", "tailunknown", "tailnext", "tailopen", "open", "close",
           "lambda", "elseopen", "both", "closed", "closednolint", "next"})
  \cup Upto(4, {"ifhead", "tail", "tailnolint", "tailopen", "closednolint", "closedunknown", "next"})
  \cup {<<"function", "ifhead", a, b, c>> : a \in {"blank", "tailnext", "next"},
                                          b \in {"closedempty", "tailnolint", "closednolint"}, c \in {"blank", "tail"}}
Trees ==
  {[p \in {<<"lib", "sub", "b.cc">>, <<"lib", "c.txt">>, <<"lib", "a.cc">>, <<"d.h">>, <<"lib", "gone.cc">>} |->
      CASE p = <<"lib", "sub", "b.cc">> -> <<"nextint", "cfile", "next">>
        [] p = <<"lib", "c.txt">> -> <<"long">>
        [] p = <<"lib", "a.cc">> -> <<"int", "casting", t>>
        [] p = <<"d.h">> -> <<"ifndef", "define", "int", "unknown", "endifold">>
        [] OTHER -> << >>] : t \in {"long", "tab"}}

Named ==
  {<<t, "default", "none", "none", "none">> : t \in {"blocks", "includes", "bodies"}}
  \cup {<<"guards", "header", "none", "none", "none">>}
  \cup {<<"errors", o, "none", "none", "none">> : o \in {"default", "strict", "quiet"}}
  \cup {<<"trees", o, c, d, "none">> : o \in {"nothing", "wrong"}, c \in {"none"}, d \in {"none"}}
  \cup {<<"trees", o, c, d, e>> : o \in {"tree", "recursive"}, c \in {"none", "filter", "size", "wrong"},
                                  d \in {"none", "filter", "top", "exclude", "size", "unreadable"},
                                  e \in {"none", "filter", "top", "exclude", "unreadable"}}

Texts == [blocks |-> Of(<<"lib", "a.cc">>, Blocks), includes |-> Of(<<"lib", "a.cc">>, Includes),
          guards |-> Of(<<"d.h">>, Guards), errors |-> Of(<<"lib", "a.cc">>, Errors), bodies |-> Of(<<"lib", "a.cc">>, Bodies), trees |-> Trees]

MCFiles(theme) ==
  [p \in {<<"lib", "sub", "b.cc">>, <<"lib", "c.txt">>, <<"lib", "a.cc">>, <<"d.h">>, <<"lib", "gone.cc">>} |->
     CASE p = <<"lib", "sub", "b.cc">> -> [File("lib/sub", "b_test", "cc") EXCEPT !.test = TRUE]
       [] p = <<"lib", "c.txt">> -> File("lib", "c", "txt")
       [] p = <<"lib", "a.cc">> -> [File("lib", "a", "cc") EXCEPT !.headers = IF theme = "includes" THEN {"h", "hpp"} ELSE {},
                                                                  !.newline = theme # "errors"]
       [] p = <<"d.h">> -> File("", "d", "h")
       [] OTHER -> [File("lib", "gone", "cc") EXCEPT !.readable = FALSE]]

Configured ==
  [s \in Named |->
     LET chosen == [dir \in {<< >>, <<"lib">>, <<"lib", "sub">>} |-> s[3 + Len(dir)]] IN
     [options |-> Options[s[2]], files |-> MCFiles(s[1]), texts |-> Texts[s[1]],
      configs |-> [dir \in {d \in DOMAIN chosen : chosen[d] # "none"} |-> Configs[chosen[dir]]]]]
\* TLC evaluates a definition once, and one that replaces a constant at each use.
MCLine == Lines
MCHeader == Headers
MCHeaderContents == Contents
MCGroup == Groups
MCScenarios == Named
MCScenario == Configured
===============================================================================
