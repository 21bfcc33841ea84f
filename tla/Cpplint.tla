-------------------------------- MODULE Cpplint --------------------------------
(***************************************************************************)
(* build_support/cpplint.py: the command line, the CPPLINT.cfg files of    *)
(* the directories above a file, and the files linted one after another,   *)
(* line by line, over state that the whole run shares (_cpplint_state,     *)
(* _error_suppressions, _line_length, ...).                                *)
(*                                                                         *)
(* A scenario is a command line and a tree of files; the texts of its      *)
(* files are chosen at the start.  Messages, output formats and JUnit are  *)
(* left out: reported is what is printed.                                  *)
(***************************************************************************)
EXTENDS CpplintChecks

CONSTANTS
  Scenarios,   \* their names
  Scenario,    \* [options, files (path -> file), configs (directory -> its CPPLINT.cfg),
               \*  texts (the set of functions from paths to sequences of lines)]
  Group        \* "build" of "build/class": its domain is _ERROR_CATEGORIES

Rule == [sign : STRING, on : STRING]
Option == [name : STRING, filters : Seq(Rule), names : SUBSET STRING, number : Nat]

\* The paths that may be linted in scenario s.
Reachable(s) == IF Scenario[s].options.recursive THEN DOMAIN Scenario[s].files ELSE ToSet(Scenario[s].options.filenames)

\* The files, the options and the texts are finite, and each path that may be
\* linted has a text, and the finitely many headers that lie beside it.
ASSUME LintAssumption ==
  \A s \in Scenarios :
    LET sc == Scenario[s] IN
    /\ IsFiniteSet(DOMAIN sc.files) /\ DOMAIN sc.files \subseteq Seq(STRING)
    /\ sc.options.filenames \in Seq(Seq(STRING))
    /\ sc.options.filters \in Seq(Rule)
    /\ \A d \in DOMAIN sc.configs : sc.configs[d].lines \in Seq(Option)
    /\ \A t \in sc.texts : \A p \in Reachable(s) : t[p] \in Seq(DOMAIN Line)
    /\ \A p \in Reachable(s) : IsFiniteSet(sc.files[p].headers)

\* None of the other checks of a single line reports the header guard, an #include
\* for its place or as a duplicate, or an empty body.
ASSUME LineAssumption ==
  \A n \in DOMAIN Line :
    LET l == Line[n] IN
    /\ DOMAIN l = DOMAIN Plain
    /\ l.toks \in Seq(STRING) /\ l.tail \in Seq(STRING)
    /\ IsFiniteSet(l.uses) /\ IsFiniteSet(l.found)
    /\ \A e \in l.found : e[1] \notin {"build/header_guard", "build/include", "build/include_order"} \cup EmptyBodies

_LEGACY_ERROR_CATEGORIES == {"readability/streams", "readability/function"}
_DEFAULT_FILTERS == <<[sign |-> "-", on |-> "build/include_alpha"]>>

VARIABLES
  scenario, text,   \* the input, which no step changes
  pc,               \* "args", "files", "lines", "exit", "usage" or "crash"
  filenames,        \* the files that main has still to go through
  file,             \* the path ProcessFile has last been called for
  linenum,          \* the next line for ProcessLine
  doc,              \* the CleansedLines
  nesting_state, include_state, function_state,
  state,            \* _cpplint_state, of it: verbose_level, filters, _filters_backup,
                    \* error_count, errors_by_category, counting, quiet
  _line_length, _valid_extensions, _hpp_headers,
  suppress,         \* _error_suppressions and _global_error_suppressions
  found,            \* every call of Error for this file: <<line, category, confidence>>
  reported,         \* those of them that were printed
  done              \* the files of which "Done processing" is printed

lintInput == <<scenario, text>>
settings == <<_line_length, _valid_extensions, _hpp_headers>>
perFile == <<linenum, doc, nesting_state, include_state, function_state>>
lintVars == <<lintInput, pc, filenames, file, perFile, state, settings, suppress, found, reported, done>>

options == Scenario[scenario].options
files == Scenario[scenario].files
configs == Scenario[scenario].configs
TextLines(path) == [k \in DOMAIN text[path] |-> Line[text[path][k]]]

------------------------------------------------------------------------------
(* Extensions. *)

GetHeaderExtensions(valid, hpp) ==
  IF hpp # {} THEN hpp
  ELSE IF valid # {} THEN valid \cap {"h", "hh", "hpp", "hxx", "h++", "cuh"}
  ELSE {"h", "hh", "hpp", "hxx", "h++", "cuh"}
GetAllExtensions(valid, hpp) ==
  GetHeaderExtensions(valid, hpp) \cup IF valid # {} THEN valid ELSE {"c", "cc", "cpp", "cxx", "c++", "cu"}
headers == GetHeaderExtensions(_valid_extensions, _hpp_headers)
nonheaders == GetAllExtensions(_valid_extensions, _hpp_headers) \ headers

------------------------------------------------------------------------------
(* Suppressions and filters. *)

NoSuppressions == [lines |-> {}, global |-> {}]

\* A mutation: NOLINTNEXTLINE is taken for NOLINT.
SuppressedSameLine(nolint, k) == k

SuppressedLine(nolint, k) == IF nolint[1] = "next" THEN k + 1 ELSE k

\* The suppressions after the line, and the error for a category nobody knows.
ParseNolintSuppressions(sup, l, k) ==
  LET category == l.nolint[2]
      suppressed_line == SuppressedLine(l.nolint, k)
  IN IF l.nolint = << >> THEN [state |-> sup, errors |-> << >>]
     ELSE IF category = "*" \/ category \in DOMAIN Group
     THEN [state |-> [sup EXCEPT !.lines = @ \cup {<<category, suppressed_line>>}], errors |-> << >>]
     ELSE [state |-> sup,
           errors |-> IF category \in _LEGACY_ERROR_CATEGORIES THEN << >>
                      ELSE <<<<k, "readability/nolint", 5>>>>]

ProcessGlobalSuppresions(lines) ==
  {"readability/casting" : k \in {k \in DOMAIN lines : "LINT_C_FILE" \in lines[k].marks}}
  \cup {"whitespace/tab" : k \in {k \in DOMAIN lines : "LINT_KERNEL_FILE" \in lines[k].marks}}

IsErrorSuppressedByNolint(sup, category, k) ==
  category \in sup.global \/ <<category, k>> \in sup.lines \/ <<"*", k>> \in sup.lines

\* category.startswith(filter)
Matches(filter, category) == filter.on \in {"", Group[category], category}

\* The last filter that matches decides.
IsFiltered(filters, category) ==
  LET matching == {i \in DOMAIN filters : Matches(filters[i], category)} IN
  matching # {} /\ filters[CHOOSE i \in matching : \A j \in matching : j <= i].sign = "-"

_ShouldPrintError(st, sup, e) ==
  /\ ~IsErrorSuppressedByNolint(sup, e[2], e[1])
  /\ e[3] >= st.verbose_level
  /\ ~IsFiltered(st.filters, e[2])

CountedAs(st, category) == IF st.counting = "toplevel" THEN Group[category] ELSE category

\* For each of the errors.
IncrementErrorCounts(st, errors) ==
  LET counted == {CountedAs(st, e[2]) : e \in ToSet(errors)}
      more(c) == Cardinality({k \in DOMAIN errors : CountedAs(st, errors[k][2]) = c})
  IN [st EXCEPT !.error_count = @ + Len(errors),
                !.errors_by_category =
                  IF st.counting \notin {"toplevel", "detailed"} THEN @
                  ELSE [c \in DOMAIN @ \cup counted |-> more(c) + IF c \in DOMAIN @ THEN @[c] ELSE 0]]

\* The elements of the sequence that are in S: SelectSeq, for a set.
Only(s, S) ==
  LET upto[k \in 0 .. Len(s)] ==
        IF k = 0 THEN << >> ELSE IF s[k] \in S THEN Append(upto[k - 1], s[k]) ELSE upto[k - 1]
  IN upto[Len(s)]

\* The calls of Error in the list, with the suppressions of that moment.
\* log: [state, found, reported].
Error(log, sup, errors) ==
  LET printed == Only(errors, {e \in ToSet(errors) : _ShouldPrintError(log.state, sup, e)}) IN
  [state |-> IncrementErrorCounts(log.state, printed),
   found |-> log.found \o errors, reported |-> log.reported \o printed]

------------------------------------------------------------------------------
(* CPPLINT.cfg. *)

BadFilter(filters) == \E i \in DOMAIN filters : filters[i].sign \notin {"+", "-"}

\* An option o of the file of a directory, for the entry base_name of it.  acc:
\* excluded, filters, line_length, valid, hpp, and over, at the last directory.
\* The filters are added when all files have been read, the last ones first.
Configure(acc, o, base_name) ==
  CASE o.name = "filter" -> [acc EXCEPT !.filters = o.filters \o @]
    [] o.name = "exclude_files" -> [acc EXCEPT !.excluded = base_name \in o.names]
    [] o.name = "linelength" -> [acc EXCEPT !.line_length = o.number]
    [] o.name = "extensions" -> [acc EXCEPT !.valid = o.names]
    [] o.name = "headers" -> [acc EXCEPT !.hpp = o.names]
    [] OTHER -> acc

\* The file of one directory.
ProcessConfig(acc, cfg, base_name) ==
  LET upto[k \in 0 .. Len(cfg.lines)] ==
        IF k = 0 THEN acc
        ELSE IF upto[k - 1].excluded THEN upto[k - 1] ELSE Configure(upto[k - 1], cfg.lines[k], base_name)
      all == upto[Len(cfg.lines)]
  IN IF cfg.readable
     THEN [all EXCEPT !.over = all.excluded \/ \E k \in DOMAIN cfg.lines : cfg.lines[k].name = "set noparent"]
     ELSE [acc EXCEPT !.over = TRUE]

\* upto[n]: after the files of the n nearest directories above the path.
ProcessConfigOverrides(path) ==
  LET dir(n) == SubSeq(path, 1, Len(path) - n)
      upto[n \in 0 .. Len(path)] ==
        IF n = 0
        THEN [excluded |-> FALSE, filters |-> << >>, line_length |-> _line_length,
              valid |-> _valid_extensions, hpp |-> _hpp_headers, over |-> FALSE]
        ELSE LET was == upto[n - 1] IN
             IF was.over \/ dir(n) \notin DOMAIN configs THEN was
             ELSE ProcessConfig(was, configs[dir(n)], path[Len(path) - n + 1])
  IN upto[Len(path)]

------------------------------------------------------------------------------
(* The command line. *)

\* The paths, in some order, that stand for the ones given; a directory stands
\* for all files below it.
Below(path, p) == IsPrefix(path, p)
_ExpandDirectories(given, valid, hpp) ==
  LET expanded == {p \in DOMAIN files : \E i \in DOMAIN given : Below(given[i], p)} IN
  SetToSeqs({p \in expanded : files[p].ext \in GetAllExtensions(valid, hpp)})

_FilterExcludedFiles(given) == Only(given, ToSet(given) \ options.exclude)

ParseArguments ==
  /\ pc = "args"
  /\ UNCHANGED <<lintInput, file, perFile, suppress, found, reported, done>>
  /\ _valid_extensions' = options.extensions
  /\ _hpp_headers' = options.headers
  /\ _line_length' = options.linelength
  /\ IF options.filenames = << >>
     THEN pc' = "usage" /\ UNCHANGED <<filenames, state>>
     ELSE /\ \E given \in IF options.recursive
                          THEN _ExpandDirectories(options.filenames, options.extensions, options.headers)
                          ELSE {options.filenames} :
               filenames' = _FilterExcludedFiles(given)
          /\ state' = [state EXCEPT !.quiet = options.quiet, !.verbose_level = options.verbose,
                                    !.counting = IF BadFilter(options.filters) THEN @ ELSE options.counting,
                                    !.filters = _DEFAULT_FILTERS \o options.filters]
          /\ pc' = IF BadFilter(options.filters) THEN "crash" ELSE "files"

------------------------------------------------------------------------------
(* One file. *)

\* A step s of a check that looks ahead: a = [log, suppress].
AheadStep(a, s, lines) ==
  LET l == IF s[2] = 0 THEN Plain ELSE lines[s[2]]
      parsed == ParseNolintSuppressions(a.suppress, l, s[2])
  IN IF s[1] = "parse"
     THEN [log |-> Error(a.log, parsed.state, parsed.errors), suppress |-> parsed.state]
     ELSE [log |-> Error(a.log, a.suppress, <<s[2]>>), suppress |-> a.suppress]

\* One of the check of the header guard.
GuardStep(a, s, clean_lines) == AheadStep(a, s, clean_lines.elided)

\* ProcessFileData up to its loop, with the suppressions as they come about.
CheckHead(log, f, lines, extensions) ==
  LET copyright == Error(log, NoSuppressions, CheckForCopyright(lines))
      global == [NoSuppressions EXCEPT !.global = ProcessGlobalSuppresions(lines)]
      removed == RemoveMultiLineComments(lines)
      clean_lines == CleansedLines(removed.lines)
      guard == IF f.ext \in extensions
               THEN CheckForHeaderGuard(clean_lines, f.cppvar) ELSE << >>
      upto[n \in 0 .. Len(guard)] ==
        IF n = 0 THEN [log |-> Error(copyright, global, removed.errors), suppress |-> global]
        ELSE GuardStep(upto[n - 1], guard[n], clean_lines)
      all == upto[Len(guard)]
  IN [log |-> all.log, suppress |-> all.suppress, doc |-> clean_lines]

\* A mutation: the filters of a file's directories stay on for the next file.
RestoreFiltersForgotten(st) == st

BackupFilters(st) == [st EXCEPT !._filters_backup = st.filters]
RestoreFilters(st) == [st EXCEPT !.filters = st._filters_backup]

\* ProcessFile up to the first line, and back when the file is excluded, cannot
\* be read or has no valid extension.
ProcessFile ==
  /\ pc = "files" /\ filenames # << >>
  /\ LET path == Head(filenames)
         f == files[path]
         lines == TextLines(path)
         cfg == ProcessConfigOverrides(path)
         backed == BackupFilters(state)
         filtered == [backed EXCEPT !.filters = @ \o cfg.filters]
         restored == RestoreFilters(filtered)
         head == CheckHead([state |-> filtered, found |-> << >>, reported |-> << >>], f, lines,
                           GetHeaderExtensions(cfg.valid, cfg.hpp))
     IN /\ filenames' = Tail(filenames)
        /\ file' = path
        /\ _line_length' = cfg.line_length
        /\ _valid_extensions' = cfg.valid
        /\ _hpp_headers' = cfg.hpp
        /\ CASE cfg.excluded ->
                  /\ pc' = "files" /\ state' = RestoreFilters(backed)
                  /\ found' = << >> /\ reported' = << >>
                  /\ UNCHANGED <<perFile, suppress, done>>
             [] ~cfg.excluded /\ BadFilter(filtered.filters) ->
                  /\ pc' = "crash" /\ state' = filtered
                  /\ UNCHANGED <<perFile, suppress, found, reported, done>>
             [] ~cfg.excluded /\ ~BadFilter(filtered.filters) /\ ~f.readable ->
                  /\ pc' = "files" /\ state' = restored
                  /\ found' = << >> /\ reported' = << >>
                  /\ UNCHANGED <<perFile, suppress, done>>
             [] ~cfg.excluded /\ ~BadFilter(filtered.filters) /\ f.readable
                  /\ f.ext \notin GetAllExtensions(cfg.valid, cfg.hpp) ->
                  /\ pc' = "files" /\ state' = restored
                  /\ found' = << >> /\ reported' = << >>
                  /\ done' = IF state.quiet THEN done ELSE Append(done, path)
                  /\ UNCHANGED <<perFile, suppress>>
             [] OTHER ->
                  /\ pc' = "lines" /\ linenum' = 1
                  /\ doc' = head.doc
                  /\ nesting_state' = NewNestingState
                  /\ include_state' = NewIncludeState
                  /\ function_state' = NewFunctionState
                  /\ suppress' = head.suppress
                  /\ state' = head.log.state
                  /\ found' = head.log.found /\ reported' = head.log.reported
                  /\ done' = done
  /\ UNCHANGED lintInput

FoundIn(l, k) == {<<k, e[1], e[2]>> : e \in l.found}

\* What one line is blamed for, in order.  In inline assembly only the blocks are
\* followed, and what FlagCxx11Features finds is reported.
LineErrors(nolint, nesting, functions, includes) ==
  LET l == doc.elided[linenum] IN
  nolint.errors \o nesting.errors
  \o CheckForNamespaceIndentation(nesting.state, doc, linenum)
  \o IF InAsmBlock(nesting.state) THEN SetToSeq({e \in FoundIn(l, linenum) : e[2] = "build/c++11"})
     ELSE functions.errors \o CheckStyle(nesting.state, doc, linenum, _line_length)
          \o includes.errors \o SetToSeq(FoundIn(l, linenum))

\* CheckTrailingSemicolon reads the comments of the line it reports and of the one
\* before; CheckEmptyBlockBody reports without.  Here they come after the line's
\* other checks: what is read ahead says nothing of the line itself.
CheckTrailingSemicolon(a, s) ==
  LET before == AheadStep(a, <<"parse", s - 1>>, doc.raw_lines)
      there == AheadStep(before, <<"parse", s>>, doc.raw_lines)
  IN IF s = 0 THEN a ELSE AheadStep(there, <<"error", <<s, "readability/braces", 4>>>>, doc.raw_lines)
ReportBody(a) ==
  [log |-> Error(a.log, a.suppress, CheckEmptyBlockBody(doc, linenum)), suppress |-> a.suppress]
CheckAhead(a) == ReportBody(CheckTrailingSemicolon(a, TrailingSemicolon(doc, linenum)))

\* One line of the loop of ProcessFileData.
ProcessLine ==
  /\ pc = "lines" /\ linenum <= NumLines(doc)
  /\ LET nolint == ParseNolintSuppressions(suppress, doc.raw_lines[linenum], linenum)
         functions == CheckForFunctionLengths(function_state, doc, linenum, state.verbose_level)
         includes == UpdateIncludes(include_state, files[file], doc, linenum, nonheaders, headers)
     IN \E nesting \in {Update(nesting_state, doc, linenum)} :
        \E own \in {[log |-> Error([state |-> state, found |-> found, reported |-> reported], nolint.state,
                                   LineErrors(nolint, nesting, functions, includes)),
                     suppress |-> nolint.state]} :
        \E a \in {IF InAsmBlock(nesting.state) THEN own ELSE CheckAhead(own)} :
          /\ suppress' = a.suppress
          /\ nesting_state' = nesting.state
          /\ function_state' = IF InAsmBlock(nesting.state) THEN function_state ELSE functions.state
          /\ include_state' = IF InAsmBlock(nesting.state) THEN include_state ELSE includes.state
          /\ state' = a.log.state /\ found' = a.log.found /\ reported' = a.log.reported
  /\ linenum' = linenum + 1
  /\ UNCHANGED <<lintInput, pc, filenames, file, doc, settings, done>>

\* The rest of ProcessFileData and of ProcessFile.
FinishFile ==
  /\ pc = "lines" /\ linenum > NumLines(doc)
  /\ LET f == files[file]
         lines == TextLines(file)
         old_errors == state.error_count - Len(reported)
     IN \E included \in IF f.ext \in nonheaders THEN CheckHeaderFileIncluded(include_state, f, headers)
                        ELSE {<< >>} :
          LET errors == CheckCompletedBlocks(nesting_state)
                        \o CheckForIncludeWhatYouUse(include_state, f, doc, nonheaders, headers)
                        \o included
                        \o CheckForBadCharacters(doc.raw_lines)
                        \o CheckForNewlineAtEOF(f.newline, doc.raw_lines)
                        \o CheckLineEndings(f.newline, lines)
              log == Error([state |-> state, found |-> found, reported |-> reported], suppress, errors)
          IN /\ state' = RestoreFilters(log.state)
             /\ found' = log.found /\ reported' = log.reported
             /\ done' = IF ~state.quiet \/ log.state.error_count # old_errors THEN Append(done, file) ELSE done
  /\ pc' = "files"
  /\ UNCHANGED <<lintInput, filenames, file, perFile, settings, suppress>>

\* The end of main: the exit code is 1 if anything was printed.
MainEnds ==
  /\ pc = "files" /\ filenames = << >>
  /\ pc' = "exit"
  /\ UNCHANGED <<lintInput, filenames, file, perFile, state, settings, suppress, found, reported, done>>

LintInit ==
  /\ scenario \in Scenarios
  /\ text \in Scenario[scenario].texts
  /\ pc = "args" /\ filenames = << >> /\ file = << >>
  /\ linenum = 1 /\ doc = CleansedLines(<< >>)
  /\ nesting_state = NewNestingState
  /\ include_state = NewIncludeState
  /\ function_state = NewFunctionState
  /\ state = [verbose_level |-> 1, filters |-> _DEFAULT_FILTERS, _filters_backup |-> _DEFAULT_FILTERS,
              error_count |-> 0, errors_by_category |-> << >>, counting |-> "total", quiet |-> FALSE]
  /\ _line_length = 80 /\ _valid_extensions = {} /\ _hpp_headers = {}
  /\ suppress = NoSuppressions
  /\ found = << >> /\ reported = << >> /\ done = << >>

LintNext == ParseArguments \/ ProcessFile \/ ProcessLine \/ FinishFile \/ MainEnds
LintSpec == LintInit /\ [][LintNext]_lintVars

------------------------------------------------------------------------------
(* Properties. *)

\* The filters that hold for a file, by the documentation: the default ones,
\* those of the command line, and those of the CPPLINT.cfg files from the topmost
\* directory down to its own; "set noparent" and a file that cannot be read end
\* the search upwards.  Of several filter lines in one CPPLINT.cfg the code lets
\* the first have the last word.
FiltersOf(path) ==
  LET config(d) == configs[SubSeq(path, 1, d)]
      there(d) == SubSeq(path, 1, d) \in DOMAIN configs
      ends(d) == there(d) /\ (~config(d).readable \/ \E k \in DOMAIN config(d).lines : config(d).lines[k].name = "set noparent")
      counts(d) == there(d) /\ config(d).readable /\ \A e \in d + 1 .. Len(path) - 1 : ~ends(e)
      of(o) == IF o.name = "filter" THEN o.filters ELSE << >>
      in(lines) == FlattenSeq([k \in DOMAIN lines |-> of(lines[Len(lines) + 1 - k])])
  IN _DEFAULT_FILTERS \o options.filters
     \o FlattenSeq([k \in DOMAIN path |-> IF counts(k - 1) THEN in(config(k - 1).lines) ELSE << >>])

\* Not checked, for the code does otherwise: a file is held to the line length of
\* the nearest directory above it that gives one, or else to that of the command
\* line, "unless overridden by a nested configuration file" (cpplint.py:253-254).
OwnLineLength ==
  LET lengths(d) == IF SubSeq(file, 1, d) \in DOMAIN configs
                    THEN {o \in ToSet(configs[SubSeq(file, 1, d)].lines) : o.name = "linelength"} ELSE {}
      above == {d \in 0 .. Len(file) - 1 : lengths(d) # {}}
      nearest == CHOOSE d \in above : \A e \in above : e <= d
  IN pc = "lines" =>
       IF above = {} THEN _line_length = options.linelength
       ELSE \E o \in lengths(nearest) : o.number = _line_length

GlobalOf(path) ==
  LET marks == UNION {TextLines(path)[k].marks : k \in DOMAIN text[path]} IN
  (IF "LINT_C_FILE" \in marks THEN {"readability/casting"} ELSE {})
  \cup (IF "LINT_KERNEL_FILE" \in marks THEN {"whitespace/tab"} ELSE {})

\* The NOLINT comment of line k, l, speaks of line j.
Speaks(l, k, j) == l.nolint # << >> /\ j = IF l.nolint[1] = "next" THEN k + 1 ELSE k

\* No file is judged by what an earlier one left: while a file is gone through, the
\* filters are those of the command line and its own directories, the verbosity is
\* the one asked for, and each suppression comes from a NOLINT comment or a mark
\* of this file, however the files before it ended: excluded, unreadable, or with
\* an unknown extension.
FilesStartAfresh ==
  pc = "lines" =>
    /\ state.filters = FiltersOf(file)
    /\ state.verbose_level = options.verbose
    /\ \A s \in suppress.lines : \E k \in DOMAIN doc.raw_lines : Speaks(doc.raw_lines[k], k, s[2]) /\ doc.raw_lines[k].nolint[2] = s[1]
    /\ suppress.global = GlobalOf(file)

\* The line is the #ifndef or an #endif, of a header, at which the check of the
\* header guard reads the NOLINT comment ahead of the lines before.
GuardLine(k) == files[file].ext \in headers /\ k \in DOMAIN doc.elided /\ doc.elided[k].dir \in {"ifndef", "endif"}

\* The comment of line k is read ahead of the lines before, for the header guard or
\* for a ";" after a block that began earlier.
ReadAhead(k) == GuardLine(k) \/ \E h \in 1 .. k - 1 : TrailingSemicolon(doc, h) \in {k, k + 1}

\* The lines at which an error e about an empty body is found.
FoundAt(e) == {h \in DOMAIN doc.elided : e \in ToSet(CheckEmptyBlockBody(doc, h))}

\* Whether the comment of line k is read before the error e is judged: the check of
\* the header guard has read that of the error's line alone and, if it found the
\* #ifndef wrong, that of the #ifndef; an empty body is judged where the condition
\* begins.
ReadBefore(e, k) ==
  /\ e[2] = "build/header_guard" =>
       k = e[1] \/ (k = IfndefAt(doc.elided) /\ doc.elided[k].macro # files[file].cppvar)
  /\ e[2] \in EmptyBodies => \A h \in FoundAt(e) : k <= h

\* The comments and marks of the finished text silence an error.  A comment for a
\* category nobody knows silences nothing.
Silenced(e) ==
  \/ e[2] \in GlobalOf(file)
  \/ \E k \in DOMAIN doc.raw_lines : /\ Speaks(doc.raw_lines[k], k, e[1])
                                     /\ doc.raw_lines[k].nolint[2] \in {"*"} \cup ({e[2]} \cap DOMAIN Group)
                                     /\ ReadBefore(e, k)

LetThrough(filters, category) ==
  \A i \in DOMAIN filters :
    filters[i].sign = "-" /\ Matches(filters[i], category)
      => \E j \in i + 1 .. Len(filters) : filters[j].sign = "+" /\ Matches(filters[j], category)

\* An unfinished multi-line comment is reported before the comments are read, and
\* so is a category nobody knows in a line that is read ahead.  Open is also what
\* becomes of an empty body for which a comment past the head of its condition
\* speaks, when that line is read ahead or another such body ends in it.
Judged(e) ==
  /\ e[2] # "readability/multiline_comment"
  /\ ~(e[2] = "readability/nolint" /\ ReadAhead(e[1]))
  /\ e[2] \in EmptyBodies =>
       \A k \in DOMAIN doc.raw_lines : \A h \in FoundAt(e) :
         Speaks(doc.raw_lines[k], k, e[1]) /\ k > h => ~ReadAhead(k) /\ \A i \in FoundAt(e) : k > i
Due(e) ==
  /\ Judged(e)
  /\ e[3] >= options.verbose
  /\ LetThrough(FiltersOf(file), e[2])
  /\ ~Silenced(e)
DueAreReported ==
  Only(reported, {e \in ToSet(reported) : Judged(e)}) = Only(found, {e \in ToSet(found) : Due(e)})

\* What a file is reported for is what the checks found in it, with at least the
\* confidence asked for, let through by the last filter that matches, and not
\* silenced by a comment of the text as a whole, whatever is read ahead of its
\* turn.  Only two kinds are judged before all comments that speak of them are read:
\* what is wrong with the header guard, and the empty body of a condition of several
\* lines, which is printed in spite of a NOLINT comment in the line that it is
\* reported in (cpplint.py:2173-2209, 4253-4269, 4337).
ReportsExactly == pc = "files" /\ found # << >> => DueAreReported

\* The checkpoints of the stack do what UpdatePreprocessor promises: the open
\* blocks are those of the text without the later branches of the #if groups that
\* have ended, and with the branch that is being read of those that have not,
\* however the groups are nested and wherever their #else and #elif are.
NestingFollowsFirstBranch ==
  pc = "lines" => nesting_state.stack = BlocksOf(doc, ToSet(Branches(doc)[linenum - 1]))[linenum - 1]

\* Text whose #if groups are not nested, each #else in one of them, and without
\* inline assembly, where CheckLanguage is skipped.
Flat(text_of_file) ==
  LET branches == Branches(text_of_file) IN
  \A k \in 1 .. NumLines(text_of_file) :
    /\ Len(branches[k]) <= 1
    /\ text_of_file.elided[k].dir \in {"else", "elif", "endif"} => branches[k - 1] # << >>
    /\ \A i \in DOMAIN text_of_file.elided[k].toks : text_of_file.elided[k].toks[i] # "asm"

\* What the lines of v = [f, doc, branches, nonheaders, headers] are by themselves.
IsInclude(v, k) == v.doc.elided[k].dir = "include"
HeaderAt(v, k) == Header[v.doc.elided[k].inc]
KindAt(v, k) == _ClassifyInclude(v.f, HeaderAt(v, k), v.doc.elided[k].sys)
Own(v, k) == KindAt(v, k) \in {"LIKELY_MY", "POSSIBLE_MY"}
Elsewhere(v, k) == HeaderAt(v, k).ext \in v.nonheaders /\ HeaderAt(v, k).dir # v.f.dir
Foreign(v, k) == HeaderAt(v, k).third /\ ~(HeaderAt(v, k).own = v.f.own /\ HeaderAt(v, k).ext \in v.headers)
IsReset(v, k) == v.doc.elided[k].dir \in {"if", "ifdef", "ifndef", "elif", "else", "endif"}

\* An #else or #elif of the group that line i is in parts it from line j.
Parted(v, i, j) ==
  \E e \in i + 1 .. j : /\ v.doc.elided[e].dir \in {"else", "elif"}
                        /\ {g[1] : g \in ToSet(v.branches[i])} = {g[1] : g \in ToSet(v.branches[e])}

\* Per line, whether it repeats an #include that counts.
Duplicates(v) ==
  LET duplicate[j \in 1 .. NumLines(v.doc)] ==
        IsInclude(v, j) /\ \E i \in 1 .. j - 1 : /\ IsInclude(v, i) /\ ~duplicate[i] /\ ~Elsewhere(v, i) /\ ~Foreign(v, i)
                                                 /\ v.doc.elided[i].inc = v.doc.elided[j].inc
                                                 /\ ~Parted(v, i, j)
  IN duplicate
CountsAt(v, k) == IsInclude(v, k) /\ ~Duplicates(v)[k] /\ ~Elsewhere(v, k) /\ ~Foreign(v, k)

\* Those that count in lines 1 .. n, since the last directive of an #if group, and
\* of these the other headers: one of the file's own is another if it was not first.
SinceReset(v, n) == {i \in 1 .. n : CountsAt(v, i) /\ \A e \in i .. n : ~IsReset(v, e)}
Other(v, k) == KindAt(v, k) = "OTHER" \/ (Own(v, k) /\ \E i \in SinceReset(v, k - 1) : ~Own(v, i))
Misplaced(v, k) ==
  /\ CountsAt(v, k)
  /\ \E i \in SinceReset(v, k - 1) :
       \/ KindAt(v, k) \in {"C_SYS", "CPP_SYS"} /\ Other(v, i)
       \/ KindAt(v, k) = "C_SYS" /\ KindAt(v, i) = "CPP_SYS"

IncludesOf ==
  [f |-> files[file], doc |-> doc, branches |-> Branches(doc), nonheaders |-> nonheaders, headers |-> headers]

\* Of the text that has been read, an #include is reported as a duplicate exactly
\* if one of the same header comes before it and no #else or #elif parts the two,
\* and as misplaced exactly if, since the last directive, a header that belongs
\* after it has come: a C header after a C++ one, either after another project's
\* or after the file's own header when that was not the first.
IncludesJudged ==
  pc = "lines" /\ Flat(doc) =>
    LET v == IncludesOf
        said(k, category) == \E i \in DOMAIN found : found[i] = <<k, category, 4>>
    IN \A k \in 1 .. linenum - 1 :
         /\ said(k, "build/include") <=> IsInclude(v, k) /\ (Duplicates(v)[k] \/ Elsewhere(v, k))
         /\ said(k, "build/include_order") <=> Misplaced(v, k)

------------------------------------------------------------------------------
(* What the proofs rest on. *)

LintTyped ==
  /\ scenario \in Scenarios /\ text \in Scenario[scenario].texts
  /\ filenames \in Seq(Reachable(scenario))

\* A text is gone through, or has been.
InText == pc = "lines" \/ (pc = "files" /\ found # << >>)
DocInv ==
  /\ InText => file \in Reachable(scenario) /\ doc = CleansedLines(RemoveMultiLineComments(TextLines(file)).lines)
  /\ pc = "lines" => linenum \in 1 .. NumLines(doc) + 1
  /\ pc = "args" => found = << >>

NestingInv == pc = "lines" => Checkpoints(doc, nesting_state, linenum - 1)

\* The filters outside of a file.
FreshInv ==
  /\ DOMAIN state = {"verbose_level", "filters", "_filters_backup", "error_count", "errors_by_category",
                     "counting", "quiet"}
  /\ pc \in {"files", "lines"} => state.verbose_level = options.verbose
  /\ pc = "files" => state.filters = _DEFAULT_FILTERS \o options.filters
  /\ pc = "lines" => state._filters_backup = _DEFAULT_FILTERS \o options.filters
  /\ pc = "lines" => suppress = [lines |-> suppress.lines, global |-> suppress.global]

\* The comments in the lines of K, of those whose category is known.
Categories == {"*"} \cup DOMAIN Group
Heeded(l) == l.nolint # << >> /\ l.nolint[2] \in Categories
By(l, k) == <<l.nolint[2], SuppressedLine(l.nolint, k)>>
SaidIn(K) == {By(doc.raw_lines[k], k) : k \in {k \in K : Heeded(doc.raw_lines[k])}}

\* In force are the comments of the lines that have been gone through, and of some
\* that are read ahead; what the file has been reported for until then is right by
\* the text as a whole.
ReportsInv ==
  pc = "lines" =>
    /\ state.filters \in Seq(ToSet(state.filters)) /\ ~BadFilter(state.filters)
    /\ \E K \in SUBSET DOMAIN doc.raw_lines :
         /\ 1 .. linenum - 1 \subseteq K
         /\ \A k \in K : k < linenum \/ ReadAhead(k)
         /\ suppress.lines = SaidIn(K)
    /\ found \in Seq(ToSet(found)) /\ reported \in Seq(ToSet(reported))
    /\ DueAreReported

\* What _IncludeState knows after n lines: in the last list what counts since the
\* #if that is open, in the lists before what counts otherwise and is not parted
\* from here; and how far the order of the headers has come.
Listed(v, n) == {i \in 1 .. n : CountsAt(v, i) /\ ~Parted(v, i, n)}
Pairs(v, I) == {<<v.doc.elided[i].inc, i>> : i \in I}
KnownUpto(list, m) == UNION {ToSet(list[i]) : i \in 1 .. m}
Lists(v, list, n) ==
  LET m == Len(list)
      since(g) == {i \in Listed(v, n) : i >= g}
  IN /\ m > 0 /\ list \in Seq(Seq(Pairs(v, 1 .. NumLines(v.doc))))
     /\ IF v.branches[n] = << >> THEN KnownUpto(list, m) = Pairs(v, Listed(v, n))
        ELSE LET g == v.branches[n][1][1] IN
             ToSet(list[m]) = Pairs(v, since(g)) /\ KnownUpto(list, m - 1) = Pairs(v, Listed(v, n) \ since(g))
Sections(v, section, n) ==
  /\ section \in 0 .. 4
  /\ section > MyH <=> \E i \in SinceReset(v, n) : ~Own(v, i)
  /\ section > CSys <=> \E i \in SinceReset(v, n) : Other(v, i) \/ KindAt(v, i) = "CPP_SYS"
  /\ section > CppSys <=> \E i \in SinceReset(v, n) : Other(v, i)
Remembers(v, s, n) ==
  /\ s = [include_list |-> s.include_list, section |-> s.section, last_header |-> s.last_header]
  /\ Lists(v, s.include_list, n) /\ Sections(v, s.section, n)

\* What the includes of n lines are to be blamed for, and what they were.
Blamed(v, n) ==
  {<<k, "build/include", 4>> : k \in {k \in 1 .. n : IsInclude(v, k) /\ (Duplicates(v)[k] \/ Elsewhere(v, k))}}
    \cup {<<k, "build/include_order", 4>> : k \in {k \in 1 .. n : Misplaced(v, k)}}
AboutIncludes(E) == {e \in ToSet(E) : e[2] \in {"build/include", "build/include_order"}}

IncludesInv ==
  pc = "lines" /\ Flat(doc) =>
    /\ Remembers(IncludesOf, include_state, linenum - 1)
    /\ AboutIncludes(found) = Blamed(IncludesOf, linenum - 1)
===============================================================================
