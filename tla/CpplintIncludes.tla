---------------------------- MODULE CpplintIncludes ----------------------------
(***************************************************************************)
(* build_support/cpplint.py: _IncludeState, the checks of #include lines,  *)
(* and the two checks at the end of a file that read its include list.     *)
(* A path is a record: dir, base (without suffixes such as "_test" and     *)
(* "-inl"), first (the first component of the base), ext, own (the stem    *)
(* under which a header belongs to a source), and for a header also cpp    *)
(* (in _CPP_HEADERS), third (looks like a third party's) and alpha, its    *)
(* place in the alphabet.                                                  *)
(***************************************************************************)
EXTENDS CpplintText

CONSTANTS
  Header,          \* the header of a name
  HeaderContents   \* the headers that the file of a header includes; a name outside
                   \* its domain cannot be opened

Initial == 0
MyH == 1
CSys == 2
CppSys == 3
OtherH == 4

NewIncludeState == [include_list |-> <<<< >>>>, section |-> Initial, last_header |-> 0]

Included(s) == UNION {{s.include_list[i][j] : j \in DOMAIN s.include_list[i]} : i \in DOMAIN s.include_list}
FindHeader(s, h) == \E f \in Included(s) : f[1] = h

\* A mutation: the headers of the branch before an #elif stay known.
ClearsAtElse(directive) == directive = "else"

\* The directives that forget the headers of the branch before.
Clears(directive) == directive \in {"else", "elif"}

ResetSection(s, directive) ==
  [s EXCEPT !.section = Initial, !.last_header = 0,
            !.include_list =
              CASE directive \in {"if", "ifdef", "ifndef"} -> Append(@, << >>)
                [] Clears(directive) -> [@ EXCEPT ![Len(@)] = << >>]
                [] OTHER -> @]

\* The section the header leaves the state in; a header that comes too late
\* leaves it where it is.
CheckNextIncludeOrder(s, kind) ==
  LET late == \/ kind = "C_SYS" /\ s.section > CSys
              \/ kind = "CPP_SYS" /\ s.section > CppSys
      next == IF late THEN s.section
              ELSE CASE kind = "C_SYS" -> CSys
                     [] kind = "CPP_SYS" -> CppSys
                     [] kind \in {"LIKELY_MY", "POSSIBLE_MY"} /\ s.section <= MyH -> MyH
                     [] OTHER -> OtherH
  IN [late |-> late,
      state |-> [s EXCEPT !.section = next,
                          !.last_header = IF late \/ next # s.section THEN 0 ELSE @]]

_ClassifyInclude(file, h, sys) ==
  IF sys /\ h.ext \notin {"hpp", "hxx", "h++"} THEN IF h.cpp THEN "CPP_SYS" ELSE "C_SYS"
  ELSE IF h.base = file.base /\ h.dir \in {file.dir, file.public} THEN "LIKELY_MY"
  ELSE IF h.first = file.first THEN "POSSIBLE_MY" ELSE "OTHER"

IsInAlphabeticalOrder(s, doc, linenum, h) ==
  ~(s.last_header > h.alpha /\ linenum > 1 /\ doc.elided[linenum - 1].dir = "include")

\* nonheaders, headers: GetNonHeaderExtensions(), GetHeaderExtensions().
CheckIncludeLine(s, file, doc, linenum, nonheaders, headers) ==
  LET l == doc.elided[linenum]
      h == Header[l.inc]
      order == CheckNextIncludeOrder(s, _ClassifyInclude(file, h, l.sys))
      recorded == [order.state EXCEPT !.include_list[Len(s.include_list)] = Append(@, <<l.inc, linenum>>)]
      third_src_header == h.own = file.own /\ h.ext \in headers
      elsewhere == h.ext \in nonheaders /\ h.dir # file.dir
      bare == IF ~l.sys /\ h.dir = "" /\ h.ext = "h" /\ ~h.third
              THEN <<<<linenum, "build/include_subdir", 4>>>> ELSE << >>
  IN IF FindHeader(s, l.inc) \/ elsewhere
     THEN [state |-> s, errors |-> Append(bare, <<linenum, "build/include", 4>>)]
     ELSE IF h.third /\ ~third_src_header THEN [state |-> s, errors |-> bare]
     ELSE [state |-> [recorded EXCEPT !.last_header = h.alpha],
           errors |-> bare
             \o (IF order.late THEN <<<<linenum, "build/include_order", 4>>>> ELSE << >>)
             \o (IF IsInAlphabeticalOrder(order.state, doc, linenum, h) THEN << >>
                 ELSE <<<<linenum, "build/include_alpha", 4>>>>)]

\* The head of CheckLanguage.
UpdateIncludes(s, file, doc, linenum, nonheaders, headers) ==
  LET l == doc.elided[linenum] IN
  CASE l.dir = "include" -> CheckIncludeLine(s, file, doc, linenum, nonheaders, headers)
    [] l.dir \in {"if", "ifdef", "ifndef", "elif", "else", "endif"} ->
         [state |-> ResetSection(s, l.dir), errors |-> << >>]
    [] OTHER -> [state |-> s, errors |-> << >>]

------------------------------------------------------------------------------
(* The end of the file. *)

FilesBelongToSameModule(file, h, nonheaders, headers) ==
  file.ext \in nonheaders /\ h.ext \in headers /\ h.own = file.own

\* For each header that the file needs, the last line that needs it, in the
\* order of the lines.
CheckForIncludeWhatYouUse(s, file, doc, nonheaders, headers) ==
  LET required(k) == doc.elided[k].uses \ UNION {doc.elided[i].uses : i \in k + 1 .. NumLines(doc)}
      listed == {f[1] : f \in Included(s)}
      opened == {h \in listed : h \in DOMAIN HeaderContents
                                /\ FilesBelongToSameModule(file, Header[h], nonheaders, headers)}
      include_dict == listed \cup UNION {HeaderContents[h] : h \in opened}
      missing(k) == Cardinality(required(k) \ include_dict)
      of(k) == [i \in 1 .. missing(k) |-> <<k, "build/include_what_you_use", 4>>]
  IN IF opened = {} /\ file.ext \in nonheaders THEN << >> ELSE FlattenSeq([k \in 1 .. NumLines(doc) |-> of(k)])

\* The headers of the source that exist are looked for in the order of a set of
\* strings, until one is included: the possible sequences of errors.  None is the
\* line number of a file that includes nothing.
None == -1
CheckHeaderFileIncluded(s, file, headers) ==
  LET existing == file.headers \cap headers
      listed == {ext \in existing : \E f \in Included(s) : Header[f[1]].own = file.own /\ Header[f[1]].ext = ext}
      lists == {i \in DOMAIN s.include_list : s.include_list[i] # << >>}
      first_include == IF lists = {} THEN None ELSE s.include_list[First(lists, 0)][1][2]
      tried == IF listed = {} THEN {Cardinality(existing)} ELSE 0 .. Cardinality(existing \ listed)
  IN IF file.test THEN {<< >>}
     ELSE {[i \in 1 .. n |-> <<first_include, "build/include", 5>>] : n \in tried}
===============================================================================
