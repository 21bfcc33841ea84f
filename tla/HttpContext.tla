----------------------------- MODULE HttpContext -----------------------------
(***************************************************************************)
(* HttpContext::ParaseRequest, the request parser: a state machine over     *)
(* characters that cuts the request into its parts (src/http: HttpContext,  *)
(* HttpRequest).                                                            *)
(*                                                                         *)
(* A character stands for its class.  A word (a method, a name, a value) is *)
(* a sequence of them; strings with a meaning to the code are one character *)
(* long: the header key "C" is Connection, with the values "c" for Close    *)
(* and "k" for keep-alive; "L" is the Content-Lenght the code looks for;    *)
(* the version "0" is 1.0.                                                  *)
(***************************************************************************)
EXTENDS Integers, Sequences, SequencesExt

CR == "\r"
LF == "\n"
NUL == "NUL"
SP == "SP"
Blank == {SP}
Upper == {"G", "C", "H", "L"}
Digit == {"0", "1"}
Char == Upper \cup Digit \cup Blank
          \cup {CR, LF, NUL, "/", "?", "=", "&", ":", ".", "a", "b", "c", "k"}

\* An HttpRequest nobody has set anything in.
NoRequest ==
  [method |-> << >>, url |-> << >>, protocol |-> << >>, version |-> << >>,
   request_params |-> [k \in {} |-> << >>], headers |-> [k \in {} |-> << >>],
   body |-> << >>]

\* request_params_[key] = value, headers_[field] = value.
Put(map, key, value) ==
  [k \in DOMAIN map \cup {key} |-> IF k = key THEN value ELSE map[k]]

GetHeader(r, field) == IF field \in DOMAIN r.headers THEN r.headers[field] ELSE << >>

Otherwise(found, to, other) == IF found THEN to ELSE other
Invalid(found, to) == Otherwise(found, to, "kINVALID")

------------------------------------------------------------------------------
\* After the empty line: a body follows.  A Content-Lenght is believed; without one
\* there is a body when the line end is not past the last character.
AfterHeaders(r, more) ==
  IF <<"L">> \in DOMAIN r.headers
  THEN IF r.headers[<<"L">>] \notin {<< >>, <<"0">>} THEN "BODY" ELSE "COMPLETE"
  ELSE IF more THEN "BODY" ELSE "COMPLETE"

\* Request line: the next state after character ch.
LineState(s, ch) ==
  CASE s = "START"  -> IF ch \in Blank \cup {CR, LF} THEN s ELSE Invalid(ch \in Upper, "METHOD")
    [] s = "METHOD" -> IF ch \in Upper THEN s ELSE Invalid(ch \in Blank, "IN_URL")
    [] s = "IN_URL" -> CASE ch = "?" -> "BEFORE_URL_PARAM_KEY"
                         [] ch \in Blank -> "BEFORE_PROTOCOL"
                         [] OTHER -> s
    [] s = "BEFORE_URL_PARAM_KEY"   -> Invalid(ch \notin Blank \cup {CR, LF}, "URL_PARAM_KEY")
    [] s = "URL_PARAM_KEY"          -> IF ch = "=" THEN "BEFORE_URL_PARAM_VALUE"
                                       ELSE Invalid(ch \notin Blank, s)
    [] s = "BEFORE_URL_PARAM_VALUE" -> Invalid(ch \notin Blank \cup {CR, LF}, "URL_PARAM_VALUE")
    [] s = "URL_PARAM_VALUE"        -> CASE ch = "&" -> "BEFORE_URL_PARAM_KEY"
                                         [] ch \in Blank -> "BEFORE_PROTOCOL"
                                         [] OTHER -> s
    [] s = "BEFORE_PROTOCOL" -> Otherwise(ch \in Blank, s, "PROTOCOL")
    [] s = "PROTOCOL"        -> Otherwise(ch = "/", "BEFORE_VERSION", s)
    [] s = "BEFORE_VERSION"  -> Invalid(ch \in Digit, "VERSION")
    [] s = "VERSION"         -> IF ch = CR THEN "WHEN_CR"
                                ELSE Invalid(ch \in Digit \cup {"."}, s)

LineStates ==
  {"START", "METHOD", "IN_URL", "BEFORE_URL_PARAM_KEY", "URL_PARAM_KEY",
   "BEFORE_URL_PARAM_VALUE", "URL_PARAM_VALUE", "BEFORE_PROTOCOL", "PROTOCOL",
   "BEFORE_VERSION", "VERSION"}

\* Headers, empty line and body.
HeaderState(s, ch, r, more) ==
  CASE s = "WHEN_CR"      -> Invalid(ch = LF, "CR_LF")
    [] s = "CR_LF"        -> IF ch = CR THEN "CR_LF_CR" ELSE Invalid(ch \notin Blank, "HEADER_KEY")
    [] s = "HEADER_KEY"   -> Otherwise(ch = ":", "HEADER_VALUE", s)
    [] s = "HEADER_VALUE" -> Otherwise(ch = CR, "WHEN_CR", s)
    [] s = "CR_LF_CR"     -> Invalid(ch = LF, AfterHeaders(r, more))
    [] s = "BODY"         -> "COMPLETE"

\* The loop stops in these; "length_error" is the exception of Throws.
Over == {"kINVALID", "COMPLETE", "length_error"}

\* Mutated: start stays behind after a parameter.
EndsWordButParams(s, t) ==
  /\ s # t /\ t \notin {"kINVALID", "length_error"}
  /\ s \in {"METHOD", "IN_URL", "PROTOCOL", "VERSION", "HEADER_VALUE", "WHEN_CR", "CR_LF_CR"}

\* The states that end a word when they are left, and where start moves behind it.
EndsWord(s, t) ==
  /\ s # t /\ t \notin {"kINVALID", "length_error"}
  /\ s \in {"METHOD", "IN_URL", "URL_PARAM_VALUE", "PROTOCOL", "VERSION", "HEADER_VALUE",
            "WHEN_CR", "CR_LF_CR"}

\* What the step from s to t stores in request_: word is [start, end), and
\* colon cuts it into a key and the value of a parameter or of a header field.
Store(r, s, word, key, parameter, field, rest) ==
  CASE s = "METHOD"   -> [r EXCEPT !.method = word]
    [] s = "IN_URL"   -> [r EXCEPT !.url = word]
    [] s = "PROTOCOL" -> [r EXCEPT !.protocol = word]
    [] s = "VERSION"  -> [r EXCEPT !.version = word]
    [] s = "URL_PARAM_VALUE" -> [r EXCEPT !.request_params = Put(@, key, parameter)]
    [] s = "HEADER_VALUE"    -> [r EXCEPT !.headers = Put(@, key, field)]
    [] s = "BODY"     -> [r EXCEPT !.body = rest]
    [] OTHER -> r

\* A header's value starts two characters behind the colon, whatever stands between:
\* of an empty one without a space std::string(colon + 2, end) cannot be made.
Throws(c, ch, end) == c.state_ = "HEADER_VALUE" /\ ch = CR /\ end < c.colon + 2

\* One iteration of the loop, for the character at index end; the one at index size
\* is the NUL behind the message.
Step(c, msg, end) ==
  LET size == Len(msg)
      ch == IF end < size THEN msg[end + 1] ELSE NUL
      s == c.state_
      t == IF Throws(c, ch, end) THEN "length_error"
           ELSE IF s \in LineStates THEN LineState(s, ch)
           ELSE HeaderState(s, ch, c.request_, end < size)
      left == EndsWord(s, t) \/ s = "BODY"
      stored == Store(c.request_, s, SubSeq(msg, c.start + 1, end),
                      SubSeq(msg, c.start + 1, c.colon),
                      SubSeq(msg, c.colon + 2, end), SubSeq(msg, c.colon + 3, end),
                      SubSeq(msg, c.start + 1, c.start + size - end))
  IN  [state_   |-> t,
       start    |-> IF EndsWord(s, t) THEN end + 1 ELSE c.start,
       colon    |-> IF s \in {"URL_PARAM_KEY", "HEADER_KEY"} /\ s # t THEN end ELSE c.colon,
       request_ |-> IF left THEN stored ELSE c.request_]

Iterate(c, msg, end) == IF c.state_ \in Over THEN c ELSE Step(c, msg, end)

\* Each call starts with pointers to its msg; c[n] is what n iterations lead to.
ParaseRequest(state_, request_, msg) ==
  LET c[n \in 0 .. Len(msg) + 1] ==
        IF n = 0
        THEN [state_ |-> state_, start |-> 0, colon |-> 0, request_ |-> request_]
        ELSE LET before == c[n - 1] IN Iterate(before, msg, n - 1)
  IN  c[Len(msg) + 1]
===============================================================================
