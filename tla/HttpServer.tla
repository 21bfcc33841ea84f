------------------------------ MODULE HttpServer ------------------------------
(***************************************************************************)
(* One keep-alive connection of an HttpServer: a client sends requests, the *)
(* stream is read in pieces of any size, and every piece goes through       *)
(* onMessage (src/http: HttpServer, HttpContext, HttpResponse;              *)
(* TcpConnection::HandleMessage).                                           *)
(***************************************************************************)
EXTENDS HttpContext

CONSTANTS
  Requests,     \* what a client may send (records of the shape of Render's)
  MaxRequests   \* bounds the run

\* What the syntax of HTTP allows, with names that are not repeated.  No client
\* writes the misspelled Content-Lenght anywhere.
Sent == Char \ {"L"}
Text(excluded) == Seq(Sent \ excluded)
Word(excluded) == Text(excluded) \ {<< >>}
Separators == {SP, CR, LF}

Syntax ==
  [method  : Seq(Upper \ {"L"}) \ {<< >>},
   url     : Text({SP, "?"}),
   params  : Seq(Word(Separators \cup {"="}) \X Word(Separators \cup {"&"})),
   version : Seq(Digit \cup {"."}) \ {<< >>},
   headers : Seq(Word(Separators \cup {":"}) \X Text({CR})),
   sep     : {<<":", SP>>, <<":">>},
   body    : Text({})]

WellFormed(t) ==
  /\ t \in Syntax
  /\ t.version[1] \in Digit
  /\ \A pairs \in {t.params, t.headers} : \A i, j \in DOMAIN pairs :
       pairs[i][1] = pairs[j][1] => i = j

ASSUME HttpAssumption == \A t \in Requests : WellFormed(t)

VARIABLES
  asked,        \* the requests the client has sent
  stream,       \* characters sent and not yet read
  state_,       \* the TcpConnection's state_
  context,      \* the HttpContext: its state_ and request_
  answers       \* what went through onRequest: the piece read, the request seen and
                \* whether the answer closed the connection; and the 400s

httpVars == <<asked, stream, state_, context, answers>>

------------------------------------------------------------------------------
(* The client. *)

\* A request as the client writes it: parameters and headers as sequences of pairs,
\* with or without a space before a header's value.
Line(t) ==
  t.method \o <<SP>> \o t.url
    \o FlattenSeq([i \in DOMAIN t.params |->
                     (IF i = 1 THEN <<"?">> ELSE <<"&">>) \o t.params[i][1] \o <<"=">> \o t.params[i][2]])
    \o <<SP, "H", "/">> \o t.version \o <<CR, LF>>
HeadOf(t) ==
  Line(t) \o FlattenSeq([i \in DOMAIN t.headers |->
                           t.headers[i][1] \o t.sep \o t.headers[i][2] \o <<CR, LF>>])
          \o <<CR, LF>>
Render(t) == HeadOf(t) \o t.body

HttpInit ==
  /\ asked = << >> /\ stream = << >>
  /\ state_ = "Connected"
  /\ context = [state_ |-> "START", request_ |-> NoRequest]
  /\ answers = << >>

\* A client may send before it has the answer, and while the server closes.
Ask ==
  /\ Len(asked) < MaxRequests
  /\ \E t \in Requests : asked' = Append(asked, t) /\ stream' = stream \o Render(t)
  /\ UNCHANGED <<state_, context, answers>>

------------------------------------------------------------------------------
(* The server. *)

Complete(c) == c.state_ = "COMPLETE"

\* onRequest's close, which response_callback_ may set as well.
Close(r) ==
  \/ GetHeader(r, <<"C">>) = <<"c">>
  \/ r.version = <<"0">> /\ GetHeader(r, <<"C">>) # <<"k">>

\* onRequest, then ResetContextStatus; request_ keeps what it has.
Answer(piece, c) ==
  /\ Complete(c)
  /\ \E close \in {Close(c.request_), TRUE} :
        /\ answers' = Append(answers, [piece |-> piece, request |-> c.request_, close |-> close])
        /\ state_' = IF close THEN "Disconected" ELSE state_
  /\ context' = [state_ |-> "START", request_ |-> c.request_]

\* Mutated: the connection stays open for the rest of the request.
RefuseAndWait(piece, c) ==
  /\ c.state_ \notin {"COMPLETE", "length_error"}
  /\ state_' = IF c.state_ = "kINVALID" THEN "Disconected" ELSE state_
  /\ context' = [state_ |-> c.state_, request_ |-> c.request_]
  /\ UNCHANGED answers

\* 400 Bad Request and HandleClose.
Refuse(piece, c) ==
  /\ c.state_ \notin {"COMPLETE", "length_error"}
  /\ state_' = "Disconected"
  /\ context' = [state_ |-> c.state_, request_ |-> c.request_]
  /\ UNCHANGED answers

\* Nobody catches the exception: the program ends.
Terminate(piece, c) ==
  /\ c.state_ = "length_error"
  /\ state_' = "Terminated"
  /\ context' = [state_ |-> c.state_, request_ |-> c.request_]
  /\ UNCHANGED answers

onMessage(piece) ==
  LET c == ParaseRequest(context.state_, context.request_, piece)
  IN  Answer(piece, c) \/ Refuse(piece, c) \/ Terminate(piece, c)

\* HandleMessage has read n characters, and no end of the stream behind them.
HandleMessage(n) ==
  /\ state_ = "Connected"
  /\ stream' = SubSeq(stream, n + 1, Len(stream))
  /\ onMessage(SubSeq(stream, 1, n))
  /\ UNCHANGED asked

\* HandleMessage has read n characters and the end: HandleClose comes first, and
\* onMessage looks at state_ before anything else.
HandleMessageAtEnd ==
  /\ state_ = "Connected"
  /\ stream' = << >>
  /\ state_' = "Disconected"
  /\ UNCHANGED <<asked, context, answers>>

HttpNext == Ask \/ HandleMessageAtEnd \/ \E n \in 1 .. Len(stream) : HandleMessage(n)

HttpSpec == HttpInit /\ [][HttpNext]_httpVars

------------------------------------------------------------------------------
(* Properties. *)

\* new is map with the pairs in it, and nothing else.
Overlays(new, map, pairs) ==
  LET keys == {pairs[i][1] : i \in DOMAIN pairs}
  IN  /\ DOMAIN new = DOMAIN map \cup keys
      /\ \A i \in DOMAIN pairs : new[pairs[i][1]] = pairs[i][2]
      /\ \A k \in DOMAIN map \ keys : new[k] = map[k]

\* The request r that the callback sees is the request t of a client on top of what
\* the requests before have left behind.
Agrees(left, r, t) ==
  /\ r.method = t.method /\ r.url = t.url /\ r.protocol = <<"H">>
  /\ r.version = t.version /\ r.body = t.body
  /\ Overlays(r.request_params, left.request_params, t.params)
  /\ Overlays(r.headers, left.headers, t.headers)

\* What the callback saw before the i-th answer.
Left(i) == IF i = 1 THEN NoRequest ELSE answers[i - 1].request

\* A request that is read in one piece reaches the callback with its own method, URL,
\* version and body.  Its parameters and headers are what the callback saw for the
\* answer before, nothing lost and nothing added, with those of this request put over
\* it: request_ is never emptied.  Headers are written "name: value", as the code
\* expects them (HttpContext.cpp:20-22, 31-275, HttpServer.cpp:55-78).
ReadsRight ==
  \A i \in DOMAIN answers : \A j \in DOMAIN asked :
    asked[j].sep = <<":", SP>> /\ answers[i].piece = Render(asked[j])
      => Agrees(Left(i), answers[i].request, asked[j])

\* As long as the connection is open the parser is at the start of a request: a
\* request that came in part was refused and never meets the rest of it, so no
\* state and no pointers are carried over (HttpServer.cpp:65-76).
NothingCarriedOver == state_ = "Connected" => context.state_ = "START"
===============================================================================
