----------------------------- MODULE HttpServerMC -----------------------------
(***************************************************************************)
(* Six requests: with and without parameters, of version 1.0 and 1.1, that   *)
(* keep the connection or close it, one with a body, and two whose header has *)
(* no space before its value, which is empty in one of them.  A client sends  *)
(* up to three of them, and the stream is cut anywhere.                       *)
(***************************************************************************)
EXTENDS HttpServer

MCRequests ==
  {[method |-> <<"G">>, url |-> <<"/", "a">>, params |-> << <<<<"a">>, <<"1">>>>, <<<<"b">>, <<"c">>>> >>,
    version |-> <<"1", ".", "1">>, headers |-> << <<<<"a">>, <<"b", "b">>>> >>,
    sep |-> <<":", SP>>, body |-> << >>],
   [method |-> <<"G", "G">>, url |-> <<"/">>, params |-> << >>,
    version |-> <<"1">>, headers |-> << <<<<"b">>, <<"a">>>>, <<<<"C">>, <<"c">>>> >>,
    sep |-> <<":", SP>>, body |-> << >>],
   [method |-> <<"H">>, url |-> <<"/", "b">>, params |-> << <<<<"a">>, <<"b">>>> >>,
    version |-> <<"0">>, headers |-> << <<<<"C">>, <<"k">>>> >>,
    sep |-> <<":", SP>>, body |-> << >>],
   [method |-> <<"G">>, url |-> <<"/">>, params |-> << >>,
    version |-> <<"1">>, headers |-> << <<<<"a">>, <<"a">>>> >>,
    sep |-> <<":", SP>>, body |-> <<"b", "c">>],
   [method |-> <<"G">>, url |-> << >>, params |-> << >>,
    version |-> <<"1">>, headers |-> << <<<<"c">>, <<"b">>>> >>,
    sep |-> <<":">>, body |-> << >>],
   [method |-> <<"G">>, url |-> << >>, params |-> << >>,
    version |-> <<"1">>, headers |-> << <<<<"c">>, << >>>> >>,
    sep |-> <<":">>, body |-> << >>]}
===============================================================================
