---------------------------- MODULE MCConnection ----------------------------
(***************************************************************************)
(* Requests that between them take every path of handle_connection: one      *)
(* WebSocket, and plain requests without a body, with one, with a body that  *)
(* is too long or of unknown length, and with heads that are refused, do not *)
(* parse or exceed the limit.                                               *)
(***************************************************************************)
EXTENDS Connection

WebSocket == [head |-> 1, answer |-> 1, parses |-> TRUE, host |-> "route",
              origin |-> "none", upgrade |-> TRUE, chunked |-> FALSE, length |-> NoLength]

Plain == [WebSocket EXCEPT !.upgrade = FALSE]

MCSends == [client |-> 3, backend |-> 2]

MCRequest ==
    {WebSocket,
     Plain,
     [Plain EXCEPT !.length = 2],
     [Plain EXCEPT !.length = 2, !.head = 2],
     [Plain EXCEPT !.length = 3],
     [Plain EXCEPT !.chunked = TRUE],
     [Plain EXCEPT !.host = "node"],
     [Plain EXCEPT !.origin = "other"],
     [Plain EXCEPT !.origin = "node", !.length = 1],
     [Plain EXCEPT !.parses = FALSE],
     [Plain EXCEPT !.head = 3],
     [Plain EXCEPT !.answer = 2],
     [Plain EXCEPT !.answer = 3]}
=============================================================================
