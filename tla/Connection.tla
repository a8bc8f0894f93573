----------------------------- MODULE Connection -----------------------------
(***************************************************************************)
(* One connection of the bridge, from accept(2) to the return of            *)
(* handle_connection (src/src/proxy.rs): the request head, the Host and     *)
(* Origin checks, the connection to the dev server, and then one of two     *)
(* relays: relay_upgrade, which pumps both directions of a WebSocket with   *)
(* poll(2), or relay_http, which sends the body and copies the response.    *)
(*                                                                         *)
(* A peer's stream is a sequence of numbered pieces; the first ones are the *)
(* head of the request or of the response.  The rewriting of a head is      *)
(* left out: its pieces go through.  Between the bridge and a peer lie the   *)
(* two socket buffers: pieces sent and not yet read, and pieces written and *)
(* not yet taken, of which there may be WINDOW before a write has to wait.  *)
(***************************************************************************)
EXTENDS Integers, Sequences

CONSTANTS
    Request,    \* the requests a client may make
    NoLength,   \* the content length of a request that states none
    CHUNK,      \* pieces one read returns at most (HEAD_CHUNK, RELAY_BUFFER)
    MAX_HEADER_BYTES,
    MAX_REQUEST_BODY_BYTES,
    WINDOW,     \* pieces a peer's socket takes before it reads
    SENDS       \* bound: pieces each peer sends

\* What Host and Origin name: this route, the node without a port, another site.
Site == {"route", "node", "other", "none"}

\* head and answer: pieces of the two heads.  parses: method and version are there.
RequestShape ==
    [head : Nat \ {0}, answer : Nat \ {0}, parses : BOOLEAN, host : Site, origin : Site,
     upgrade : BOOLEAN, chunked : BOOLEAN, length : Nat \cup {NoLength}]

ASSUME ConnectionAssumption ==
    /\ NoLength \notin Nat
    /\ Request \subseteq RequestShape
    /\ CHUNK \in Nat \ {0}
    /\ MAX_HEADER_BYTES \in Nat
    /\ MAX_REQUEST_BODY_BYTES \in Nat
    /\ WINDOW \in Nat \ {0}
    /\ SENDS \in [{"client", "backend"} -> Nat]

VARIABLES
    pc,       \* where the worker is
    turn,     \* the direction relay_upgrade's inner loop is at
    ready,    \* revents: sockets the last poll(2) reported
    request,  \* what the client asks
    reply,    \* status of an answer the bridge made itself, 0 if none
    fin,      \* what each peer did to its socket
    sent,     \* pieces each peer has sent
    read,     \* pieces the bridge has read from it
    held,     \* read from it and not yet written to the other
    eof,      \* Pipe.eof: reading from it is over
    done,     \* Pipe.done: and so is passing it on
    out,      \* what the bridge has written to each peer
    taken,    \* how much of it the peer has read
    shut      \* the bridge's side to it was shut down or closed

peervars == <<fin, sent, taken>>
vars == <<pc, turn, ready, request, reply, fin, sent, read, held, eof, done, out, taken, shut>>

Peer == {"client", "backend"}

other(s) == IF s = "client" THEN "backend" ELSE "client"

Stage == {"head", "connect", "request", "poll", "read", "write", "finish",
          "exact", "response", "answer", "copy", "done"}

\* The two growing buffers, the heads, stay within their limit between reads.
TypeOK ==
    /\ pc \in Stage
    /\ turn \in Peer
    /\ ready \subseteq Peer
    /\ request \in Request
    /\ reply \in {0, 400, 403, 411, 413, 431, 502}
    /\ fin \in [Peer -> {"open", "half", "closed", "reset"}]
    /\ sent \in [Peer -> Nat]
    /\ read \in [Peer -> Nat]
    /\ held \in [Peer -> Seq(Nat)]
    /\ eof \in [Peer -> BOOLEAN]
    /\ done \in [Peer -> BOOLEAN]
    /\ out \in [Peer -> Seq(Nat)]
    /\ taken \in [Peer -> Nat]
    /\ shut \in [Peer -> BOOLEAN]
    /\ pc = "head" => Len(held["client"]) <= MAX_HEADER_BYTES
    /\ pc = "response" => Len(held["backend"]) <= MAX_HEADER_BYTES

\* A worker has accepted the connection; both timeouts and nodelay are set.
Init ==
    /\ pc = "head"
    /\ turn = "client"
    /\ ready = {}
    /\ request \in Request
    /\ reply = 0
    /\ fin = [s \in Peer |-> "open"]
    /\ sent = [s \in Peer |-> 0]
    /\ read = [s \in Peer |-> 0]
    /\ held = [s \in Peer |-> <<>>]
    /\ eof = [s \in Peer |-> FALSE]
    /\ done = [s \in Peer |-> FALSE]
    /\ out = [s \in Peer |-> <<>>]
    /\ taken = [s \in Peer |-> 0]
    /\ shut = [s \in Peer |-> FALSE]

-----------------------------------------------------------------------------
(* The sockets                                                              *)

Unread(s) == sent[s] - read[s]

Room(t) == WINDOW - (Len(out[t]) - taken[t])

\* The peer closed its socket or reset it: it reads no more.
Gone(t) == fin[t] \in {"closed", "reset"}

\* What a read of n pieces returns.
Incoming(s, n) == [i \in 1..n |-> read[s] + i]

\* A read returns n pieces.  Pieces sent before a reset can still be read.
Reads(s, n) ==
    /\ n \in 1..CHUNK
    /\ n <= Unread(s)
    /\ read' = [read EXCEPT ![s] = @ + n]

\* A read returns 0.
AtEof(s) == fin[s] \in {"half", "closed"} /\ Unread(s) = 0

\* A read returns an error other than a timeout.
ReadFails(s) == fin[s] = "reset"

\* A read of the client's socket runs into HEADER_READ_TIMEOUT.
TimesOut == fin["client"] = "open" /\ Unread("client") = 0

\* A write of what is held from s takes n pieces.  The first writes to a peer
\* that has closed its socket still succeed.
Writes(s, n) ==
    /\ n \in 1..Len(held[s])
    /\ fin[other(s)] # "reset"
    /\ n <= Room(other(s)) \/ fin[other(s)] = "closed"
    /\ out' = [out EXCEPT ![other(s)] = @ \o SubSeq(held[s], 1, n)]
    /\ held' = [held EXCEPT ![s] = SubSeq(@, n + 1, Len(@))]

-----------------------------------------------------------------------------
(* The peers: tailscaled's proxy and the dev server.                        *)

\* The connection to the dev server exists.
Connected == pc \notin {"head", "connect", "done"}

Acts(s) == IF s = "client" THEN pc # "done" ELSE Connected

PeerSends(s) ==
    /\ Acts(s)
    /\ fin[s] = "open"
    /\ sent[s] < SENDS[s]
    /\ sent' = [sent EXCEPT ![s] = @ + 1]
    /\ UNCHANGED <<pc, turn, ready, request, reply, fin, read, held, eof, done, out, taken, shut>>

PeerTakes(s) ==
    /\ Acts(s)
    /\ ~Gone(s)
    /\ taken[s] < Len(out[s])
    /\ taken' = [taken EXCEPT ![s] = Len(out[s])]
    /\ UNCHANGED <<pc, turn, ready, request, reply, fin, sent, read, held, eof, done, out, shut>>

\* A half-close, a close, or a reset.
PeerEnds(s) ==
    /\ Acts(s)
    /\ \/ fin[s] = "open" /\ fin' = [fin EXCEPT ![s] = "half"]
       \/ ~Gone(s) /\ fin' = [fin EXCEPT ![s] = "closed"]
       \/ fin[s] # "reset" /\ fin' = [fin EXCEPT ![s] = "reset"]
    /\ UNCHANGED <<pc, turn, ready, request, reply, sent, read, held, eof, done, out, taken, shut>>

-----------------------------------------------------------------------------
(* handle_connection                                                        *)

\* The worker returns: both sockets are dropped.
Return ==
    /\ pc' = "done"
    /\ shut' = [s \in Peer |-> TRUE]
    /\ UNCHANGED <<turn, ready, request, fin, sent, eof, done, out, taken>>

\* write_simple_response, then return.
Answer(status) == reply' = status /\ Return

GiveUp == UNCHANGED <<reply, read, held>> /\ Return

\* Slip: the size of a head is not looked at.
TooLargeNever(size) == FALSE

TooLarge(size) == size > MAX_HEADER_BYTES

Received(n) == held["client"] \o Incoming("client", n)

\* A chunk without the end of the head, within the limit.
ReadHead(n) ==
    /\ pc = "head"
    /\ Reads("client", n)
    /\ Len(Received(n)) < request.head
    /\ ~TooLarge(Len(Received(n)))
    /\ held' = [held EXCEPT !["client"] = Received(n)]
    /\ UNCHANGED <<pc, turn, ready, request, reply, fin, sent, eof, done, out, taken, shut>>

HeadTooLarge(n) ==
    /\ pc = "head"
    /\ Reads("client", n)
    /\ Len(Received(n)) < request.head
    /\ TooLarge(Len(Received(n)))
    /\ held' = [held EXCEPT !["client"] = Received(n)]
    /\ Answer(431)

\* The client ends or is silent before the head is complete.
HeadFails ==
    /\ pc = "head"
    /\ AtEof("client") \/ ReadFails("client") \/ TimesOut
    /\ UNCHANGED <<read, held>>
    /\ IF AtEof("client") /\ held["client"] = <<>>
         THEN reply' = reply /\ Return
         ELSE Answer(400)

\* A browser may leave the port out of the origin, but not out of the host.
host_matches == request.host = "route"

origin_matches == request.origin \in {"route", "node", "none"}

allowed == host_matches /\ origin_matches

\* The end of the head is in this chunk, maybe with the first pieces of the body.
HeadComplete(n) ==
    /\ pc = "head"
    /\ Reads("client", n)
    /\ Len(Received(n)) >= request.head
    /\ held' = [held EXCEPT !["client"] = Received(n)]
    /\ \/ ~request.parses /\ Answer(400)
       \/ request.parses /\ ~allowed /\ Answer(403)
       \/ /\ request.parses /\ allowed
          /\ pc' = "connect"
          /\ UNCHANGED <<turn, ready, request, reply, fin, sent, eof, done, out, taken, shut>>

ConnectFails ==
    /\ pc = "connect"
    /\ UNCHANGED <<read, held>>
    /\ Answer(502)

\* content_length.unwrap_or(0)
length == IF request.length = NoLength THEN 0 ELSE request.length

LengthMissing == request.chunked /\ request.length = NoLength

Connects ==
    /\ pc = "connect"
    /\ UNCHANGED <<read, held>>
    /\ CASE ~request.upgrade /\ LengthMissing -> Answer(411)
         [] ~request.upgrade /\ ~LengthMissing /\ length > MAX_REQUEST_BODY_BYTES -> Answer(413)
         [] OTHER ->
              /\ pc' = "request"
              /\ UNCHANGED <<turn, ready, request, reply, fin, sent, eof, done, out, taken, shut>>

-----------------------------------------------------------------------------
(* The blocking writes of both relays: the request and its body towards the  *)
(* dev server, the response towards the client.                             *)

\* Slip: the head is counted as body that was already relayed.
remaining_with_head == IF length > read["client"] THEN length - read["client"] ELSE 0

\* Pieces of the body still to be read from the client.
remaining == IF request.head + length > read["client"]
               THEN request.head + length - read["client"] ELSE 0

\* Where a relay goes when a write_all towards a peer is complete.
AfterRequest ==
    IF request.upgrade THEN "poll" ELSE IF remaining > 0 THEN "exact" ELSE "response"

WriteAll(s, n) ==
    /\ \/ s = "client" /\ pc \in {"request", "exact"}
       \/ s = "backend" /\ pc \in {"answer", "copy"}
    /\ Writes(s, n)
    /\ pc' = IF n < Len(held[s]) THEN pc
               ELSE IF s = "client" THEN AfterRequest ELSE "copy"
    /\ UNCHANGED <<turn, ready, request, reply, fin, sent, read, eof, done, taken, shut>>

\* Only a failure to send the head of a plain request is answered.
RequestFails ==
    /\ pc = "request"
    /\ Gone("backend")
    /\ IF ~request.upgrade /\ Len(out["backend"]) < request.head
         THEN UNCHANGED <<read, held>> /\ Answer(502)
         ELSE GiveUp

-----------------------------------------------------------------------------
(* relay_http                                                               *)

\* Slip: relay_exact reads whatever a buffer holds.
BodyChunkOfAnySize(n) == TRUE

BodyChunk(n) == n <= remaining

ReadBody(n) ==
    /\ pc = "exact"
    /\ held["client"] = <<>>
    /\ BodyChunk(n)
    /\ Reads("client", n)
    /\ held' = [held EXCEPT !["client"] = Incoming("client", n)]
    /\ UNCHANGED <<pc, turn, ready, request, reply, fin, sent, eof, done, out, taken, shut>>

\* relay_exact fails: the client ends or is silent in the middle of the body, or
\* the dev server is gone.
BodyFails ==
    /\ pc = "exact"
    /\ IF held["client"] = <<>>
         THEN AtEof("client") \/ ReadFails("client") \/ TimesOut
         ELSE Gone("backend")
    /\ GiveUp

ReadResponse(n) ==
    /\ pc = "response"
    /\ Reads("backend", n)
    /\ held' = [held EXCEPT !["backend"] = @ \o Incoming("backend", n)]
    /\ CASE Len(held["backend"]) + n >= request.answer ->
              /\ pc' = "answer"
              /\ UNCHANGED <<turn, ready, request, reply, fin, sent, eof, done, out, taken, shut>>
         [] /\ Len(held["backend"]) + n < request.answer
            /\ ~TooLarge(Len(held["backend"]) + n) ->
              UNCHANGED <<pc, turn, ready, request, reply, fin, sent, eof, done, out, taken, shut>>
         [] OTHER -> UNCHANGED reply /\ Return

\* The dev server ends before its response head does.
ResponseFails ==
    /\ pc = "response"
    /\ AtEof("backend") \/ ReadFails("backend")
    /\ GiveUp

AnswerFails ==
    /\ pc = "answer"
    /\ Gone("client")
    /\ GiveUp

\* io::copy
Copy(n) ==
    /\ pc = "copy"
    /\ held["backend"] = <<>>
    /\ Reads("backend", n)
    /\ held' = [held EXCEPT !["backend"] = Incoming("backend", n)]
    /\ UNCHANGED <<pc, turn, ready, request, reply, fin, sent, eof, done, out, taken, shut>>

\* io::copy returns, with an error or without: the result is not looked at.
CopyEnds ==
    /\ pc = "copy"
    /\ IF held["backend"] = <<>>
         THEN AtEof("backend") \/ ReadFails("backend")
         ELSE Gone("client")
    /\ GiveUp

-----------------------------------------------------------------------------
(* relay_upgrade                                                            *)

\* Slip: only the direction that reads is waited for.
WantsOutNever(t) == FALSE

\* events: a pipe with bytes in hand waits for its sink, one without for its source.
WantsOut(t) == ~done[other(t)] /\ held[other(t)] # <<>>

WantsIn(s) == ~done[s] /\ held[s] = <<>> /\ ~eof[s]

\* poll(2) reports end of file and errors as well as data and room.
Reported(s) ==
    \/ WantsIn(s) /\ (Unread(s) > 0 \/ fin[s] # "open")
    \/ WantsOut(s) /\ (Room(s) > 0 \/ Gone(s))

Poll ==
    /\ pc = "poll"
    /\ \E s \in Peer : Reported(s)
    /\ ready' = {s \in Peer : Reported(s)}
    /\ turn' = "client"
    /\ pc' = "read"
    /\ UNCHANGED <<request, reply, fin, sent, read, held, eof, done, out, taken, shut>>

\* Nothing is left to wait for.
PumpEnds ==
    /\ pc = "poll"
    /\ \A s \in Peer : ~WantsIn(s) /\ ~WantsOut(s)
    /\ GiveUp

\* Slip: a pipe reads again before it has written what it holds.
MayReadAhead(s) == ~eof[s] /\ s \in ready

MayRead(s) == held[s] = <<>> /\ ~eof[s] /\ s \in ready

PumpReads(s, n) ==
    /\ pc = "read" /\ turn = s /\ ~done[s]
    /\ MayRead(s)
    /\ Reads(s, n)
    /\ held' = [held EXCEPT ![s] = Incoming(s, n)]
    /\ pc' = "write"
    /\ UNCHANGED <<turn, ready, request, reply, fin, sent, eof, done, out, taken, shut>>

\* Slip: a failed read is taken for one that would block.
EndsReadingAtEof(s) == AtEof(s)

EndsReading(s) == AtEof(s) \/ ReadFails(s)

PumpEof(s) ==
    /\ pc = "read" /\ turn = s /\ ~done[s]
    /\ MayRead(s)
    /\ EndsReading(s)
    /\ eof' = [eof EXCEPT ![s] = TRUE]
    /\ pc' = "write"
    /\ UNCHANGED <<turn, ready, request, reply, fin, sent, read, held, done, out, taken, shut>>

\* Nothing to read for this pipe, or the read would block.
PumpSkips(s) ==
    /\ pc = "read" /\ turn = s /\ ~done[s]
    /\ MayRead(s) => Unread(s) = 0 /\ fin[s] = "open"
    /\ pc' = "write"
    /\ UNCHANGED <<turn, ready, request, reply, fin, sent, read, held, eof, done, out, taken, shut>>

\* The write loop: as much as the sink takes.
PumpWrites(s, n) ==
    /\ pc = "write" /\ turn = s
    /\ Writes(s, n)
    /\ n = Len(held[s]) \/ (n = Room(other(s)) /\ ~Gone(other(s)))
    /\ pc' = "finish"
    /\ UNCHANGED <<turn, ready, request, reply, fin, sent, read, eof, done, taken, shut>>

PumpWritesNothing(s) ==
    /\ pc = "write" /\ turn = s
    /\ held[s] = <<>> \/ (Room(other(s)) = 0 /\ ~Gone(other(s)))
    /\ pc' = "finish"
    /\ UNCHANGED <<turn, ready, request, reply, fin, sent, read, held, eof, done, out, taken, shut>>

\* A write fails: the function returns and both sockets are dropped.
PumpFails(s) ==
    /\ pc = "write" /\ turn = s
    /\ held[s] # <<>>
    /\ Gone(other(s))
    /\ GiveUp

PassedOn(s) == eof[s] /\ held[s] = <<>>

\* Where the inner loop goes after pipe s.
NextPipe(s) ==
    /\ turn' = other(s)
    /\ pc' = IF s = "client" THEN "read" ELSE "poll"

\* shutdown(Write) of the sink, once.
PumpFinishes(s) ==
    /\ pc = "finish" /\ turn = s
    /\ done' = [done EXCEPT ![s] = PassedOn(s)]
    /\ shut' = [shut EXCEPT ![other(s)] = PassedOn(s)]
    /\ NextPipe(s)
    /\ UNCHANGED <<ready, request, reply, fin, sent, read, held, eof, out, taken>>

PumpDone(s) ==
    /\ pc = "read" /\ turn = s /\ done[s]
    /\ NextPipe(s)
    /\ UNCHANGED <<ready, request, reply, fin, sent, read, held, eof, done, out, taken, shut>>

-----------------------------------------------------------------------------

Pump(s) ==
    \/ \E n \in 1..CHUNK : PumpReads(s, n)
    \/ PumpEof(s)
    \/ PumpSkips(s)
    \/ \E n \in 1..Len(held[s]) : PumpWrites(s, n)
    \/ PumpWritesNothing(s)
    \/ PumpFails(s)
    \/ PumpFinishes(s)
    \/ PumpDone(s)

HandleConnection ==
    \/ \E n \in 1..CHUNK : ReadHead(n) \/ HeadTooLarge(n) \/ HeadComplete(n)
    \/ HeadFails
    \/ ConnectFails
    \/ Connects
    \/ \E s \in Peer : \E n \in 1..Len(held[s]) : WriteAll(s, n)
    \/ RequestFails
    \/ \E n \in 1..CHUNK : ReadBody(n) \/ ReadResponse(n) \/ Copy(n)
    \/ BodyFails
    \/ ResponseFails
    \/ AnswerFails
    \/ CopyEnds
    \/ Poll
    \/ PumpEnds
    \/ \E s \in Peer : Pump(s)

PeerActs(s) == PeerSends(s) \/ PeerTakes(s) \/ PeerEnds(s)

Next ==
    \/ HandleConnection
    \/ \E s \in Peer : PeerActs(s)

Spec == Init /\ [][Next]_vars

\* The worker runs, its timeouts included.  The peers owe it nothing.
FairSpec == Spec /\ WF_vars(HandleConnection)

-----------------------------------------------------------------------------
(* Properties                                                               *)

\* Why the stream from s may be given up.  The request never reached the dev
\* server whole; the source was reset or the sink is gone; in a WebSocket, the
\* source closed both ways while bytes for it were in hand; in plain HTTP, the
\* stream of the client is only promised up to the end of the request, and that
\* of the dev server only after the whole request and with a head within bounds.
Excused(s) ==
    \/ Len(out["backend"]) < request.head
    \/ fin[s] = "reset" \/ Gone(other(s))
    \/ fin[s] = "closed" /\ held[other(s)] # <<>>
    \/ /\ ~request.upgrade
       /\ \/ s = "client"
          \/ Len(out["backend"]) < request.head + length
          \/ sent["backend"] < request.answer
          \/ request.answer > MAX_HEADER_BYTES

FromClient == INSTANCE Channel WITH
    sent <- sent["client"], ended <- fin["client"] # "open", delivered <- out["backend"],
    closed <- shut["backend"], excuse <- Excused("client")

FromBackend == INSTANCE Channel WITH
    sent <- sent["backend"], ended <- fin["backend"] # "open", delivered <- out["client"],
    closed <- shut["client"], excuse <- Excused("backend")

\* Each direction is a Channel: what one peer sends reaches the other in order,
\* once, and the end of it is passed on (shutdown, or the close on return) only
\* after the last byte, although the buffers of both directions, their ends and
\* their errors are handled by one loop (relay_upgrade) or in turn (relay_http).
Streams == FromClient!Spec /\ FromBackend!Spec

Pumping == pc \in {"poll", "read", "write", "finish"}

\* As long as it has not gone, a peer reads what it is sent.
Reader(t) == WF_vars(PeerTakes(t))

Relaying(s) == Pumping \/ (s = "backend" /\ pc \in {"response", "answer", "copy"})

\* While a relay is open, everything a peer has sent reaches a sink that reads, even
\* if the other direction is over or blocked for ever: a half-close of one peer, or
\* a full buffer towards it that it never reads, keeps nothing of the other
\* direction back.
EverythingArrives ==
    \A s \in Peer :
        Reader(other(s)) =>
            \A n \in 1..SENDS[s] :
                sent[s] >= n /\ Relaying(s) ~> Len(out[other(s)]) >= n \/ Excused(s)

\* A client that falls silent keeps no worker in its head, nor, if the dev server
\* reads, in its body; and handle_connection returns once both peers have ended, if
\* those that only half-closed read what is still written to them.
WorkerReturns ==
    /\ pc = "head" ~> pc # "head"
    /\ Reader("backend") => (pc = "exact" ~> pc # "exact")
    /\ (\A s \in Peer : Reader(s)) => ((\A s \in Peer : fin[s] # "open") ~> pc = "done")

\* The response is waited for, and begun, only after the dev server was given
\* every piece read from the client, and these are the whole request: its head and
\* body and, beyond them, only what came with the read that completed the head,
\* which is forwarded as it is (proxy.rs:448).  What the bridge refuses, or
\* answers itself before connecting, is never forwarded.
RequestIsWhole ==
    /\ pc \in {"response", "answer", "copy"} \/ (~request.upgrade /\ out["client"] # <<>>) =>
          /\ Len(out["backend"]) = read["client"]
          /\ Len(out["backend"]) >= request.head + length
          /\ \/ Len(out["backend"]) <= request.head + length
             \/ Len(out["backend"]) < request.head + CHUNK
          /\ reply = 0
    /\ ~allowed \/ reply \notin {0, 502} => out["backend"] = <<>>
=============================================================================
