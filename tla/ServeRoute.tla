----------------------------- MODULE ServeRoute -----------------------------
(***************************************************************************)
(* How a Porthmeus run publishes and keeps its Serve route through the      *)
(* LocalAPI (src/src/localapi.rs, open_route, watch and Session; the port    *)
(* choice of src/src/runner.rs).  Several runs and other clients share one   *)
(* tailscaled, whose Serve config is changed by read, modify and             *)
(* compare-and-set on its ETag.                                             *)
(*                                                                         *)
(* tailscaled is not part of the repository.  It is modelled from how the   *)
(* code uses it: the ETag names the content of the config, a POST whose      *)
(* If-Match is not the current ETag answers 412, a foreground entry lives    *)
(* as long as its watch connection, and entries of ended sessions are not    *)
(* accepted.                                                                *)
(***************************************************************************)
EXTENDS Naturals

CONSTANTS
    Session,        \* runs of porthmeus, each with its own watch session
    Port,           \* HTTPS ports
    FunnelPort,     \* RESERVED_FUNNEL_PORTS of serve.rs
    NoPort,
    SET_ATTEMPTS    \* localapi.rs:22

ASSUME RouteAssumption ==
    /\ NoPort \notin Port
    /\ FunnelPort \subseteq Port
    /\ SET_ATTEMPTS \in Nat \ {0}

VARIABLES
    bg,       \* tailscaled: ports configured outside foreground sessions
    fg,       \* tailscaled: the port of each session's foreground entry
    conn,     \* each session's watch connection, seen from both ends
    pc,       \* where each run is in open_route and the life of its Session
    port,     \* the port each run wants
    attempt,  \* the loop counter of open_route
    snap,     \* the config a run read, whose ETag its POST carries
    wire      \* the POST exchange of each run

vars == <<bg, fg, conn, pc, port, attempt, snap, wire>>
daemon == <<bg, fg>>

Config == [bg |-> bg, fg |-> fg]
ConfigSet == [bg : SUBSET Port, fg : [Session -> Port \cup {NoPort}]]
Blank == [bg |-> {}, fg |-> [s \in Session |-> NoPort]]

Opening == {"watch", "read", "post", "wait", "backoff"}
Ended == {"failed", "lost", "stopped", "killed"}

TypeOK ==
    /\ bg \subseteq Port
    /\ fg \in [Session -> Port \cup {NoPort}]
    /\ conn \in [Session -> {"none", "open", "dropped", "ended"}]
    /\ pc \in [Session -> {"start", "session"} \cup Opening \cup Ended]
    /\ port \in [Session -> Port \cup {NoPort}]
    /\ attempt \in [Session -> 1..SET_ATTEMPTS]
    /\ snap \in [Session -> ConfigSet]
    /\ wire \in [Session -> {"none", "request", "ok", "stale", "error"}]

Init ==
    /\ bg \in SUBSET Port
    /\ fg = [s \in Session |-> NoPort]
    /\ conn = [s \in Session |-> "none"]
    /\ pc = [s \in Session |-> "start"]
    /\ port = [s \in Session |-> NoPort]
    /\ attempt = [s \in Session |-> 1]
    /\ snap = [s \in Session |-> Blank]
    /\ wire = [s \in Session |-> "none"]

-----------------------------------------------------------------------------
(* ServeConfig and the config document                                      *)

\* Slip: other foreground sessions are not looked at.
uses_port_in_background(config, p) == p \in config.bg

uses_port(config, p) == p \in config.bg \/ \E s \in Session : config.fg[s] = p

\* Slip: the body is made for this run alone, not on top of the config.
with_only_our_route(config, s, p) ==
    [bg |-> {}, fg |-> [t \in Session |-> IF t = s THEN p ELSE NoPort]]

with_foreground_route(config, s, p) == [config EXCEPT !.fg[s] = p]

\* Slip: the stream outlives the run that opened it.
KeepOpen(s) == conn

\* A process end of the watch that is closed: the daemon has yet to notice.
Hangup(s) == [conn EXCEPT ![s] = IF @ = "open" THEN "dropped" ELSE @]

-----------------------------------------------------------------------------
(* The run: choose a port, then LocalApi::open_route.                       *)

\* --https, or a port the kernel gave for a moment; checked against Funnel and
\* against the config as it is before the dev command even starts.
ChoosePort(s, p) ==
    /\ pc[s] = "start"
    /\ port' = [port EXCEPT ![s] = p]
    /\ pc' = [pc EXCEPT ![s] =
                IF p \in FunnelPort \/ uses_port(Config, p) THEN "failed" ELSE "watch"]
    /\ UNCHANGED <<daemon, conn, attempt, snap, wire>>

Watch(s) ==
    /\ pc[s] = "watch"
    /\ conn' = [conn EXCEPT ![s] = "open"]
    /\ pc' = [pc EXCEPT ![s] = "read"]
    /\ UNCHANGED <<daemon, port, attempt, snap, wire>>

\* Any `?` of open_route before the POST: the stream is dropped with the error.
Abandon(s) ==
    /\ pc[s] \in {"watch", "read"}
    /\ pc' = [pc EXCEPT ![s] = "failed"]
    /\ conn' = Hangup(s)
    /\ UNCHANGED <<daemon, port, attempt, snap, wire>>

\* serve_config() and uses_port: the config is read with its ETag, and a port
\* somebody already uses ends the attempt.
ReadConfig(s) ==
    /\ pc[s] = "read"
    /\ IF uses_port(Config, port[s])
         THEN /\ pc' = [pc EXCEPT ![s] = "failed"]
              /\ conn' = Hangup(s)
              /\ UNCHANGED snap
         ELSE /\ pc' = [pc EXCEPT ![s] = "post"]
              /\ snap' = [snap EXCEPT ![s] = Config]
              /\ UNCHANGED conn
    /\ UNCHANGED <<daemon, port, attempt, wire>>

\* exchange("POST", If-Match: etag of snap, with_foreground_route(snap)).
SendPost(s) ==
    /\ pc[s] = "post"
    /\ wire' = [wire EXCEPT ![s] = "request"]
    /\ pc' = [pc EXCEPT ![s] = "wait"]
    /\ UNCHANGED <<daemon, conn, port, attempt, snap>>

\* The exchange itself fails (5 s timeout, connection error).  The request may
\* be lost, still on its way, or applied already.
PostFails(s) ==
    /\ pc[s] = "wait"
    /\ \E w \in {wire[s], "none"} :
         /\ wire' = [wire EXCEPT ![s] = w]
         /\ snap' = IF w = "request" THEN snap ELSE [snap EXCEPT ![s] = Blank]
    /\ pc' = [pc EXCEPT ![s] = "failed"]
    /\ conn' = Hangup(s)
    /\ UNCHANGED <<daemon, port, attempt>>

\* The answer has been read.
EndExchange(s) ==
    /\ wire' = [wire EXCEPT ![s] = "none"]
    /\ snap' = [snap EXCEPT ![s] = Blank]
    /\ UNCHANGED <<daemon, port, attempt>>

\* Slip: every answer but 412 counts as success.
AcceptedUnless412(s) == wire[s] \in {"ok", "error"}

\* 200 and nothing else.
Accepted(s) == wire[s] = "ok"

AnswerOk(s) ==
    /\ pc[s] = "wait"
    /\ Accepted(s)
    /\ pc' = [pc EXCEPT ![s] = "session"]
    /\ EndExchange(s)
    /\ UNCHANGED conn

\* Slip: one attempt too many.
AttemptsLeftOneMore(s) == attempt[s] <= SET_ATTEMPTS

AttemptsLeft(s) == attempt[s] < SET_ATTEMPTS

\* 412: "Another client changed the config between read and write."
AnswerStale(s) ==
    /\ pc[s] = "wait"
    /\ wire[s] = "stale"
    /\ AttemptsLeft(s)
    /\ pc' = [pc EXCEPT ![s] = "backoff"]
    /\ EndExchange(s)
    /\ UNCHANGED conn

\* Any other answer, or 412 for the last time.
AnswerError(s) ==
    /\ pc[s] = "wait"
    /\ wire[s] = "error" \/ (wire[s] = "stale" /\ ~AttemptsLeft(s))
    /\ pc' = [pc EXCEPT ![s] = "failed"]
    /\ conn' = Hangup(s)
    /\ EndExchange(s)

\* Slip: the retry does not count.
RetryUncounted(s) ==
    /\ pc[s] = "backoff"
    /\ pc' = [pc EXCEPT ![s] = "read"]
    /\ UNCHANGED <<daemon, conn, port, attempt, snap, wire>>

\* sleep(100 ms * attempt), then the next turn of the loop.
Retry(s) ==
    /\ pc[s] = "backoff"
    /\ attempt' = [attempt EXCEPT ![s] = @ + 1]
    /\ pc' = [pc EXCEPT ![s] = "read"]
    /\ UNCHANGED <<daemon, conn, port, snap, wire>>

-----------------------------------------------------------------------------
(* The life of the Session                                                  *)

\* Slip: end of file is taken for "nothing more to read".
DrainIgnoresEof(s) ==
    /\ pc[s] = "session"
    /\ conn[s] = "ended"
    /\ UNCHANGED vars

\* Session::drain reads end of file: the daemon ended the session.
Drain(s) ==
    /\ pc[s] = "session"
    /\ conn[s] = "ended"
    /\ pc' = [pc EXCEPT ![s] = "lost"]
    /\ UNCHANGED <<daemon, conn, port, attempt, snap, wire>>

\* Route::stop drops the Session.
Stop(s) ==
    /\ pc[s] = "session"
    /\ pc' = [pc EXCEPT ![s] = "stopped"]
    /\ conn' = Hangup(s)
    /\ UNCHANGED <<daemon, port, attempt, snap, wire>>

\* SIGKILL at any point: the kernel closes every connection of the process.
Kill(s) ==
    /\ pc[s] \notin Ended
    /\ pc' = [pc EXCEPT ![s] = "killed"]
    /\ conn' = Hangup(s)
    /\ UNCHANGED <<daemon, port, attempt, snap, wire>>

-----------------------------------------------------------------------------
(* tailscaled                                                               *)

\* A POST replaces the whole config, only if that is the one it was computed from.
Apply(s) ==
    /\ wire[s] = "request"
    /\ snap[s] = Config
    /\ wire' = [wire EXCEPT ![s] = "ok"]
    /\ LET body == with_foreground_route(snap[s], s, port[s])
       IN IF conn[s] = "ended"
            THEN UNCHANGED daemon
            ELSE bg' = body.bg /\ fg' = body.fg
    /\ UNCHANGED <<conn, pc, port, attempt, snap>>

RejectStale(s) ==
    /\ wire[s] = "request"
    /\ snap[s] # Config
    /\ wire' = [wire EXCEPT ![s] = "stale"]
    /\ UNCHANGED <<daemon, conn, pc, port, attempt, snap>>

\* Access denied, an internal error.
Refuse(s) ==
    /\ wire[s] = "request"
    /\ wire' = [wire EXCEPT ![s] = "error"]
    /\ UNCHANGED <<daemon, conn, pc, port, attempt, snap>>

\* The daemon notices that a watch connection closed and deletes its entry.
NoticeHangup(s) ==
    /\ conn[s] = "dropped"
    /\ conn' = [conn EXCEPT ![s] = "ended"]
    /\ fg' = [fg EXCEPT ![s] = NoPort]
    /\ UNCHANGED <<bg, pc, port, attempt, snap, wire>>

EndAll == [s \in Session |-> IF conn[s] = "none" THEN "none" ELSE "ended"]

\* The daemon restarts: connections break, requests are lost, foreground
\* entries are forgotten, the background config is read back.
Restart ==
    /\ conn' = EndAll
    /\ fg' = [s \in Session |-> NoPort]
    /\ wire' = [s \in Session |-> IF wire[s] = "request" THEN "none" ELSE wire[s]]
    /\ UNCHANGED <<bg, pc, port, attempt, snap>>

\* "tailscale serve reset" by somebody else.
Reset ==
    /\ bg' = {}
    /\ conn' = EndAll
    /\ fg' = [s \in Session |-> NoPort]
    /\ UNCHANGED <<pc, port, attempt, snap, wire>>

\* Another client adds, changes or removes background routes.
EditBackground ==
    /\ bg' \in SUBSET Port
    /\ UNCHANGED <<fg, conn, pc, port, attempt, snap, wire>>

-----------------------------------------------------------------------------

(* The runs and the daemon together                                       *)

Answer(s) == AnswerOk(s) \/ AnswerStale(s) \/ AnswerError(s)

Run(s) ==
    \/ \E p \in Port : ChoosePort(s, p)
    \/ Watch(s)
    \/ Abandon(s)
    \/ ReadConfig(s)
    \/ SendPost(s)
    \/ PostFails(s)
    \/ Answer(s)
    \/ Retry(s)
    \/ Drain(s)
    \/ Stop(s)
    \/ Kill(s)

Daemon(s) ==
    \/ Apply(s)
    \/ RejectStale(s)
    \/ Refuse(s)
    \/ NoticeHangup(s)

Next ==
    \/ \E s \in Session : Run(s) \/ Daemon(s)
    \/ Restart
    \/ Reset
    \/ EditBackground

Spec == Init /\ [][Next]_vars

\* A run that is not killed takes its next step; the socket timeouts end every
\* exchange; supervise polls the session.  The daemon notices closed connections.
\* Nothing forces it to answer a POST, and nothing stops other clients.
Fairness ==
    \A s \in Session :
        /\ WF_vars(Watch(s) \/ Abandon(s))
        /\ WF_vars(ReadConfig(s))
        /\ WF_vars(SendPost(s))
        /\ WF_vars(PostFails(s) \/ Answer(s))
        /\ WF_vars(Retry(s))
        /\ WF_vars(Drain(s))
        /\ WF_vars(NoticeHangup(s))

FairSpec == Spec /\ Fairness

-----------------------------------------------------------------------------
(* Properties                                                               *)

\* No two runs ever hold the same HTTPS port, however their reads and writes
\* interleave with each other and with other clients.
OnePerPort ==
    \A s, t \in Session : fg[s] = fg[t] /\ fg[s] # NoPort => s = t

\* A run that believes it has a route and whose connection is open has it: a
\* Session is never built on a POST that did not take effect.
SessionHoldsRoute ==
    \A s \in Session :
        pc[s] = "session" /\ conn[s] = "open" => fg[s] = port[s]

\* "existing Serve routes are not replaced": every change a run makes to the
\* config claims a free port and touches nothing else.
Ownership == INSTANCE PortOwnership
Ownership_Spec == Ownership!Spec

\* "tailscaled deletes it when this connection closes, including when Porthmeus
\* is killed outright" (localapi.rs:37): once a run is over, its route is gone for
\* good, even when its POST was applied after it gave up waiting.
NoOrphanRoute ==
    \A s \in Session : pc[s] \in Ended ~> [](fg[s] = NoPort)

\* The part of it that needs no fairness: of a run that is over, a route is left only
\* until tailscaled has noticed the hangup, and no request that is still on its way,
\* and no restart, gives it one after that.
EndedRunGetsNoRoute ==
    [][\A s \in Session :
          pc[s] \in Ended /\ conn[s] # "dropped" => fg[s] = NoPort /\ fg'[s] = NoPort]_vars

\* A run whose route the daemon removed finds out.
LostRouteIsSeen ==
    \A s \in Session : pc[s] = "session" /\ fg[s] = NoPort ~> pc[s] # "session"

\* open_route returns, however often other clients change the config.
OpenReturns ==
    \A s \in Session : pc[s] \in Opening ~> pc[s] \notin Opening
=============================================================================
