--------------------------- MODULE PortOwnership ----------------------------
(***************************************************************************)
(* What Porthmeus promises about Tailscale Serve ports: "each invocation    *)
(* owns a separate HTTPS port", existing routes are not replaced, and only   *)
(* its own session is ever removed (README, "Lifetime and security").  How   *)
(* a claim is made safe against other clients is left to ServeRoute.         *)
(***************************************************************************)
CONSTANTS Session, Port, NoPort

VARIABLES
    bg,   \* ports configured in the background by any other client
    fg    \* the port each session's foreground route holds, or NoPort

vars == <<bg, fg>>

Free(p) == p \notin bg /\ \A s \in Session : fg[s] # p

Init ==
    /\ bg \in SUBSET Port
    /\ fg = [s \in Session |-> NoPort]

\* A session takes a port nobody uses and leaves everything else as it is.
Claim(s, p) ==
    /\ fg[s] = NoPort
    /\ Free(p)
    /\ fg' = [fg EXCEPT ![s] = p]
    /\ UNCHANGED bg

\* Sessions end; their routes go with them and nothing else changes.
Release(S) ==
    /\ fg' = [s \in Session |-> IF s \in S THEN NoPort ELSE fg[s]]
    /\ UNCHANGED bg

\* Everything is cleared at once ("tailscale serve reset").
Clear ==
    /\ bg' = {}
    /\ fg' = [s \in Session |-> NoPort]

\* Other clients edit the background routes as they like.
EditBackground ==
    /\ bg' \in SUBSET Port
    /\ UNCHANGED fg

Next ==
    \/ \E s \in Session, p \in Port : Claim(s, p)
    \/ \E S \in SUBSET Session : Release(S)
    \/ Clear
    \/ EditBackground

Spec == Init /\ [][Next]_vars

\* No two sessions hold the same HTTPS port.
OnePerPort ==
    \A s, t \in Session : fg[s] = fg[t] /\ fg[s] # NoPort => s = t
=============================================================================
