-------------------------- MODULE ServeRouteProofs --------------------------
(***************************************************************************)
(* The compare-and-set protocol of ServeRoute is safe for every number of   *)
(* runs, ports and attempts.                                                *)
(*                                                                         *)
(* OnePerPort and SessionHoldsRoute are not inductive: they need to know     *)
(* what a POST on its way may do.  PostIsSafe says that the config a POST    *)
(* was computed from leaves its port free and that its run holds nothing     *)
(* yet; AnswerIsTrue says what a 200 that was not read yet means.            *)
(***************************************************************************)
EXTENDS ServeRoute, TLAPS

\* Before its POST is on the wire a run has nothing there and holds no port.
BeforePost ==
    \A s \in Session :
        pc[s] \in {"start", "watch", "read", "post", "backoff"}
            => /\ wire[s] = "none"
               /\ fg[s] = NoPort
               /\ pc[s] \in {"start", "watch"} => conn[s] = "none"

\* A run only waits for another turn if the loop has one left.
TurnLeft == \A s \in Session : pc[s] = "backoff" => attempt[s] < SET_ATTEMPTS

PortChosen == \A s \in Session : pc[s] \in Opening => port[s] \in Port

PostIsSafe ==
    \A s \in Session :
        /\ pc[s] = "post" => ~uses_port(snap[s], port[s])
        /\ wire[s] = "request" =>
              /\ ~uses_port(snap[s], port[s])
              /\ port[s] \in Port
              /\ fg[s] = NoPort
              /\ pc[s] \in {"wait", "failed", "killed"}

AnswerIsTrue ==
    \A s \in Session :
        /\ pc[s] = "wait" /\ wire[s] \in {"none", "stale", "error"} => fg[s] = NoPort
        /\ wire[s] = "ok" /\ conn[s] = "open" => fg[s] = port[s]
        /\ pc[s] \in Ended => conn[s] # "open"

RouteInv ==
    TypeOK /\ TurnLeft /\ BeforePost /\ PortChosen /\ PostIsSafe /\ AnswerIsTrue
    /\ OnePerPort /\ SessionHoldsRoute

\* The body written by with_foreground_route changes one place of fg.
LEMMA AppliedBody ==
  ASSUME TypeOK, NEW s \in Session, snap[s] = Config
  PROVE  /\ with_foreground_route(snap[s], s, port[s]).fg = [fg EXCEPT ![s] = port[s]]
         /\ with_foreground_route(snap[s], s, port[s]).bg = bg
  BY DEF with_foreground_route, Config, TypeOK

\* What a POST that is applied does to the daemon's config.
LEMMA AppliedPost ==
  ASSUME TypeOK, NEW s \in Session, Apply(s)
  PROVE  /\ bg' = bg
         /\ conn[s] = "ended" => fg' = fg
         /\ conn[s] # "ended" => fg' = [fg EXCEPT ![s] = port[s]]
  BY AppliedBody DEF Apply, daemon

LEMMA BlankIsConfig == Blank \in ConfigSet
  BY DEF Blank, ConfigSet

LEMMA CurrentIsConfig ==
  ASSUME TypeOK
  PROVE  Config \in ConfigSet
  BY DEF TypeOK, Config, ConfigSet

LEMMA InitRoute == Init => RouteInv
  BY RouteAssumption, BlankIsConfig
     DEF Init, RouteInv, TypeOK, TurnLeft, BeforePost, PortChosen, PostIsSafe, AnswerIsTrue,
         OnePerPort, SessionHoldsRoute, Opening, Ended

\* Every action keeps the types.
LEMMA NextTypeOK == RouteInv /\ [Next]_vars => TypeOK'
<1> SUFFICES ASSUME RouteInv, [Next]_vars PROVE TypeOK'
  OBVIOUS
<1> USE RouteAssumption DEF TypeOK, Opening, Ended, daemon, RouteInv
<1>1. ASSUME NEW s \in Session, Run(s) PROVE TypeOK'
  <2>1. ASSUME NEW p \in Port, ChoosePort(s, p) PROVE TypeOK'
    BY <2>1 DEF ChoosePort
  <2>2. CASE Watch(s) \/ Abandon(s) \/ SendPost(s) \/ Retry(s)
    <3>1. CASE Watch(s) \/ Abandon(s) \/ SendPost(s)
      BY <3>1 DEF Watch, Abandon, SendPost, Hangup
    <3>2. CASE Retry(s)
      <4>1. attempt[s] \in 1..SET_ATTEMPTS /\ attempt[s] + 1 \in 1..SET_ATTEMPTS
        BY <3>2 DEF Retry, TurnLeft
      <4> QED
        BY <3>2, <4>1 DEF Retry
    <3> QED
      BY <2>2, <3>1, <3>2
  <2>3. CASE ReadConfig(s)
    BY <2>3, CurrentIsConfig DEF ReadConfig, Hangup
  <2>4. CASE PostFails(s)
    BY <2>4, BlankIsConfig DEF PostFails, Hangup
  <2>5. CASE Answer(s)
    BY <2>5, BlankIsConfig
       DEF Answer, AnswerOk, AnswerStale, AnswerError, EndExchange, Hangup
  <2>6. CASE Drain(s) \/ Stop(s) \/ Kill(s)
    BY <2>6 DEF Drain, Stop, Kill, Hangup
  <2> QED
    BY <1>1, <2>1, <2>2, <2>3, <2>4, <2>5, <2>6 DEF Run
<1>2. ASSUME NEW s \in Session, Daemon(s) PROVE TypeOK'
  <2>1. CASE Apply(s)
    BY <2>1, AppliedPost DEF Apply, PostIsSafe
  <2>2. CASE RejectStale(s) \/ Refuse(s) \/ NoticeHangup(s)
    BY <2>2 DEF RejectStale, Refuse, NoticeHangup
  <2> QED
    BY <1>2, <2>1, <2>2 DEF Daemon
<1>3. CASE Restart \/ Reset \/ EditBackground
  BY <1>3 DEF Restart, Reset, EditBackground, EndAll
<1>4. CASE UNCHANGED vars
  BY <1>4 DEF vars
<1> QED
  BY <1>1, <1>2, <1>3, <1>4 DEF Next

\* One case per part of RouteInv for the steps of the runs.
LEMMA RunKeeps ==
  ASSUME RouteInv, TypeOK', NEW s \in Session, Run(s)
  PROVE  RouteInv'
<1> USE DEF TypeOK, Opening, Ended, daemon, RouteInv
<1>1. ASSUME NEW p \in Port, ChoosePort(s, p) PROVE RouteInv'
  BY <1>1 DEF ChoosePort, TurnLeft, BeforePost, PortChosen, PostIsSafe, AnswerIsTrue,
              OnePerPort, SessionHoldsRoute, uses_port
<1>2. CASE Watch(s)
  BY <1>2 DEF Watch, TurnLeft, BeforePost, PortChosen, PostIsSafe, AnswerIsTrue,
              OnePerPort, SessionHoldsRoute, uses_port
<1>3. CASE Abandon(s)
  BY <1>3 DEF Abandon, Hangup, TurnLeft, BeforePost, PortChosen, PostIsSafe, AnswerIsTrue,
              OnePerPort, SessionHoldsRoute, uses_port
<1>4. CASE ReadConfig(s)
  BY <1>4 DEF ReadConfig, Hangup, TurnLeft, BeforePost, PortChosen, PostIsSafe,
              AnswerIsTrue, OnePerPort, SessionHoldsRoute, uses_port
<1>5. CASE SendPost(s)
  BY <1>5 DEF SendPost, TurnLeft, BeforePost, PortChosen, PostIsSafe, AnswerIsTrue,
              OnePerPort, SessionHoldsRoute, uses_port
<1>6. CASE PostFails(s)
  BY <1>6 DEF PostFails, Hangup, TurnLeft, BeforePost, PortChosen, PostIsSafe,
              AnswerIsTrue, OnePerPort, SessionHoldsRoute, uses_port
<1>7. CASE Answer(s)
  BY <1>7 DEF Answer, AnswerOk, AnswerStale, AnswerError, EndExchange, Accepted,
              AttemptsLeft, Hangup, TurnLeft, BeforePost, PortChosen,
              PostIsSafe, AnswerIsTrue, OnePerPort, SessionHoldsRoute, uses_port
<1>8. CASE Retry(s)
  BY <1>8 DEF Retry, TurnLeft, BeforePost, PortChosen, PostIsSafe, AnswerIsTrue,
              OnePerPort, SessionHoldsRoute, uses_port
<1>9. CASE Drain(s) \/ Stop(s) \/ Kill(s)
  BY <1>9 DEF Drain, Stop, Kill, Hangup, TurnLeft, BeforePost, PortChosen, PostIsSafe,
              AnswerIsTrue, OnePerPort, SessionHoldsRoute, uses_port
<1> QED
  BY <1>1, <1>2, <1>3, <1>4, <1>5, <1>6, <1>7, <1>8, <1>9 DEF Run

\* The steps of the daemon.  Apply is the one that can break OnePerPort: it may
\* run only on the config in which the port was seen to be free.
LEMMA DaemonKeeps ==
  ASSUME RouteInv, TypeOK', NEW s \in Session, Daemon(s)
  PROVE  RouteInv'
<1> USE DEF TypeOK, Opening, Ended, daemon, RouteInv
<1>1. CASE Apply(s)
  <2>1. /\ ~uses_port(Config, port[s])
        /\ fg[s] = NoPort
        /\ pc[s] \in {"wait", "failed", "killed"}
    BY <1>1 DEF Apply, PostIsSafe
  <2>2. bg' = bg /\ (fg' = fg \/ fg' = [fg EXCEPT ![s] = port[s]])
    BY <1>1, AppliedPost
  <2>3. \A t \in Session : fg[t] # port[s]
    BY <2>1 DEF uses_port, Config
  <2>4. OnePerPort'
    BY <2>2, <2>3 DEF OnePerPort
  <2>5. conn[s] # "ended" => fg' = [fg EXCEPT ![s] = port[s]]
    BY <1>1, AppliedPost
  <2>6. AnswerIsTrue'
    BY <1>1, <2>1, <2>2, <2>5 DEF Apply, AnswerIsTrue
  <2>7. SessionHoldsRoute'
    BY <1>1, <2>1, <2>2 DEF Apply, SessionHoldsRoute
  <2>8. BeforePost' /\ PortChosen' /\ TurnLeft'
    BY <1>1, <2>1, <2>2 DEF Apply, BeforePost, PortChosen, TurnLeft
  <2>9. PostIsSafe'
    BY <1>1, <2>1, <2>2 DEF Apply, PostIsSafe, uses_port
  <2> QED
    BY <2>4, <2>6, <2>7, <2>8, <2>9
<1>2. CASE RejectStale(s) \/ Refuse(s)
  BY <1>2 DEF RejectStale, Refuse, TurnLeft, BeforePost, PortChosen, PostIsSafe,
              AnswerIsTrue, OnePerPort, SessionHoldsRoute, uses_port
<1>3. CASE NoticeHangup(s)
  BY <1>3 DEF NoticeHangup, TurnLeft, BeforePost, PortChosen, PostIsSafe, AnswerIsTrue,
              OnePerPort, SessionHoldsRoute, uses_port
<1> QED
  BY <1>1, <1>2, <1>3 DEF Daemon

LEMMA OthersKeep ==
  ASSUME RouteInv, TypeOK', Restart \/ Reset \/ EditBackground \/ UNCHANGED vars
  PROVE  RouteInv'
<1> USE DEF TypeOK, Opening, Ended, RouteInv, EndAll, TurnLeft, BeforePost, PortChosen,
            PostIsSafe, AnswerIsTrue, OnePerPort, SessionHoldsRoute, uses_port
<1>1. CASE Restart
  BY <1>1 DEF Restart
<1>2. CASE Reset
  BY <1>2 DEF Reset
<1>3. CASE EditBackground \/ UNCHANGED vars
  BY <1>3 DEF EditBackground, vars
<1> QED
  BY <1>1, <1>2, <1>3

LEMMA NextRoute == RouteInv /\ [Next]_vars => RouteInv'
  BY NextTypeOK, RunKeeps, DaemonKeeps, OthersKeep DEF Next

\* The inductive invariant itself.
LEMMA RouteInvariant == Spec => []RouteInv
  BY InitRoute, NextRoute, PTL DEF Spec

\* Every value stays in its type, the attempt counter within its bound.
THEOREM RouteTypeCorrect == Spec => []TypeOK
  BY RouteInvariant, PTL DEF RouteInv

\* No two of any number of runs ever hold the same HTTPS port.
THEOREM RouteOnePerPort == Spec => []OnePerPort
  BY RouteInvariant, PTL DEF RouteInv

\* A run with an open session has its route in the config.
THEOREM RouteSessionHolds == Spec => []SessionHoldsRoute
  BY RouteInvariant, PTL DEF RouteInv

\* A route is held by a stream: it goes when the stream does.
HeldByStream ==
    \A s \in Session :
        /\ pc[s] \in {"read", "post", "wait", "backoff", "session"} => conn[s] # "none"
        /\ wire[s] = "request" => conn[s] # "none"
        /\ fg[s] # NoPort => conn[s] \in {"open", "dropped"}

LEMMA NextHeldByStream == RouteInv /\ HeldByStream /\ [Next]_vars => HeldByStream'
<1> SUFFICES ASSUME RouteInv, HeldByStream, [Next]_vars PROVE HeldByStream'
  OBVIOUS
<1> USE DEF TypeOK, RouteInv, HeldByStream, daemon
<1>1. ASSUME NEW s \in Session, Run(s) PROVE HeldByStream'
  <2>1. ASSUME NEW p \in Port, ChoosePort(s, p) PROVE HeldByStream'
    BY <2>1 DEF ChoosePort
  <2>2. CASE Watch(s)
    BY <2>2 DEF Watch
  <2>3. CASE Abandon(s) \/ ReadConfig(s) \/ SendPost(s) \/ Retry(s)
    BY <2>3 DEF Abandon, ReadConfig, SendPost, Retry, Hangup
  <2>4. CASE PostFails(s)
    BY <2>4 DEF PostFails, Hangup
  <2>5. CASE Answer(s)
    BY <2>5 DEF Answer, AnswerOk, AnswerStale, AnswerError, EndExchange, Hangup
  <2>6. CASE Drain(s) \/ Stop(s) \/ Kill(s)
    BY <2>6 DEF Drain, Stop, Kill, Hangup
  <2> QED
    BY <1>1, <2>1, <2>2, <2>3, <2>4, <2>5, <2>6 DEF Run
<1>2. ASSUME NEW s \in Session, Daemon(s) PROVE HeldByStream'
  <2>1. CASE Apply(s)
    <3>1. wire[s] = "request" /\ wire' = [wire EXCEPT ![s] = "ok"] /\ UNCHANGED <<conn, pc>>
      BY <2>1 DEF Apply
    <3>2. fg' = fg \/ (conn[s] # "ended" /\ fg' = [fg EXCEPT ![s] = port[s]])
      BY <2>1, AppliedPost
    <3>3. conn[s] # "none"
      BY <3>1
    <3> QED
      BY <3>1, <3>2, <3>3
  <2>2. CASE RejectStale(s) \/ Refuse(s) \/ NoticeHangup(s)
    BY <2>2 DEF RejectStale, Refuse, NoticeHangup
  <2> QED
    BY <1>2, <2>1, <2>2 DEF Daemon
<1>3. CASE Restart \/ Reset \/ EditBackground \/ UNCHANGED vars
  BY <1>3 DEF Restart, Reset, EditBackground, EndAll, vars
<1> QED
  BY <1>1, <1>2, <1>3 DEF Next

\* Of the steps of anybody only Apply gives a run a port, and not without a stream.
LEMMA PortIsGivenByApply ==
  ASSUME RouteInv, [Next]_vars, NEW s \in Session, fg[s] = NoPort, fg'[s] # NoPort
  PROVE  Apply(s) /\ conn[s] # "ended"
<1> USE DEF TypeOK, RouteInv, daemon
<1>1. ASSUME NEW t \in Session, Run(t) PROVE FALSE
  BY <1>1 DEF Run, Answer, ChoosePort, Watch, Abandon, ReadConfig, SendPost, PostFails,
              AnswerOk, AnswerStale, AnswerError, EndExchange, Retry, Drain, Stop, Kill
<1>2. ASSUME NEW t \in Session, Apply(t) PROVE t = s /\ conn[s] # "ended"
  BY <1>2, AppliedPost
<1>3. ASSUME NEW t \in Session, RejectStale(t) \/ Refuse(t) \/ NoticeHangup(t) PROVE FALSE
  BY <1>3 DEF RejectStale, Refuse, NoticeHangup
<1>4. CASE Restart \/ Reset \/ EditBackground \/ UNCHANGED vars
  BY <1>4 DEF Restart, Reset, EditBackground, vars
<1> QED
  BY <1>1, <1>2, <1>3, <1>4 DEF Next, Daemon

\* However a run ends and whatever of it is still on its way, the port it had is
\* free for good once tailscaled has noticed: what is left of NoOrphanRoute is that
\* tailscaled notices.
THEOREM RouteEndedGetsNone == Spec => EndedRunGetsNoRoute
<1>1. Init => HeldByStream
  <2> SUFFICES ASSUME Init, NEW s \in Session
               PROVE  pc[s] = "start" /\ wire[s] = "none" /\ fg[s] = NoPort
    BY DEF HeldByStream
  <2> QED
    BY DEF Init
<1>2. ASSUME RouteInv, HeldByStream, [Next]_vars, NEW s \in Session,
             pc[s] \in Ended, conn[s] # "dropped"
      PROVE  fg[s] = NoPort /\ fg'[s] = NoPort
  <2>1. fg[s] = NoPort
    BY <1>2 DEF HeldByStream, RouteInv, AnswerIsTrue
  <2>2. wire[s] = "request" => conn[s] = "ended"
    BY <1>2 DEF HeldByStream, RouteInv, AnswerIsTrue, TypeOK
  <2>3. Apply(s) => wire[s] = "request"
    BY DEF Apply
  <2> QED
    BY <1>2, <2>1, <2>2, <2>3, PortIsGivenByApply
<1>3. RouteInv /\ HeldByStream /\ [Next]_vars =>
        [\A s \in Session :
           pc[s] \in Ended /\ conn[s] # "dropped" => fg[s] = NoPort /\ fg'[s] = NoPort]_vars
  BY <1>2
<1> QED
  BY <1>1, <1>3, NextHeldByStream, RouteInvariant, PTL DEF Spec, EndedRunGetsNoRoute

\* Each step of the protocol is a step of PortOwnership on the daemon's config.
LEMMA StepOwnership ==
  ASSUME RouteInv, [Next]_vars
  PROVE  [Ownership!Next]_(Ownership!vars)
<1> USE DEF Ownership!Next, Ownership!vars
<1>1. ASSUME NEW s \in Session, Run(s) PROVE UNCHANGED Ownership!vars
  BY <1>1 DEF Run, Answer, daemon, ChoosePort, Watch, Abandon, ReadConfig, SendPost, PostFails,
              AnswerOk, AnswerStale, AnswerError, EndExchange, Retry, Drain, Stop, Kill
<1>2. ASSUME NEW s \in Session, Apply(s) PROVE [Ownership!Next]_(Ownership!vars)
  <2>1. CASE conn[s] = "ended"
    BY <1>2, <2>1, AppliedPost DEF RouteInv
  <2>2. CASE conn[s] # "ended"
    <3>1. fg' = [fg EXCEPT ![s] = port[s]] /\ bg' = bg
      BY <1>2, <2>2, AppliedPost DEF RouteInv
    <3>2. ~uses_port(Config, port[s]) /\ port[s] \in Port /\ fg[s] = NoPort
      BY <1>2 DEF Apply, RouteInv, PostIsSafe
    <3>3. Ownership!Free(port[s])
      BY <3>2 DEF Ownership!Free, uses_port, Config
    <3>4. Ownership!Claim(s, port[s])
      BY <3>1, <3>2, <3>3 DEF Ownership!Claim
    <3> QED
      BY <3>2, <3>4
  <2> QED
    BY <2>1, <2>2
<1>3. ASSUME NEW s \in Session, NoticeHangup(s) PROVE Ownership!Release({s})
  BY <1>3 DEF NoticeHangup, Ownership!Release, RouteInv, TypeOK
<1>4. ASSUME NEW s \in Session, RejectStale(s) \/ Refuse(s) PROVE UNCHANGED Ownership!vars
  BY <1>4 DEF RejectStale, Refuse, daemon
<1>5. CASE Restart
  <2>1. Ownership!Release(Session)
    BY <1>5 DEF Restart, Ownership!Release
  <2> QED
    BY <2>1
<1>6. CASE Reset
  BY <1>6 DEF Reset, Ownership!Clear
<1>7. CASE EditBackground
  BY <1>7 DEF EditBackground, Ownership!EditBackground
<1>8. CASE UNCHANGED vars
  BY <1>8 DEF vars
<1> QED
  BY <1>1, <1>2, <1>3, <1>4, <1>5, <1>6, <1>7, <1>8 DEF Next, Daemon

\* Whatever runs and other clients do, runs only ever claim free ports and
\* remove their own routes: ServeRoute implements PortOwnership.
THEOREM RouteOwnership == Spec => Ownership_Spec
<1>1. Init => Ownership!Init
  BY DEF Init, Ownership!Init
<1> QED
  BY <1>1, RouteInvariant, StepOwnership, PTL DEF Spec, Ownership_Spec, Ownership!Spec
=============================================================================
