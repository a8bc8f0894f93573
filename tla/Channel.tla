------------------------------ MODULE Channel ------------------------------
(***************************************************************************)
(* What one direction of a relayed connection promises.  A source sends     *)
(* numbered pieces and may end; the sink is given them in order, without    *)
(* gaps or repeats; and the sink is told that the stream is over only once   *)
(* it has been given everything, unless the relay has an excuse.            *)
(***************************************************************************)
EXTENDS Naturals, Sequences

VARIABLES
    sent,       \* pieces the source has sent: 1, 2, ..., sent
    ended,      \* the source sends no more
    delivered,  \* what the sink was given
    closed,     \* the sink was told that nothing follows
    excuse      \* an input: the stream may be given up now

chanvars == <<sent, ended, delivered, closed>>

Init ==
    /\ sent = 0
    /\ ~ended
    /\ delivered = <<>>
    /\ ~closed

Send ==
    /\ ~ended
    /\ sent' = sent + 1
    /\ UNCHANGED <<ended, delivered, closed>>

End ==
    /\ ended' = TRUE
    /\ UNCHANGED <<sent, delivered, closed>>

\* The next n pieces, in one go.
Deliver ==
    /\ ~closed
    /\ \E n \in 1..(sent - Len(delivered)) :
          delivered' = delivered \o [i \in 1..n |-> Len(delivered) + i]
    /\ UNCHANGED <<sent, ended, closed>>

Close ==
    /\ excuse \/ (ended /\ Len(delivered) = sent)
    /\ closed' = TRUE
    /\ UNCHANGED <<sent, ended, delivered>>

Next == Send \/ End \/ Deliver \/ Close

Spec == Init /\ [][Next]_chanvars
=============================================================================
