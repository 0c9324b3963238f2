----------------------------- MODULE AiMChannel -----------------------------
(***************************************************************************)
(* What the AiM DMA relies on in a channel controller: a blocking request   *)
(* that was accepted is called back once, in the order of acceptance, and   *)
(* one tick calls back at most one.  The id of a request is its place in    *)
(* the order of acceptance.                                                 *)
(***************************************************************************)
EXTENDS Naturals

VARIABLES
  awaiting,     \* the accepted blocking requests not yet called back
  calledback    \* the ones that were

channelVars == <<awaiting, calledback>>

Init == awaiting = {} /\ calledback = {}

(* IDRAMController::send of a blocking request succeeds.                    *)
Accept ==
  \E q \in awaiting' :
    /\ \A p \in awaiting \cup calledback : p.id < q.id
    /\ awaiting' = awaiting \cup {q}
    /\ calledback' = calledback

(* A tick calls back the oldest of the requests that wait.                  *)
CallBack ==
  \E q \in awaiting :
    /\ \A p \in awaiting : q.id <= p.id
    /\ awaiting' = awaiting \ {q}
    /\ calledback' = calledback \cup {q}

Next == Accept \/ CallBack

Spec == Init /\ [][Next]_channelVars
=============================================================================
