------------------------------- MODULE AtMostOnce -------------------------------
(***************************************************************************)
(* What an evaluation may rely on when it calls the model over the          *)
(* websocket: one call at a time, which only returns a result if the model   *)
(* executed it, and which the model executes once, and again only after the  *)
(* server has forgotten the answer.  A call that failed may still be         *)
(* executed afterwards (the comment on the timeout in                       *)
(* PolicyEvalClient.request).                                               *)
(***************************************************************************)
EXTENDS Naturals

CONSTANT Call

VARIABLES runs,     \* how often the model executed each call
          outcome,  \* "unasked", "asked", "ok", "failed"
          forgotten \* the calls whose answer the server no longer has

Init == /\ runs = [k \in Call |-> 0]
        /\ outcome = [k \in Call |-> "unasked"]
        /\ forgotten = {}

Ask(k) ==
  /\ outcome[k] = "unasked" /\ \A j \in Call : outcome[j] # "asked"
  /\ outcome' = [outcome EXCEPT ![k] = "asked"]
  /\ UNCHANGED <<runs, forgotten>>

Run(k) ==
  /\ outcome[k] # "unasked" /\ (runs[k] = 0 \/ k \in forgotten)
  /\ runs' = [runs EXCEPT ![k] = @ + 1]
  /\ forgotten' = forgotten \ {k}
  /\ UNCHANGED outcome

Forget ==
  /\ forgotten' \in SUBSET {k \in Call : runs[k] > 0}
  /\ UNCHANGED <<runs, outcome>>

Return(k) ==
  /\ outcome[k] = "asked" /\ runs[k] > 0
  /\ outcome' = [outcome EXCEPT ![k] = "ok"]
  /\ UNCHANGED <<runs, forgotten>>

Fail(k) ==
  /\ outcome[k] \in {"unasked", "asked"}
  /\ outcome' = [outcome EXCEPT ![k] = "failed"]
  /\ UNCHANGED <<runs, forgotten>>

Next == Forget \/ \E k \in Call : Ask(k) \/ Run(k) \/ Return(k) \/ Fail(k)

Spec == Init /\ [][Next]_<<runs, outcome, forgotten>>

=============================================================================
