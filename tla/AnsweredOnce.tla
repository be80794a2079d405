------------------------------ MODULE AnsweredOnce ------------------------------
(***************************************************************************)
(* What a policy server promises about a request id ("exactly-once          *)
(* semantics across client reconnect retries", the comment at               *)
(* _response_cache): it is executed, inside the model at most once, its one *)
(* answer is that execution's, and everybody is told that answer and only   *)
(* once there is one.  Of an id whose answer was dropped nothing is         *)
(* promised.                                                                *)
(***************************************************************************)
EXTENDS Naturals

CONSTANTS Id,
          Result    \* records; `run` is the run of the model it comes from, or 0

VARIABLE req        \* what is known of each request id

\* `answer` holds the answer once there is one, `told` what was sent of it.
Req(state, runs, answer, told) ==
  [state |-> state, runs |-> runs, answer |-> answer, told |-> told]

New     == Req("new", 0, {}, {})
Dropped == Req("dropped", 0, {}, {})

Init == req = [i \in Id |-> New]

Start(i) ==
  /\ req[i] = New
  /\ req'[i] = Req("running", 0, {}, {})

EnterModel(i) ==
  /\ req[i] = Req("running", 0, {}, {})
  /\ req'[i] = Req("running", 1, {}, {})

\* The answer comes from the run there was, or was found without the model.
End(i) ==
  /\ req[i].state = "running"
  /\ \E a \in req'[i].answer :
       /\ a \in Result /\ a.run = req[i].runs
       /\ req'[i] = Req("answered", req[i].runs, {a}, {})

Tell(i) ==
  /\ req[i].state = "answered"
  /\ req'[i] = [req[i] EXCEPT !.told = req[i].answer]

\* Keeping one answer may drop another.
Spares(i) == \A j \in Id \ {i} : req'[j] \in {req[j], Dropped}

Step(i) ==
  \/ Start(i) \/ EnterModel(i) \/ End(i) \/ Tell(i)
  \/ req'[i] \in {req[i], Dropped}

Next == \E i \in Id : Step(i) /\ Spares(i)

Spec == Init /\ [][Next]_req

=============================================================================
