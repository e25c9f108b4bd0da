------------------------------ MODULE ExecCall ------------------------------
(***************************************************************************)
(* What the exec and eval calls of the API promise, whichever side opens   *)
(* the connection to the node: a call is answered with what its command    *)
(* did or given up on, and its command is run at most once, by a node that *)
(* was asked.  A call given up on may still be run: nothing takes it back. *)
(***************************************************************************)
EXTENDS Naturals

CONSTANT Execs
VARIABLES
  call,  \* each call, as its caller sees it
  ran    \* how often each call's command has been run

Ask(e) ==
  /\ call[e] = "idle"
  /\ call' = [call EXCEPT ![e] = "open"]
  /\ UNCHANGED ran

Perform(e) ==
  /\ call[e] # "idle" /\ ran[e] = 0
  /\ ran' = [ran EXCEPT ![e] = 1]
  /\ \/ UNCHANGED call
     \/ call[e] = "open" /\ call' = [call EXCEPT ![e] = "answered"]

Answer(es) ==
  /\ \A e \in es : call[e] = "open" /\ ran[e] = 1
  /\ call' = [e \in Execs |-> IF e \in es THEN "answered" ELSE call[e]]
  /\ UNCHANGED ran

GiveUp(es) ==
  /\ \A e \in es : call[e] = "open"
  /\ call' = [e \in Execs |-> IF e \in es THEN "gone" ELSE call[e]]
  /\ UNCHANGED ran

Init == call = [e \in Execs |-> "idle"] /\ ran = [e \in Execs |-> 0]
Next == \/ \E e \in Execs : Ask(e) \/ Perform(e)
        \/ \E es \in SUBSET Execs : Answer(es) \/ GiveUp(es)
Spec == Init /\ [][Next]_<<call, ran>>
=============================================================================
