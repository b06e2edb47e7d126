---------------------------- MODULE CallOutcome ----------------------------
(***************************************************************************)
(* What the broker promises about the calls it holds for the app, whatever *)
(* the requests, wakeups and writes that carry an outcome do: a call is    *)
(* decided at most once, and what was decided is told at most once or is   *)
(* lost.  Lost is safe: the terminal's own dialog then has the call.       *)
(* Nothing decided is held again, and nothing told or lost comes back.     *)
(***************************************************************************)
CONSTANT Calls

VARIABLES
  state,  \* where each call is
  told    \* the calls whose human decision has gone out

States == {"new", "open", "ready", "sending", "over"}

Init == state = [n \in Calls |-> "new"] /\ told = {}

\* The moves of one call.  An open call is decided: its outcome waits, or
\* somebody already has it.  A waiting outcome is taken to be sent, or aged
\* out; one being sent gets there, is put back, or is dropped.
Moves ==
  {<<"new", "open">>,
   <<"open", "ready">>, <<"open", "over">>,
   <<"ready", "sending">>, <<"ready", "over">>,
   <<"sending", "ready">>, <<"sending", "over">>}

\* A call is told as it ends, and only by the request that took its outcome.
Next ==
  /\ \A n \in Calls :
       /\ state'[n] # state[n] => <<state[n], state'[n]>> \in Moves
       /\ n \in told' \ told => state[n] \in {"ready", "sending"} /\ state'[n] = "over"
  /\ DOMAIN state' = Calls
  /\ told \subseteq told' /\ told' \subseteq Calls

Spec == Init /\ [][Next]_<<state, told>>
=============================================================================
