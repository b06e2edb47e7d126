---------------------------- MODULE ClientHandoff ----------------------------
(***************************************************************************)
(* The order in which the frames of one client socket are handled          *)
(* (broker/src/sessions/client-handoff-sequencer.ts and its use in         *)
(* runtime/runtime.ts): ordinary frames run side by side, prompts one      *)
(* after the other, and a handoff of the session to another owner alone.   *)
(* Frames that never come there are not frames here: receipts, history     *)
(* pages and refreshes, and what a role forbids, which are answered at     *)
(* once, beside whatever runs.                                             *)
(* A promise is named by the frame whose task it is; 0 is one that has     *)
(* been resolved from the start.                                           *)
(***************************************************************************)
EXTENDS Integers

CONSTANT MaxFrames    \* bound: the frames a socket receives

ASSUME HandoffAssumption == MaxFrames \in Nat

Frames == 1..MaxFrames
Promises == 0..MaxFrames
Kinds == {"prompt", "plain", "handoff"}

VARIABLES arrived,    \* how many frames have arrived
          kind,       \* what each is
          phase,      \* new, waiting, running, done, failed, or refused
          waitsFor,   \* the promises each task waits for
          handoffBarrier, sendChain

handoffVars == <<arrived, kind, phase, waitsFor, handoffBarrier, sendChain>>

\* ClientHandoffSequencer.active.
Active == {i \in Frames : phase[i] \in {"waiting", "running"}}

HandoffInit ==
    /\ arrived = 0
    /\ kind = [i \in Frames |-> "plain"]
    /\ phase = [i \in Frames |-> "new"]
    /\ waitsFor = [i \in Frames |-> {}]
    /\ handoffBarrier = 0 /\ sendChain = 0

-----------------------------------------------------------------------------
Accept(i, k, promises) ==
    /\ arrived' = i
    /\ kind' = [kind EXCEPT ![i] = k]
    /\ phase' = [phase EXCEPT ![i] = "waiting"]
    /\ waitsFor' = [waitsFor EXCEPT ![i] = promises]

\* Any other frame that comes to the sequencer waits for the last handoff only.
AcceptPlain(i) ==
    /\ i = arrived + 1
    /\ Accept(i, "plain", {handoffBarrier})
    /\ UNCHANGED <<handoffBarrier, sendChain>>

\* Mutant: a prompt that does not wait for the prompts before it.
AcceptPromptUnchained(i) ==
    /\ i = arrived + 1
    /\ Accept(i, "prompt", {handoffBarrier})
    /\ sendChain' = i
    /\ UNCHANGED handoffBarrier

\* prompt, plan-action, artifact-interaction and set-agent.
AcceptPrompt(i) ==
    /\ i = arrived + 1
    /\ Accept(i, "prompt", {handoffBarrier, sendChain})
    /\ sendChain' = i
    /\ UNCHANGED handoffBarrier

\* Mutant: a handoff that finds work waits for its turn among the prompts.
AcceptHandoffAsPrompt(i) ==
    /\ i = arrived + 1
    /\ Accept(i, "handoff", {handoffBarrier, sendChain})
    /\ handoffBarrier' = i
    /\ UNCHANGED sendChain

\* A handoff waits for everything that was accepted before it.
AcceptHandoff(i) ==
    /\ i = arrived + 1 /\ Active = {}
    /\ Accept(i, "handoff", Active)
    /\ handoffBarrier' = i
    /\ UNCHANGED sendChain

\* A handoff that finds work under way is answered with a conflict, outside
\* the sequencer.
RefuseHandoff(i) ==
    /\ i = arrived + 1 /\ Active # {}
    /\ arrived' = i
    /\ kind' = [kind EXCEPT ![i] = "handoff"]
    /\ phase' = [phase EXCEPT ![i] = "refused"]
    /\ UNCHANGED <<waitsFor, handoffBarrier, sendChain>>

-----------------------------------------------------------------------------
\* Mutant: a task that failed never settles what waits for it.
SettledWell == {0} \cup {j \in Frames : phase[j] = "done"}
\* Both outcomes settle sendChain, handoffBarrier and allSettled.
Settled == {0} \cup {j \in Frames : phase[j] \in {"done", "failed"}}

Start(i) ==
    /\ phase[i] = "waiting" /\ waitsFor[i] \subseteq Settled
    /\ phase' = [phase EXCEPT ![i] = "running"]
    /\ UNCHANGED <<arrived, kind, waitsFor, handoffBarrier, sendChain>>

\* handleClientMessage ends.
Finish(i) ==
    /\ phase[i] = "running"
    /\ \E outcome \in {"done", "failed"} : phase' = [phase EXCEPT ![i] = outcome]
    /\ UNCHANGED <<arrived, kind, waitsFor, handoffBarrier, sendChain>>

HandoffNext ==
    \E i \in Frames :
        \/ AcceptPlain(i) \/ AcceptPrompt(i) \/ AcceptHandoff(i) \/ RefuseHandoff(i)
        \/ Start(i) \/ Finish(i)

HandoffSpec == HandoffInit /\ [][HandoffNext]_handoffVars

\* Settled promises run what waits for them, and handlers end.
GoesOn(i) == Start(i) \/ Finish(i)
HandoffFairness == WF_handoffVars(\E i \in Frames : GoesOn(i))

-----------------------------------------------------------------------------
Running(i) == phase[i] = "running"

\* "Make ownership handoff an exclusive boundary" (client-handoff-sequencer.ts:
\* 1-5): while a handoff runs no other frame does that comes to the sequencer.
HandoffRunsAlone ==
    \A i, j \in Frames : Running(i) /\ Running(j) /\ kind[i] = "handoff" => i = j

\* Prompts and switches of the agent run one at a time, in the order in which
\* they were sent, and none passes a handoff that was accepted before it.
PromptsInOrder ==
    \A i, j \in Frames :
        i < j /\ kind[i] # "plain" /\ kind[j] = "prompt" /\ i \in Active => ~Running(j)

\* No set of frames waits for each other: no frame accepted stays under way for
\* ever.
EveryFrameHandled == \A i \in Frames : []<>(i \notin Active)
=============================================================================
