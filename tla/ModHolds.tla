------------------------------ MODULE ModHolds ------------------------------
(***************************************************************************)
(* The broker's half of Claude "true sync", for one session: the           *)
(* registration row (mod-registry.ts), the store of held calls             *)
(* (mod-holds.ts), the request handlers and long-polls that drive both     *)
(* (mod-socket-server.ts), and the service's sweep and answer entry points *)
(* (claude-mod-service.ts).  Everything in these files is keyed by session *)
(* and no handler touches two sessions, so one session stands for all.     *)
(*                                                                         *)
(* The terminals are the environment: an evaluation of the mod that the    *)
(* broker has accepted may send any request at any time.                   *)
(*                                                                         *)
(* The broker is one JavaScript thread.  A handler runs to completion, and *)
(* every wait it wakes runs on as a microtask before the next I/O event or *)
(* timer.  So each action below that starts from an event has the guard    *)
(* Quiet (nobody woken is still to run), and the woken waits go on through *)
(* ResumeHold and ResumePoll, in any order.                                *)
(***************************************************************************)
EXTENDS Integers

CONSTANTS
  Evals,        \* evaluations of the terminal mod: one per module load
  Pids,         \* kernel processes, told apart by pid and start time
  PidOf,        \* the process an evaluation runs in
  Born,         \* when it was evaluated: the age in its instance tag
  Ids,          \* the mod's request ids, cm-1, cm-2, ... of each evaluation
  IsQuestion,   \* which of an evaluation's calls are AskUserQuestion
  Gates,        \* the gate inputs that can be read when a hold arrives
  Conns,        \* connections the broker has accepted and not finished
  NoEval,       \* no registration
  MaxGen,       \* bound: registrations of the session
  MaxHolds      \* bound: holds opened for the session

Gens    == 0..MaxGen
Keys    == Gens \X Ids
Serials == 1..MaxHolds
NoId    == 0

\* What a hold can end in, as verdictResponse says it: a person's verdict or
\* answers, or a release, which is how a release by the gate, an expiry and
\* every cancel reach the terminal alike.  An outcome names the hold it ended.
Human    == {"verdict", "answer"}
Outcomes == [kind : Human \cup {"release"}, no : 0..MaxHolds]
NoOut    == [kind |-> "none", no |-> 0]

ASSUME ConstantsAssumption ==
  /\ PidOf \in [Evals -> Pids]
  /\ Born \in [Evals -> Nat]
  /\ Ids \subseteq Nat \ {NoId}
  /\ IsQuestion \in [Evals -> [Ids -> BOOLEAN]]
  /\ Gates \subseteq [mode : {"holdable", "auto", "dontAsk", "unknown"},
                      viewers : Nat, killSwitch : BOOLEAN, terminalOnly : BOOLEAN]
  /\ NoEval \notin Evals
  /\ MaxGen \in Nat
  /\ MaxHolds \in Nat

VARIABLES
  alive,      \* per process: does the kernel still run it
  row,        \* the evaluation of the session's registration, or NoEval
  fresh,      \* has the row polled within STALE_AFTER_MS
  gen,        \* the session's generation counter
  openIds,    \* registry.openHolds: request ids with an open hold
  hold,       \* holds: the serial number of the open hold under a key, or 0
  lapsed,     \* open holds whose lease has run out
  tomb,       \* resolved: the one-shot outcome waiting under a key, or NoOut
  handedOver, \* delivered: keys whose outcome was handed over
  cardOf,     \* the id of the card drawn for each hold
  toolCards,  \* drawnCardIds: the tool_use ids already used as a card
  legs,       \* per connection: the request on it
  opened,     \* how many holds were opened
  opener,     \* history: the evaluation each hold was opened by
  decision,   \* history: how each hold ended, and whose card was tapped
  handed      \* history: who a decision's reply was written to, in full

registryVars == <<row, fresh, gen, openIds>>
storeVars    == <<hold, lapsed, tomb, handedOver>>
cardVars     == <<cardOf, toolCards, opened, opener>>
vars == <<registryVars, storeVars, cardVars, alive, legs, decision, handed>>

Undecided == [kind |-> "none", seen |-> 0]
NoCard    == [minted |-> FALSE, n |-> 0]
Cards     == [minted : BOOLEAN, n : Nat]

Free == [st |-> "free", kind |-> "none", ev |-> NoEval, gen |-> 0, id |-> NoId,
         open |-> FALSE, woken |-> FALSE, out |-> NoOut]

LegRecords ==
  [st    : {"free", "parked", "writing"},
   kind  : {"none", "poll", "hold"},
   ev    : Evals \cup {NoEval},
   gen   : Gens,
   id    : Ids \cup {NoId},
   open  : BOOLEAN,
   woken : BOOLEAN,
   out   : Outcomes \cup {NoOut}]

Init ==
  /\ alive = [p \in Pids |-> TRUE]
  /\ row = NoEval
  /\ fresh = FALSE
  /\ gen = 0
  /\ openIds = {}
  /\ hold = [k \in Keys |-> 0]
  /\ lapsed = {}
  /\ tomb = [k \in Keys |-> NoOut]
  /\ handedOver = {}
  /\ cardOf = [n \in Serials |-> NoCard]
  /\ toolCards = {}
  /\ legs = [c \in Conns |-> Free]
  /\ opened = 0
  /\ opener = [n \in Serials |-> NoEval]
  /\ decision = [n \in Serials |-> Undecided]
  /\ handed = [n \in Serials |-> NoEval]

-----------------------------------------------------------------------------
(* What the code reads.                                                    *)

Quiet == \A c \in Conns : ~legs[c].woken

\* modInstanceIsOlder, between two evaluations of one process
Older(a, b) == PidOf[a] = PidOf[b] /\ Born[a] < Born[b]

\* The checks every route but register makes: a row, held by this very
\* process, and not by a newer evaluation in it.
Speaks(ev) ==
  /\ alive[PidOf[ev]]
  /\ row # NoEval
  /\ PidOf[row] = PidOf[ev]
  /\ ~Older(ev, row)

\* The row's process runs and polls: claimState's "claimed" to any other
\* process, and what status reports as carried.
Carried == row # NoEval /\ fresh /\ alive[PidOf[row]]

\* claimIsLive, for a request parked or being answered on c.  A row is
\* replaced exactly when the generation moves.
ClaimLive(c) == legs[c].open /\ row # NoEval /\ legs[c].gen = gen

Now(i) == <<gen, i>>

OpenKeys == {k \in Keys : hold[k] # 0}

\* renewFromAskers finds somebody: a hold leg still parked on this hold that
\* can still carry an answer.
LiveAsker(k) ==
  \E c \in Conns : /\ legs[c].st = "parked"
                   /\ legs[c].kind = "hold"
                   /\ <<legs[c].gen, legs[c].id>> = k
                   /\ ClaimLive(c)

\* decideModHold, and the two refusals accept adds after it
GateHolds(g, question) ==
  /\ ~g.killSwitch
  /\ IF question THEN g.mode # "dontAsk"
                 ELSE g.mode = "holdable" /\ g.viewers > 0
  /\ ~g.terminalOnly

\* pollableRequest: the first open hold, else any outcome still waiting under
\* the generation that is the session's now.
Pollable ==
  IF openIds # {}
  THEN {i \in openIds : \A j \in openIds : hold[Now(i)] <= hold[Now(j)]}
  ELSE {i \in Ids : tomb[Now(i)] # NoOut}

-----------------------------------------------------------------------------
(* What the code does to the store, as the values of the variables after.  *)

\* Mutant: a wake that reaches only the polls parked on a hold.
WakeBusyPollsOnly(L) ==
  [c \in Conns |->
     [L[c] EXCEPT !.woken = @ \/ (L[c].st = "parked" /\ L[c].kind = "poll" /\ L[c].id # NoId)]]

\* ModHoldStore.wake reaches the waits parked on a hold; wakePolls reaches
\* every parked poll, idle or on a hold.
WakeHolds(L) ==
  [c \in Conns |-> [L[c] EXCEPT !.woken = @ \/ (L[c].st = "parked" /\ L[c].id # NoId)]]
WakePolls(L) ==
  [c \in Conns |-> [L[c] EXCEPT !.woken = @ \/ (L[c].st = "parked" /\ L[c].kind = "poll")]]

\* The request on c is answered, with no outcome, or with one nobody can
\* take any more: the connection is finished with.
Finish(c) == legs' = [legs EXCEPT ![c] = Free]

\* A request that waits on its connection, or whose outcome is being written.
\* A poll takes its first look as soon as it is parked.
Waits(kind, ev, i) ==
  [st |-> "parked", kind |-> kind, ev |-> ev, gen |-> gen, id |-> i,
   open |-> TRUE, woken |-> kind = "poll", out |-> NoOut]
Sends(kind, ev, i, out) ==
  [st |-> "writing", kind |-> kind, ev |-> ev, gen |-> gen, id |-> i,
   open |-> TRUE, woken |-> FALSE, out |-> out]

\* The bytes of an outcome have left: evaluation ev has it.
Hand(out, ev) ==
  handed' = IF out.kind \in Human THEN [handed EXCEPT ![out.no] = ev] ELSE handed

\* stop: the one exit path of a hold, for each key of K.  seen is the hold
\* whose card was tapped, or 0.
StopAll(K, kind, seen) ==
  /\ hold' = [k \in Keys |-> IF k \in K THEN 0 ELSE hold[k]]
  /\ tomb' = [k \in Keys |-> IF k \in K THEN [kind |-> kind, no |-> hold[k]] ELSE tomb[k]]
  /\ lapsed' = lapsed \ {hold[k] : k \in K}
  /\ decision' = [n \in Serials |->
                    IF n \in {hold[k] : k \in K} THEN [kind |-> kind, seen |-> seen]
                                                 ELSE decision[n]]

\* Mutant: the outcome is handed over and its tombstone kept.
HandOverAndKeep(c, kind, ev, i) ==
  LET k   == Now(i)
      out == tomb[k]
  IN  /\ handedOver' = handedOver \cup {k}
      /\ \/ Finish(c) /\ Hand(out, ev)
         \/ legs' = [legs EXCEPT ![c] = Sends(kind, ev, i, out)] /\ UNCHANGED handed
      /\ UNCHANGED tomb

\* takeResolved, or accept finding the call settled, on connection c of
\* evaluation ev asking for i: the outcome is consumed and goes out.  The
\* write is done at once, or is still to be (writeAll, then its caller).
HandOver(c, kind, ev, i) ==
  LET k   == Now(i)
      out == tomb[k]
  IN  /\ tomb' = [tomb EXCEPT ![k] = NoOut]
      /\ handedOver' = handedOver \cup {k}
      /\ \/ Finish(c) /\ Hand(out, ev)
         \/ legs' = [legs EXCEPT ![c] = Sends(kind, ev, i, out)] /\ UNCHANGED handed

-----------------------------------------------------------------------------
(* Registration.                                                           *)

\* cancelSessionHolds, noteTurnEvent and sweep name the holds to close by
\* request id and close each under the generation that is current.
OpenNow == {k \in OpenKeys : k[1] = gen}
IdsOf(K) == {k[2] : k \in K}

\* The register route, accepted: nobody else holds the session, or the claim
\* of the one who does has lapsed.  A newer evaluation in the row's own
\* process, and a live claim of another process, refuse it instead.
Register(ev) ==
  /\ Quiet
  /\ gen < MaxGen
  /\ alive[PidOf[ev]]
  /\ row # NoEval => ~Older(ev, row)
  /\ Carried => PidOf[row] = PidOf[ev]
  /\ IF row # NoEval
     THEN /\ StopAll(OpenNow, "release", 0)
          /\ openIds' = IF PidOf[row] = PidOf[ev] THEN openIds \ IdsOf(OpenNow) ELSE {}
     ELSE UNCHANGED <<hold, tomb, lapsed, decision, openIds>>
  /\ row' = ev
  /\ gen' = gen + 1
  /\ fresh' = TRUE
  /\ legs' = WakeHolds(WakePolls(legs))
  /\ UNCHANGED <<alive, handedOver, cardVars, handed>>

-----------------------------------------------------------------------------
(* The hold route: accept.                                                 *)

\* The same call offered again while it is held: the lease is renewed and
\* this request waits for the verdict.
HoldAgain(c, ev, i) ==
  /\ Quiet /\ Speaks(ev) /\ legs[c] = Free
  /\ hold[Now(i)] # 0
  /\ lapsed' = lapsed \ {hold[Now(i)]}
  /\ legs' = [legs EXCEPT ![c] = Waits("hold", ev, i)]
  /\ UNCHANGED <<registryVars, hold, tomb, handedOver, cardVars, alive, decision, handed>>

\* Settled already, and not yet carried: this reply carries it.
HoldSettled(c, ev, i) ==
  /\ Quiet /\ Speaks(ev) /\ legs[c] = Free
  /\ hold[Now(i)] = 0
  /\ tomb[Now(i)] # NoOut
  /\ HandOver(c, "hold", ev, i)
  /\ UNCHANGED <<registryVars, hold, lapsed, cardVars, alive, decision>>

\* A call whose outcome has gone out on the other leg is answered
\* settled-elsewhere, which changes nothing; any other call is new.
FirstOffer(i) == /\ hold[Now(i)] = 0
                 /\ tomb[Now(i)] = NoOut
                 /\ Now(i) \notin handedOver

\* The gate lets the call go.  The release is both written to this request
\* and left as a tombstone; a question's release may draw a read-only card.
HoldReleased(c, ev, i) ==
  /\ Quiet /\ Speaks(ev) /\ legs[c] = Free
  /\ FirstOffer(i)
  /\ \E g \in Gates : ~GateHolds(g, IsQuestion[ev][i])
  /\ tomb' = [tomb EXCEPT ![Now(i)] = [kind |-> "release", no |-> 0]]
  /\ \/ IsQuestion[ev][i] /\ toolCards' = toolCards \cup {i}
     \/ UNCHANGED toolCards
  /\ UNCHANGED <<registryVars, hold, lapsed, handedOver, cardOf, opened, opener,
                 alive, legs, decision, handed>>

\* Mutants: a question's card is always Claude's id for it; every card is the
\* mod's request id.
CardAlwaysTool(ev, i, n) == [minted |-> ~IsQuestion[ev][i],
                             n |-> IF IsQuestion[ev][i] THEN i ELSE n]
CardOfRequest(ev, i, n)  == [minted |-> FALSE, n |-> i]

\* cardIdFor: a question is drawn under Claude's own tool_use id, here the id
\* of the call, unless that id was drawn before; every other card is minted.
CardFor(ev, i, n) ==
  IF IsQuestion[ev][i] /\ i \notin toolCards
  THEN [minted |-> FALSE, n |-> i]
  ELSE [minted |-> TRUE, n |-> n]

\* The call is held, its card drawn, and the request answered held at once.
HoldOpened(c, ev, i) ==
  LET n == opened + 1
  IN  /\ Quiet /\ Speaks(ev) /\ legs[c] = Free
      /\ opened < MaxHolds
      /\ FirstOffer(i)
      /\ \E g \in Gates : GateHolds(g, IsQuestion[ev][i])
      /\ opened' = n
      /\ hold' = [hold EXCEPT ![Now(i)] = n]
      /\ openIds' = openIds \cup {i}
      /\ cardOf' = [cardOf EXCEPT ![n] = CardFor(ev, i, n)]
      /\ toolCards' = IF IsQuestion[ev][i] THEN toolCards \cup {i} ELSE toolCards
      /\ opener' = [opener EXCEPT ![n] = ev]
      /\ UNCHANGED <<row, fresh, gen, lapsed, tomb, handedOver, alive, legs, decision, handed>>

-----------------------------------------------------------------------------
(* Answers.                                                                *)

\* Mutant: a card is good until its hold is closed, lease or no lease.
HeldPastLease(card) == {k \in OpenNow : cardOf[hold[k]] = card}

\* byCard: the open hold a card stands for, only while its lease runs and
\* the registration that opened it is the session's.
Held(card) == {k \in OpenNow : cardOf[hold[k]] = card /\ hold[k] \notin lapsed}

\* A tap on the card of hold m, however old the card is (service.approve).  A
\* question may be rejected, which is the same deny.
AppDecides(m) ==
  /\ Quiet
  /\ m \in 1..opened
  /\ \E k \in Held(cardOf[m]) :
       /\ StopAll({k}, "verdict", m)
       /\ openIds' = openIds \ {k[2]}
  /\ legs' = WakePolls(WakeHolds(legs))
  /\ UNCHANGED <<row, fresh, gen, handedOver, cardVars, alive, handed>>

\* The app's answer to a question (service.answerQuestion): it goes to the
\* store without passing the socket server, so no idle poll is woken.
AppAnswers(m) ==
  /\ Quiet
  /\ m \in 1..opened
  /\ \E k \in Held(cardOf[m]) :
       /\ IsQuestion[opener[hold[k]]][k[2]]
       /\ StopAll({k}, "answer", m)
       /\ openIds' = openIds \ {k[2]}
  /\ legs' = WakeHolds(legs)
  /\ UNCHANGED <<row, fresh, gen, handedOver, cardVars, alive, handed>>

\* Mutant: the band answers whatever is still in the store.
BandAnswersLate(ev, i) ==
  /\ Quiet /\ Speaks(ev)
  /\ hold[Now(i)] # 0
  /\ StopAll({Now(i)}, "verdict", 0)
  /\ openIds' = openIds \ {i}
  /\ legs' = WakePolls(WakeHolds(legs))
  /\ UNCHANGED <<row, fresh, gen, handedOver, cardVars, alive, handed>>

\* The terminal's own band, over the event route.  A lapsed hold is closed
\* as the lease would close it, and the answer refused.
BandAnswers(ev, i) ==
  /\ Quiet /\ Speaks(ev)
  /\ hold[Now(i)] # 0
  /\ StopAll({Now(i)}, IF hold[Now(i)] \in lapsed THEN "release" ELSE "verdict", 0)
  /\ openIds' = openIds \ {i}
  /\ legs' = WakePolls(WakeHolds(legs))
  /\ UNCHANGED <<row, fresh, gen, handedOver, cardVars, alive, handed>>

-----------------------------------------------------------------------------
(* Events and the sweep.                                                   *)

\* turn.complete: every open hold of the session dies with its turn.
TurnCompletes(ev) ==
  /\ Quiet /\ Speaks(ev)
  /\ StopAll({k \in OpenNow : k[2] \in openIds}, "release", 0)
  /\ openIds' = {}
  /\ legs' = WakeHolds(WakePolls(legs))
  /\ UNCHANGED <<row, fresh, gen, handedOver, cardVars, alive, handed>>

\* Mutant: user-cancel drops every open hold of the registry and closes one.
UserCancelDropsAll(ev, i) ==
  /\ Quiet /\ Speaks(ev)
  /\ StopAll({k \in OpenNow : k[2] = i /\ i \in openIds}, "release", 0)
  /\ openIds' = {}
  /\ legs' = WakeHolds(WakePolls(legs))
  /\ UNCHANGED <<row, fresh, gen, handedOver, cardVars, alive, handed>>

\* user-cancel: the one call the person escaped.
UserCancels(ev, i) ==
  /\ Quiet /\ Speaks(ev)
  /\ StopAll({k \in OpenNow : k[2] = i /\ i \in openIds}, "release", 0)
  /\ openIds' = openIds \ {i}
  /\ legs' = WakeHolds(WakePolls(legs))
  /\ UNCHANGED <<row, fresh, gen, handedOver, cardVars, alive, handed>>

\* session.end: the row goes, and then what it had open.
SessionEnds(ev) ==
  /\ Quiet /\ Speaks(ev)
  /\ StopAll({k \in OpenNow : k[2] \in openIds}, "release", 0)
  /\ openIds' = {}
  /\ row' = NoEval
  /\ fresh' = FALSE
  /\ legs' = WakeHolds(WakePolls(legs))
  /\ UNCHANGED <<gen, handedOver, cardVars, alive, handed>>

\* question.settled: Claude's own picker ended the question, with answers or
\* without.  The outcome is the terminal's own, so it counts as handed over
\* at once, even when the offer it settles has not arrived yet.
QuestionSettles(ev, i, kind) ==
  /\ Quiet /\ Speaks(ev)
  /\ IsQuestion[ev][i]
  /\ kind \in {"answer", "release"}
  /\ LET n == hold[Now(i)]
     IN  IF n # 0
         THEN /\ hold' = [hold EXCEPT ![Now(i)] = 0]
              /\ lapsed' = lapsed \ {n}
              /\ decision' = [decision EXCEPT ![n] = [kind |-> kind, seen |-> 0]]
              /\ openIds' = openIds \ {i}
              /\ tomb' = [tomb EXCEPT ![Now(i)] = NoOut]
              /\ handedOver' = handedOver \cup {Now(i)}
         ELSE /\ handedOver' = IF tomb[Now(i)] = NoOut THEN handedOver \cup {Now(i)}
                                                        ELSE handedOver
              /\ UNCHANGED <<hold, lapsed, decision, openIds, tomb>>
  /\ legs' = WakeHolds(WakePolls(legs))
  /\ UNCHANGED <<row, fresh, gen, cardVars, alive, handed>>

\* Mutant: only a session that is still carried has its lapsed holds closed.
SweptIfCarried(i) == \E k \in OpenKeys : k[2] = i /\ Carried /\ hold[k] \in lapsed

\* status, from the service's own timer or from any reader of the row: close
\* the holds this session can no longer carry, and those whose lease ran
\* out; then drop the row of a dead process.
Swept(i) == \E k \in OpenKeys : k[2] = i /\ (Carried => hold[k] \in lapsed)
SweepKeys == {k \in OpenNow : Swept(k[2])}
RowIsDead == row # NoEval /\ ~alive[PidOf[row]]

Sweep ==
  /\ Quiet
  /\ SweepKeys # {} \/ RowIsDead
  /\ StopAll(SweepKeys, "release", 0)
  /\ IF RowIsDead
     THEN row' = NoEval /\ fresh' = FALSE /\ openIds' = {}
     ELSE openIds' = openIds \ IdsOf(SweepKeys) /\ UNCHANGED <<row, fresh>>
  /\ legs' = IF SweepKeys = {} THEN legs ELSE WakeHolds(legs)
  /\ UNCHANGED <<gen, handedOver, cardVars, alive, handed>>

\* trimTombstones: RESOLVED_TOMBSTONE_MS after it was written, a tombstone
\* or a hand-over record goes.  A response in flight is younger than that:
\* its write is given up after WRITE_DEADLINE_MS.
TombstoneTrimmed(k) ==
  /\ Quiet
  /\ \A c \in Conns : legs[c].st = "writing" => <<legs[c].gen, legs[c].id>> # k
  /\ \/ tomb[k] # NoOut /\ tomb' = [tomb EXCEPT ![k] = NoOut] /\ UNCHANGED handedOver
     \/ k \in handedOver /\ handedOver' = handedOver \ {k} /\ UNCHANGED tomb
  /\ UNCHANGED <<registryVars, hold, lapsed, cardVars, alive, legs, decision, handed>>

-----------------------------------------------------------------------------
(* Time and the outside world.                                             *)

\* HOLD_LEASE_MS since the last renewal, with no hold leg left to renew it.
\* A poll parked on the hold has its timer set for this moment.
LeaseRunsOut(k) ==
  /\ Quiet
  /\ hold[k] # 0
  /\ hold[k] \notin lapsed
  /\ ~LiveAsker(k)
  /\ lapsed' = lapsed \cup {hold[k]}
  /\ legs' = [c \in Conns |->
                [legs[c] EXCEPT !.woken = @ \/ (/\ legs[c].st = "parked"
                                                /\ legs[c].kind = "poll"
                                                /\ <<gen, legs[c].id>> = k)]]
  /\ UNCHANGED <<registryVars, hold, tomb, handedOver, cardVars, alive, decision, handed>>

\* STALE_AFTER_MS since the last poll, which is three times as long as one parks.
GoesStale ==
  /\ Quiet
  /\ row # NoEval /\ fresh
  /\ \A c \in Conns : ~(legs[c].st = "parked" /\ legs[c].kind = "poll" /\ legs[c].gen = gen)
  /\ fresh' = FALSE
  /\ UNCHANGED <<row, gen, openIds, storeVars, cardVars, alive, legs, decision, handed>>

PidDies(p) ==
  /\ Quiet
  /\ alive[p]
  /\ alive' = [alive EXCEPT ![p] = FALSE]
  /\ UNCHANGED <<registryVars, storeVars, cardVars, legs, decision, handed>>

\* markClosed: a wait on a hold over this connection is woken by its signal;
\* an idle poll is not, and ends with its timer.
ConnCloses(c) ==
  /\ Quiet
  /\ legs[c].open
  /\ legs' = [legs EXCEPT ![c].open = FALSE,
                          ![c].woken = legs[c].st = "parked" /\ legs[c].id # NoId]
  /\ UNCHANGED <<registryVars, storeVars, cardVars, alive, decision, handed>>

-----------------------------------------------------------------------------
(* The waits.                                                              *)

\* The poll route: the heartbeat, then pollResponse's first look.
Poll(c, ev) ==
  /\ Quiet /\ Speaks(ev) /\ legs[c] = Free
  /\ fresh' = TRUE
  /\ legs' = [legs EXCEPT ![c] = Waits("poll", ev, NoId)]
  /\ UNCHANGED <<row, gen, openIds, storeVars, cardVars, alive, decision, handed>>

\* The timer of a wait (its wait, or for a poll a command that is ready).
WaitEnds(c) ==
  /\ Quiet
  /\ legs[c].st = "parked"
  /\ Finish(c)
  /\ UNCHANGED <<registryVars, storeVars, cardVars, alive, decision, handed>>

\* pollVerdict on the hold leg, woken.
ResumeHold(c) ==
  /\ legs[c].woken /\ legs[c].kind = "hold"
  /\ LET i == legs[c].id
     IN  \/ /\ ClaimLive(c) /\ hold[Now(i)] # 0
            /\ legs' = [legs EXCEPT ![c].woken = FALSE]
            /\ UNCHANGED <<tomb, handedOver, handed>>
         \/ /\ ClaimLive(c) /\ hold[Now(i)] = 0 /\ tomb[Now(i)] # NoOut
            /\ HandOver(c, "hold", legs[c].ev, i)
         \/ /\ ClaimLive(c) => hold[Now(i)] = 0 /\ tomb[Now(i)] = NoOut
            /\ Finish(c)
            /\ UNCHANGED <<tomb, handedOver, handed>>
  /\ UNCHANGED <<registryVars, hold, lapsed, cardVars, alive, decision>>

\* What a woken poll looks at: the call it was parked on once that is over,
\* else whatever is pollable now.
PollTargets(c) ==
  IF legs[c].id # NoId /\ hold[Now(legs[c].id)] = 0 THEN {legs[c].id} ELSE Pollable

PollParks(c, i) ==
  /\ legs' = [legs EXCEPT ![c].woken = FALSE, ![c].id = i]
  /\ UNCHANGED <<registryVars, storeVars, decision, handed>>

\* pollResponse, woken: it carries an outcome, closes a lapsed hold it finds,
\* parks on an open one, or parks idle.
ResumePoll(c) ==
  /\ legs[c].woken /\ legs[c].kind = "poll"
  /\ \/ /\ ~ClaimLive(c)
        /\ Finish(c)
        /\ UNCHANGED <<registryVars, storeVars, decision, handed>>
     \/ /\ ClaimLive(c) /\ PollTargets(c) = {}
        /\ PollParks(c, NoId)
     \/ /\ ClaimLive(c)
        /\ \E i \in PollTargets(c) :
             \/ /\ hold[Now(i)] # 0 /\ hold[Now(i)] \notin lapsed
                /\ PollParks(c, i)
             \/ /\ hold[Now(i)] # 0 /\ hold[Now(i)] \in lapsed
                /\ StopAll({Now(i)}, "release", 0)
                /\ openIds' = openIds \ {i}
                /\ legs' = WakeHolds([legs EXCEPT ![c] = Free])
                /\ UNCHANGED <<row, fresh, gen, handedOver, handed>>
             \/ /\ hold[Now(i)] = 0 /\ tomb[Now(i)] # NoOut
                /\ HandOver(c, "poll", legs[c].ev, i)
                /\ UNCHANGED <<registryVars, hold, lapsed, decision>>
             \/ /\ hold[Now(i)] = 0 /\ tomb[Now(i)] = NoOut
                /\ Finish(c)
                /\ UNCHANGED <<registryVars, storeVars, decision, handed>>
  /\ UNCHANGED <<cardVars, alive>>

\* A response under backpressure leaves in full after all.
WriteCompletes(c) ==
  /\ Quiet
  /\ legs[c].st = "writing" /\ legs[c].open
  /\ Finish(c) /\ Hand(legs[c].out, legs[c].ev)
  /\ UNCHANGED <<registryVars, storeVars, cardVars, alive, decision>>

\* It does not: the peer hung up, refused, or stopped reading.  putBack files
\* the outcome again under the generation that is current by then.
WriteFails(c) ==
  LET k == Now(legs[c].id)
  IN  /\ Quiet
      /\ legs[c].st = "writing"
      /\ IF k \in handedOver /\ tomb[k] = NoOut /\ hold[k] = 0
         THEN /\ handedOver' = handedOver \ {k}
              /\ tomb' = [tomb EXCEPT ![k] = legs[c].out]
              /\ legs' = WakePolls(WakeHolds([legs EXCEPT ![c] = Free]))
         ELSE /\ Finish(c)
              /\ UNCHANGED <<tomb, handedOver>>
      /\ UNCHANGED <<registryVars, hold, lapsed, cardVars, alive, decision, handed>>

-----------------------------------------------------------------------------

\* What the terminals send.
Requests(ev) ==
  \/ Register(ev)
  \/ TurnCompletes(ev)
  \/ SessionEnds(ev)
  \/ \E i \in Ids : \/ UserCancels(ev, i)
                    \/ BandAnswers(ev, i)
                    \/ \E kind \in {"answer", "release"} : QuestionSettles(ev, i, kind)
  \/ \E c \in Conns : \/ Poll(c, ev)
                      \/ \E i \in Ids : \/ HoldAgain(c, ev, i)
                                        \/ HoldSettled(c, ev, i)
                                        \/ HoldReleased(c, ev, i)
                                        \/ HoldOpened(c, ev, i)

\* What the people in the app do.
Taps == \E m \in Serials : AppDecides(m) \/ AppAnswers(m)

\* Timers, the kernel and the network.
Elapses ==
  \/ Sweep
  \/ GoesStale
  \/ \E k \in Keys : TombstoneTrimmed(k) \/ LeaseRunsOut(k)
  \/ \E p \in Pids : PidDies(p)
  \/ \E c \in Conns : ConnCloses(c) \/ WaitEnds(c)
                        \/ WriteCompletes(c) \/ WriteFails(c)

\* The microtasks.
Resumes == \E c \in Conns : ResumeHold(c) \/ ResumePoll(c)

Next ==
  \/ \E ev \in Evals : Requests(ev)
  \/ Taps
  \/ Elapses
  \/ Resumes

Spec == Init /\ [][Next]_vars

\* A microtask is run before anything else; a timer that keeps coming due
\* while the loop is idle is run in the end, whatever else keeps happening.
\* Nothing is assumed of the terminals, of the people or of the network.
Fairness ==
  /\ \A c \in Conns : WF_vars(ResumeHold(c) \/ ResumePoll(c)) /\ SF_vars(WaitEnds(c))
  /\ \A k \in Keys : SF_vars(LeaseRunsOut(k))
  /\ SF_vars(Sweep)

FairSpec == Spec /\ Fairness

-----------------------------------------------------------------------------
(* What must hold.                                                         *)

\* What is set on a connection's request, by what it is doing.
LegShape(leg) ==
  /\ leg.woken => leg.st = "parked"
  /\ leg.st = "parked" => leg.ev # NoEval /\ (leg.kind = "hold" => leg.id # NoId)
  /\ leg.st = "writing" => leg.ev # NoEval /\ leg.out # NoOut /\ leg.id # NoId

TypeOK ==
  /\ alive \in [Pids -> BOOLEAN]
  /\ row \in Evals \cup {NoEval}
  /\ fresh \in BOOLEAN
  /\ gen \in Gens
  /\ openIds \subseteq Ids
  /\ hold \in [Keys -> 0..opened]
  /\ lapsed \subseteq 1..opened
  /\ tomb \in [Keys -> Outcomes \cup {NoOut}]
  /\ handedOver \subseteq Keys
  /\ cardOf \in [Serials -> Cards]
  /\ toolCards \subseteq Ids
  /\ legs \in [Conns -> LegRecords]
  /\ opened \in 0..MaxHolds
  /\ opener \in [Serials -> Evals \cup {NoEval}]
  /\ decision \in [Serials -> [kind : Human \cup {"release", "none"}, seen : 0..MaxHolds]]
  /\ handed \in [Serials -> Evals \cup {NoEval}]
  /\ \A c \in Conns : LegShape(legs[c])

\* The three places that know of a held call agree: the store's record, the
\* registry's open-hold entry and the registration that opened it.  No record
\* of an earlier registration is left for a later one's requests to reach,
\* which is what lets every close name a hold by its request id alone.
OpenHoldsAgree ==
  /\ \A k \in OpenKeys : k[1] = gen /\ row # NoEval /\ PidOf[row] = PidOf[opener[hold[k]]]
  /\ openIds = IdsOf(OpenKeys)

\* Where the outcome of hold n is: still open, waiting as a tombstone, in a
\* response that is being written, or gone out.
Tombs(n)   == {k \in Keys : tomb[k].no = n}
Writing(n) == {c \in Conns : legs[c].st = "writing" /\ legs[c].out.no = n}
Opened(n)  == {k \in Keys : hold[k] = n}
Places(n)  == ({"open"} \X Opened(n)) \cup ({"tomb"} \X Tombs(n)) \cup ({"writing"} \X Writing(n))

\* The abstract state of hold n, and who was told of a person's decision.
WhereIs(n) ==
  IF n > opened           THEN "new"
  ELSE IF Opened(n) # {}  THEN "open"
  ELSE IF Tombs(n) # {}   THEN "ready"
  ELSE IF Writing(n) # {} THEN "sending"
                          ELSE "over"

Outcome == INSTANCE CallOutcome WITH
  Calls <- Serials,
  state <- [n \in Serials |-> WhereIs(n)],
  told  <- {n \in Serials : handed[n] # NoEval}

\* The store, its two legs and the put-back carry a call's outcome as
\* CallOutcome promises: decided once, told once or lost, never back.
EveryCallEndsOnce == Outcome!Spec

\* Every answer is consumed exactly once (mod-holds.ts, rule 3): whatever the
\* hold leg, the poll leg and the put-back after a failed write do, and in
\* whatever order, a person's decision is never in two places.
OneFate ==
  \A n \in Serials :
    /\ \A x, y \in Places(n) : x = y
    /\ handed[n] # NoEval => Places(n) = {}

\* A tap decides the call its own card was drawn for, however stale the card:
\* ids that restart in every process never let it reach another hold.
NoBlindDecision == \A n \in Serials : decision[n].seen \in {0, n}

\* No lost wakeup.  Once the loop is idle, a request that is still parked by
\* a terminal that is still there belongs to the registration of now, and one
\* parked on a call is parked on an open hold whose lease runs.
NothingParkedInVain ==
  Quiet => \A c \in Conns :
    legs[c].st = "parked" /\ legs[c].open /\ alive[PidOf[legs[c].ev]] =>
      /\ row # NoEval /\ legs[c].gen = gen
      /\ legs[c].id # NoId => hold[Now(legs[c].id)] \notin lapsed \cup {0}

\* A person's tap or the band settles a call only while the terminal that made
\* it still holds the session and its lease runs; nothing settles it twice.
SettledOnceInTime ==
  [][\A n \in Serials : decision'[n] # decision[n] =>
       /\ decision[n] = Undecided
       /\ decision'[n].seen # 0 \/ decision'[n].kind = "verdict" =>
            row # NoEval /\ PidOf[row] = PidOf[opener[n]] /\ n \notin lapsed]_vars

\* A hold that stays open is one its terminal keeps asking about; it has no
\* other deadline.
HeldOnlyWhileAsked ==
  \A k \in Keys : <>[](hold[k] # 0) => []<>LiveAsker(k)

\* mod-holds.ts:288-294 says a settled outcome is never delivered across a
\* generation boundary: a decision goes to the process that asked.
DecisionsReachTheirAsker ==
  \A n \in Serials : handed[n] # NoEval => PidOf[handed[n]] = PidOf[opener[n]]

\* mod-socket-server.ts:483-486 says every path that creates work for a
\* session wakes its parked polls: no poll sits idle beside a waiting answer.
NoPollIdlesBesideAnAnswer ==
  Quiet => \A c \in Conns :
    legs[c].st = "parked" /\ legs[c].kind = "poll" /\ legs[c].id = NoId /\ ClaimLive(c)
      => \A i \in Ids : tomb[Now(i)].kind \notin Human

=============================================================================
