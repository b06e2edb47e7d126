------------------------------ MODULE Attention ------------------------------
(***************************************************************************)
(* Alerts for attention events: the durable store of events, deliveries    *)
(* and dismissals (broker/src/attention/attention-store.ts) and the        *)
(* scheduler that hands alerts to devices                                  *)
(* (attention-reminder-scheduler.ts).                                      *)
(*                                                                         *)
(* The store runs one mutation at a time and keeps what it was when the    *)
(* save of one fails.  A pass over the events awaits the store, while      *)
(* other mutations are queued before its own; each device has a lane of    *)
(* batches, the batches of one device run one after the other.             *)
(***************************************************************************)
EXTENDS Integers, FiniteSets, Sequences

CONSTANTS Devices, Events,
          Prompt,        \* the devices whose push service always answers
          KindsRaised,   \* the kinds of event a run raises
          MaxStage,      \* 1 is 'immediate', each later one alerts again
          MaxAttempts,   \* MAX_RETRY_ATTEMPTS
          MaxMishaps     \* bound: saves that fail, and crashes

Kinds == {"request", "news", "health", "update"}

ASSUME AttentionAssumption ==
    /\ Prompt \subseteq Devices /\ KindsRaised \subseteq Kinds
    /\ MaxMishaps \in Nat /\ MaxAttempts \in Nat \ {0} /\ MaxStage \in Nat \ {0, 1}

VARIABLES
    event,     \* the stored events
    ledger,    \* the stored deliveries, one for each device, event and stage
    dismissed, \* the stored dismissals: <<device, event>>
    pass,      \* the reconcile under way
    inFlight,  \* AttentionReminderScheduler.inFlight
    lanes,     \* per device: the batches handed to it that have not begun
    jobs,      \* per delivery: where its dispatch is
    mishaps,   \* how many saves failed or crashes happened
    shown,     \* history: per device, how often an alert of an event reached it
    worst      \* history: the last stage an event was escalated to

storeVars == <<event, ledger, dismissed>>
laneVars  == <<inFlight, lanes, jobs>>
attentionVars == <<storeVars, pass, laneVars, mishaps, shown, worst>>

Stages == 1..MaxStage
Alerts == Devices \X Events \X Stages

NoEvent == [state |-> "absent"]
Gone    == [state |-> "gone"]
Event   == [state : {"active", "resolved"}, kind : Kinds, stage : Stages, ripe : BOOLEAN]
NoDelivery == [state |-> "absent"]
Delivery == [state : {"reserved", "delivered", "superseded"},
             attempts : 0..MaxAttempts, later : BOOLEAN]
NoPass  == [running |-> FALSE]
NoVisit == [event |-> "none"]

Has(e) == event[e].state \in {"active", "resolved"}
\* isScheduledEvent: active, or a kind that is born resolved and alerts once.
Scheduled(e) == Has(e) /\ (event[e].state = "active" \/ event[e].kind = "news")

Reserved(k) == ledger[k].state = "reserved" /\ ledger[k].attempts < MaxAttempts
Wanted(k) == Reserved(k) /\ Scheduled(k[2]) /\ <<k[1], k[2]>> \notin dismissed

AttentionInit ==
    /\ event = [e \in Events |-> NoEvent]
    /\ ledger = [k \in Alerts |-> NoDelivery]
    /\ dismissed = {}
    /\ pass = NoPass /\ inFlight = {}
    /\ lanes = [d \in Devices |-> <<>>]
    /\ jobs = [k \in Alerts |-> "idle"]
    /\ mishaps = 0
    /\ shown = [p \in Devices \X Events |-> 0]
    /\ worst = [e \in Events |-> 1]

-----------------------------------------------------------------------------
(* The store.  mutate works on a copy and adopts it once it is saved.      *)

Mishap    == mishaps < MaxMishaps /\ mishaps' = mishaps + 1
SaveOk    == UNCHANGED mishaps
SaveFails == Mishap /\ UNCHANGED storeVars

\* supersedeReservedDeliveriesInState.
Superseded(l, e, except) ==
    [k \in Alerts |-> IF k[2] = e /\ k[3] # except /\ l[k].state = "reserved"
                      THEN [l[k] EXCEPT !.state = "superseded", !.later = FALSE] ELSE l[k]]

\* What others do with the feed, at any moment.  A caller whose save fails is
\* told, and nothing has changed.
Others == UNCHANGED <<pass, laneVars, mishaps, shown>>

\* upsertEvent of a new event: each kind is born at its first stage.
Raise(e, kind) ==
    /\ event[e] = NoEvent
    /\ event' = [event EXCEPT ![e] =
                   [state |-> IF kind = "news" THEN "resolved" ELSE "active",
                    kind |-> kind, stage |-> 1, ripe |-> kind # "update"]]
    /\ UNCHANGED <<ledger, dismissed, worst>> /\ Others

\* upsertEvent by the broker-health reconciler: the episode got worse.
Escalate(e) ==
    /\ event[e].state = "active" /\ event[e].kind = "health" /\ worst[e] < MaxStage
    /\ event' = [event EXCEPT ![e].stage = worst[e] + 1]
    /\ worst' = [worst EXCEPT ![e] = @ + 1]
    /\ UNCHANGED <<ledger, dismissed>> /\ Others

\* dueIndex: two hours have gone by since the update was found.
Ripen(e) ==
    /\ Has(e) /\ ~event[e].ripe
    /\ event' = [event EXCEPT ![e].ripe = TRUE]
    /\ UNCHANGED <<ledger, dismissed, worst>> /\ Others

\* resolveByDedupeKey: answered, recovered, or updated.
Resolve(e) ==
    /\ event[e].state = "active"
    /\ event' = [event EXCEPT ![e].state = "resolved"]
    /\ ledger' = Superseded(ledger, e, 0)
    /\ UNCHANGED <<dismissed, worst>> /\ Others

\* dismiss and dismissBatch.
Dismiss(d, e) ==
    /\ Has(e) /\ <<d, e>> \notin dismissed
    /\ dismissed' = dismissed \cup {<<d, e>>}
    /\ UNCHANGED <<event, ledger, worst>> /\ Others

\* pruneState: resolved history past its bounds goes, and all that belongs to it.
Prune(e) ==
    /\ event[e].state = "resolved"
    /\ event' = [event EXCEPT ![e] = Gone]
    /\ ledger' = [k \in Alerts |-> IF k[2] = e THEN NoDelivery ELSE ledger[k]]
    /\ dismissed' = {p \in dismissed : p[2] # e}
    /\ UNCHANGED worst /\ Others

\* nextAttemptAt has passed.
Elapse(k) ==
    /\ ledger[k].state = "reserved" /\ ledger[k].later
    /\ ledger' = [ledger EXCEPT ![k].later = FALSE]
    /\ UNCHANGED <<event, dismissed, worst>> /\ Others

\* Only what was saved is left.
Crash ==
    /\ Mishap
    /\ pass' = NoPass /\ inFlight' = {}
    /\ lanes' = [d \in Devices |-> <<>>]
    /\ jobs' = [k \in Alerts |-> "idle"]
    /\ UNCHANGED <<storeVars, shown, worst>>

-----------------------------------------------------------------------------
(* reconcile.  Passes are serialized.                                      *)

\* The stage a pass takes an event to, from the copy it read at its start.
Visit(e) ==
    LET target == IF event[e].kind = "update" THEN 2 ELSE event[e].stage
    IN  [event |-> e, target |-> target, raises |-> target # event[e].stage]

\* A pass that would find no event is left out: it changes nothing.
StartPass ==
    LET due == {e \in Events : Scheduled(e) /\ event[e].ripe}
    IN  /\ pass = NoPass /\ due # {}
        /\ pass' = [running |-> TRUE, at |-> NoVisit, due |-> {},
                    todo |-> {Visit(e) : e \in due}]
        /\ UNCHANGED <<storeVars, laneVars, mishaps, shown, worst>>

PassOver(v) == pass' = [pass EXCEPT !.todo = @ \ {v}]
Enter(v, step) == pass' = [pass EXCEPT !.at = [event |-> v.event, target |-> v.target,
                                              step |-> step],
                                       !.todo = @ \ {v}]

\* advancePresentationAndReserve refuses an update that was applied.
Refused(v) ==
    \/ ~Has(v.event)
    \/ event[v.event].kind = "update" /\ event[v.event].state # "active"

\* A delivery that exists is left as it is.
ReserveAll(v) ==
    [k \in Alerts |->
       IF k[2] = v.event /\ k[3] = v.target /\ ledger[k] = NoDelivery
       THEN [state |-> "reserved", attempts |-> 0, later |-> FALSE] ELSE ledger[k]]

\* A save that fails ends the pass: what it had found is left to the next.
Reserve(v) ==
    /\ pass # NoPass /\ pass.at = NoVisit /\ v \in pass.todo
    /\ IF Refused(v)
       THEN PassOver(v) /\ UNCHANGED <<event, ledger, mishaps>>
       ELSE \/ /\ event' = [event EXCEPT ![v.event].stage = v.target]
               /\ ledger' = ReserveAll(v)
               /\ Enter(v, IF v.raises THEN "supersede" ELSE "collect")
               /\ SaveOk
            \/ /\ event[v.event].stage # v.target \/ ledger # ReserveAll(v)
               /\ SaveFails
               /\ pass' = NoPass
    /\ UNCHANGED <<dismissed, laneVars, shown, worst>>

At(step) == pass # NoPass /\ pass.at # NoVisit /\ pass.at.step = step

\* supersedeDeliveries: the stages this one replaces.
Supersede ==
    /\ At("supersede")
    /\ LET replaced == Superseded(ledger, pass.at.event, pass.at.target)
       IN  \/ /\ ledger' = replaced
              /\ pass' = [pass EXCEPT !.at.step = "collect"]
              /\ SaveOk
           \/ replaced # ledger /\ SaveFails /\ pass' = NoPass
    /\ UNCHANGED <<event, dismissed, laneVars, shown, worst>>

\* Mutant: a delivery that a lane holds is found again.
FoundWhileInFlight(k) == Wanted(k) /\ ~ledger[k].later
Found(k) == Wanted(k) /\ ~ledger[k].later /\ k \notin inFlight

Collect ==
    /\ At("collect")
    /\ pass' = [pass EXCEPT !.at = NoVisit,
                            !.due = @ \cup {k \in Alerts : /\ k[2] = pass.at.event
                                                           /\ k[3] = pass.at.target
                                                           /\ Found(k)}]
    /\ UNCHANGED <<storeVars, laneVars, mishaps, shown, worst>>

\* handToDevice, for every device with something due.
HandOut ==
    /\ pass # NoPass /\ pass.at = NoVisit /\ pass.todo = {}
    /\ inFlight' = inFlight \cup pass.due
    /\ lanes' = [d \in Devices |->
                   LET batch == {k \in pass.due : k[1] = d}
                   IN  IF batch = {} THEN lanes[d] ELSE Append(lanes[d], batch)]
    /\ pass' = NoPass
    /\ UNCHANGED <<storeVars, jobs, mishaps, shown, worst>>

-----------------------------------------------------------------------------
(* A lane.                                                                 *)

Busy(d) == \E k \in Alerts : k[1] = d /\ jobs[k] # "idle"

\* Mutant: what was due when the pass ran is still due.
StillAsHanded(k) == TRUE
\* dispatch reads the store again: a lane may have waited for long.
StillWanted(k) == Wanted(k)

\* The earlier dispatches of the device have settled: the next batch begins,
\* all of it at once.
StartBatch(d) ==
    /\ lanes[d] # <<>> /\ ~Busy(d)
    /\ LET batch == Head(lanes[d])
           wanted == {k \in batch : StillWanted(k)}
       IN  /\ jobs' = [k \in Alerts |-> IF k \in wanted THEN "calling" ELSE jobs[k]]
           /\ inFlight' = inFlight \ (batch \ wanted)
    /\ lanes' = [lanes EXCEPT ![d] = Tail(@)]
    /\ UNCHANGED <<storeVars, pass, mishaps, shown, worst>>

MoveTo(k, step) == jobs' = [jobs EXCEPT ![k] = step] /\ UNCHANGED inFlight
\* Mutant: only a delivery that ended well leaves the lane's books.
LeaveIfDone(k) ==
    /\ jobs' = [jobs EXCEPT ![k] = "idle"]
    /\ inFlight' = IF jobs[k] = "completing" THEN inFlight \ {k} ELSE inFlight
Leave(k) == jobs' = [jobs EXCEPT ![k] = "idle"] /\ inFlight' = inFlight \ {k}

\* dispatchReservation resolves: the alert is on its way; or it rejects.
Answer(k) ==
    /\ jobs[k] = "calling"
    /\ \/ MoveTo(k, "completing") /\ shown' = [shown EXCEPT ![<<k[1], k[2]>>] = @ + 1]
       \/ MoveTo(k, "failing") /\ UNCHANGED shown
    /\ UNCHANGED <<storeVars, pass, lanes, mishaps, worst>>

\* Mutant: the delivery is not marked.
Unmarked(k) == ledger
Delivered(k) ==
    IF ledger[k] = NoDelivery THEN ledger
    ELSE [ledger EXCEPT ![k].state = "delivered", ![k].later = FALSE]

\* completeDelivery; a save that fails counts as a failed dispatch.
Complete(k) ==
    /\ jobs[k] = "completing"
    /\ \/ ledger' = Delivered(k) /\ SaveOk /\ Leave(k)
       \/ Delivered(k) # ledger /\ SaveFails /\ MoveTo(k, "failing")
    /\ UNCHANGED <<event, dismissed, pass, lanes, shown, worst>>

Failed(k) ==
    IF ledger[k].state # "reserved" THEN ledger
    ELSE [ledger EXCEPT ![k].attempts = @ + 1,
                        ![k].later = ledger[k].attempts + 1 < MaxAttempts]

\* recordDeliveryFailure; a save that fails is reported, and no more.
RecordFailure(k) ==
    /\ jobs[k] = "failing"
    /\ \/ ledger' = Failed(k) /\ SaveOk
       \/ Failed(k) # ledger /\ SaveFails
    /\ Leave(k)
    /\ UNCHANGED <<event, dismissed, pass, lanes, shown, worst>>

-----------------------------------------------------------------------------
PassStep ==
    \/ StartPass \/ Supersede \/ Collect \/ HandOut
    \/ pass # NoPass /\ \E v \in pass.todo : Reserve(v)

\* Time passes for the deliveries of a device, and its dispatches go on.
LaneStep(d) ==
    \/ StartBatch(d)
    \/ \E k \in Alerts :
          k[1] = d /\ (Elapse(k) \/ Answer(k) \/ Complete(k) \/ RecordFailure(k))

AttentionNext ==
    \/ \E e \in Events : \/ \E kind \in KindsRaised : Raise(e, kind)
                         \/ Escalate(e) \/ Ripen(e) \/ Resolve(e) \/ Prune(e)
                         \/ \E d \in Devices : Dismiss(d, e)
    \/ Crash
    \/ PassStep
    \/ \E d \in Devices : LaneStep(d)

AttentionSpec == AttentionInit /\ [][AttentionNext]_attentionVars

\* Time passes, the timer starts passes, the store answers.  The push services
\* of the devices in Prompt answer; nothing is asked of the others.
AttentionFairness ==
    /\ WF_attentionVars(PassStep)
    /\ \A e \in Events : WF_attentionVars(Ripen(e))
    /\ \A d \in Prompt : WF_attentionVars(LaneStep(d))

-----------------------------------------------------------------------------
Batches(d) == {lanes[d][i] : i \in DOMAIN lanes[d]}
Dispatching == {k \in Alerts : jobs[k] # "idle"}

\* Types; and each delivery the scheduler holds in flight is in one batch that
\* waits or in one dispatch that runs, never in two.
AttentionTypeOK ==
    /\ event \in [Events -> Event \cup {NoEvent, Gone}]
    /\ ledger \in [Alerts -> Delivery \cup {NoDelivery}]
    /\ dismissed \subseteq Devices \X Events
    /\ jobs \in [Alerts -> {"idle", "calling", "completing", "failing"}]
    /\ inFlight = Dispatching \cup UNION UNION {Batches(d) : d \in Devices}
    /\ \A d \in Devices : \A i, j \in DOMAIN lanes[d] :
          lanes[d][i] \cap Dispatching = {} /\ (i # j => lanes[d][i] \cap lanes[d][j] = {})

\* "Every event alerts once" (docs/architecture/attention.md:80), once more for
\* each time it got worse: a device sees a further alert only for each crash
\* and for each save that failed.
EventAlertsOnce ==
    \A d \in Devices, e \in Events :
        shown[<<d, e>>] <= worst[e] + mishaps

\* No dispatch begins for an event that was answered or that its device
\* dismissed, however long its lane was held up, nor for a stage that was
\* superseded meanwhile.
NoAlertAfterAnswer ==
    [][\A k \in Alerts : jobs[k] = "idle" /\ jobs'[k] # "idle" =>
          /\ ledger[k].state = "reserved"
          /\ Scheduled(k[2]) /\ <<k[1], k[2]>> \notin dismissed]_attentionVars

\* "One device's held wake delays only that device": an event that stays open
\* and undismissed is alerted on each device that answers, or its attempts run
\* out, even though other devices may never answer.
AlertComes ==
    \A d \in Prompt, e \in Events :
        Scheduled(e) /\ <<d, e>> \notin dismissed ~>
            \/ ~Scheduled(e) \/ <<d, e>> \in dismissed
            \/ \E s \in Stages : LET k == <<d, e, s>> IN
                  ledger[k].state = "delivered"
                    \/ (ledger[k].state = "reserved" /\ ledger[k].attempts = MaxAttempts)

\* An escalation never collapses into a reservation that was already delivered
\* (attention-reminder-scheduler.ts:131-132): the stage it raised stays.
EscalationKept == \A e \in Events : event[e].state = "active" => event[e].stage >= worst[e]
=============================================================================
