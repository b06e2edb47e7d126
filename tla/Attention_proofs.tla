--------------------------- MODULE Attention_proofs ---------------------------
(***************************************************************************)
(* What Attention promises for any number of devices, events and stages,   *)
(* and any bounds on attempts and mishaps.  That a delivery is in one      *)
(* place is inductive once it is known what a pass holds; that an event    *)
(* alerts once needs an account of the alerts that may still come (Left).  *)
(***************************************************************************)
EXTENDS Attention, FiniteSetTheorems, SequenceTheorems, TLAPS

Steps  == {"supersede", "collect"}
Visits == [event : Events, target : Stages, raises : BOOLEAN]
Places == [event : Events, target : Stages, step : Steps]
Passes == [running : {TRUE}, at : Places \cup {NoVisit},
           due : SUBSET Alerts, todo : SUBSET Visits]

StoreTypes ==
    /\ event \in [Events -> Event \cup {NoEvent, Gone}]
    /\ ledger \in [Alerts -> Delivery \cup {NoDelivery}]
    /\ dismissed \subseteq Devices \X Events
    /\ worst \in [Events -> Stages]
    /\ mishaps \in Nat

SchedulerTypes ==
    /\ jobs \in [Alerts -> {"idle", "calling", "completing", "failing"}]
    /\ lanes \in [Devices -> Seq(SUBSET Alerts)]
    /\ inFlight \subseteq Alerts
    /\ pass \in Passes \cup {NoPass}
    /\ shown \in [Devices \X Events -> Nat]

\* A delivery in flight is in one batch in the lane of its device, or in one
\* dispatch that runs.
Queued(k) == \E i \in DOMAIN lanes[k[1]] : k \in lanes[k[1]][i]

OnePlace ==
    /\ \A k \in Alerts : k \in inFlight <=> jobs[k] # "idle" \/ Queued(k)
    /\ \A d \in Devices : \A i \in DOMAIN lanes[d] : \A k \in lanes[d][i] :
          k[1] = d /\ jobs[k] = "idle"
    /\ \A d \in Devices : \A i, j \in DOMAIN lanes[d] :
          i # j => lanes[d][i] \cap lanes[d][j] = {}

\* A pass finds a delivery once, and none that a lane has.
PassFindsNew ==
    pass # NoPass =>
        /\ pass.due \cap inFlight = {}
        /\ \A v, w \in pass.todo : v.event = w.event => v = w
        /\ \A v \in pass.todo : \A k \in pass.due : k[2] # v.event
        /\ pass.at # NoVisit =>
              /\ \A v \in pass.todo : v.event # pass.at.event
              /\ \A k \in pass.due : k[2] # pass.at.event

\* A dispatch that runs has an attempt left.
AttemptsLeft ==
    \A k \in Alerts : jobs[k] # "idle" /\ ledger[k].state = "reserved"
                          => ledger[k].attempts < MaxAttempts

PlacesInv ==
    StoreTypes /\ SchedulerTypes /\ OnePlace /\ PassFindsNew /\ AttemptsLeft

\* A device gets the stages of an event one after the other.
OneStage(S) == \A k, l \in S : k[1] = l[1] /\ k[2] = l[2] => k[3] = l[3]

StagesApart ==
    /\ OneStage(Dispatching)
    /\ \A d \in Devices : \A i \in DOMAIN lanes[d] : OneStage(lanes[d][i])
    /\ pass # NoPass => OneStage(pass.due)

\* The stages an event may be alerted at: an update has one, its reminder.
Allowed(e) == IF event[e].kind = "update" THEN {2} ELSE 1..worst[e]

StagesAllowed ==
    /\ \A k \in Alerts : Has(k[2]) /\ ledger[k] # NoDelivery => k[3] \in Allowed(k[2])
    /\ \A e \in Events : Has(e) /\ event[e].kind # "update" => event[e].stage <= worst[e]
    /\ pass # NoPass => \A v \in pass.todo :
          event[v.event] # NoEvent /\ (Has(v.event) => v.target \in Allowed(v.event))

\* Nothing is known of an event before it is raised, and a dispatch without a
\* delivery is for an event that was pruned.
RecordsFit ==
    /\ \A e \in Events : event[e] = NoEvent =>
          /\ worst[e] = 1
          /\ \A d \in Devices : shown[<<d, e>>] = 0
          /\ \A k \in Alerts : k[2] = e => jobs[k] = "idle" /\ ledger[k] = NoDelivery
    /\ \A k \in Alerts : jobs[k] # "idle" /\ Has(k[2]) => ledger[k] # NoDelivery

\* The stages at which a device may still be alerted of an event although no
\* crash and no failing save comes between.
Left(d, e) ==
    {s \in Stages : LET k == <<d, e, s>> IN
        \/ jobs[k] = "calling"
        \/ Has(e) /\ s \in Allowed(e) /\ jobs[k] # "completing" /\ ledger[k].state # "delivered"}

Budget(d, e) == shown[<<d, e>>] + Cardinality(Left(d, e)) <= worst[e] + mishaps

AlertsLeft == \A d \in Devices, e \in Events : event[e] # NoEvent => Budget(d, e)

AlertsInv == StagesApart /\ StagesAllowed /\ RecordsFit /\ AlertsLeft

-----------------------------------------------------------------------------
\* An alert is for a device, an event and a stage.
LEMMA AlertParts ==
    /\ \A k \in Alerts : k[1] \in Devices /\ k[2] \in Events /\ k[3] \in Stages
                            /\ k = <<k[1], k[2], k[3]>>
    /\ \A d \in Devices, e \in Events, s \in Stages : <<d, e, s>> \in Alerts
BY DEF Alerts

\* An event that is there is a record with a kind and a stage.
LEMMA EventShape ==
    ASSUME StoreTypes, NEW e \in Events
    PROVE  /\ Has(e) => event[e] \in Event
           /\ event[e] = NoEvent \/ event[e] = Gone => ~Has(e)
           /\ NoEvent # Gone
BY DEF StoreTypes, Has, Event, NoEvent, Gone

\* A delivery that is there is a record with its attempts.
LEMMA DeliveryShape ==
    ASSUME StoreTypes, NEW k \in Alerts
    PROVE  /\ ledger[k] # NoDelivery <=> ledger[k] \in Delivery
           /\ ledger[k].state \in {"reserved", "delivered", "superseded"} => ledger[k] \in Delivery
           /\ ledger[k] = NoDelivery => ledger[k].state = "absent"
BY DEF StoreTypes, Delivery, NoDelivery

\* A pass that runs is a record with what it is at.
LEMMA PassShape ==
    ASSUME SchedulerTypes
    PROVE  /\ pass # NoPass => pass \in Passes
           /\ pass # NoPass => pass.todo \subseteq Visits /\ pass.due \subseteq Alerts
           /\ \A step : At(step) => pass \in Passes /\ pass.at \in Places
BY DEF SchedulerTypes, Passes, NoPass, At

\* The invariant of the places holds at the start.
LEMMA PlacesInit == AttentionInit => PlacesInv
<1> SUFFICES ASSUME AttentionInit PROVE PlacesInv
    OBVIOUS
<1> MaxStage \in Nat \ {0, 1} /\ 1 \in Stages
    BY AttentionAssumption DEF Stages
<1>1. StoreTypes
    BY DEF AttentionInit, StoreTypes
<1>2. SchedulerTypes
    BY DEF AttentionInit, SchedulerTypes
<1>3. OnePlace
    BY AlertParts DEF AttentionInit, OnePlace, Queued
<1> QED
    BY <1>1, <1>2, <1>3 DEF PlacesInv, AttentionInit, PassFindsNew, AttemptsLeft

-----------------------------------------------------------------------------
\* What replaces the reservations of an event leaves the others alone.
LEMMA SupersededTypes ==
    ASSUME StoreTypes, NEW e, NEW except
    PROVE  /\ Superseded(ledger, e, except) \in [Alerts -> Delivery \cup {NoDelivery}]
           /\ \A k \in Alerts : LET l == Superseded(ledger, e, except)[k] IN
                 /\ l = NoDelivery <=> ledger[k] = NoDelivery
                 /\ \/ l = ledger[k]
                    \/ l.state = "superseded" /\ ledger[k].state = "reserved"
<1> DEFINE l == Superseded(ledger, e, except)
<1>1. ASSUME NEW k \in Alerts
      PROVE  /\ l[k] \in Delivery \cup {NoDelivery}
             /\ l[k] = NoDelivery <=> ledger[k] = NoDelivery
             /\ \/ l[k] = ledger[k]
                \/ l[k].state = "superseded" /\ ledger[k].state = "reserved"
    <2>1. CASE k[2] = e /\ k[3] # except /\ ledger[k].state = "reserved"
        <3>1. ledger[k] \in Delivery /\ ledger[k] # NoDelivery
            BY <2>1, DeliveryShape
        <3>2. l[k] = [ledger[k] EXCEPT !.state = "superseded", !.later = FALSE]
            BY <2>1 DEF Superseded
        <3>3. l[k] \in Delivery /\ l[k].state = "superseded"
            BY <3>1, <3>2 DEF Delivery
        <3>4. l[k] # NoDelivery
            BY <3>3 DEF NoDelivery
        <3> QED
            BY <2>1, <3>1, <3>3, <3>4
    <2>2. CASE ~(k[2] = e /\ k[3] # except /\ ledger[k].state = "reserved")
        BY <2>2 DEF Superseded, StoreTypes
    <2> QED
        BY <2>1, <2>2
<1> QED
    BY <1>1 DEF Superseded

\* Reservations have no attempt more after a step than before.
AttemptsKept ==
    \A k \in Alerts : ledger'[k].state = "reserved" =>
        ledger[k].state = "reserved" /\ ledger'[k].attempts = ledger[k].attempts

\* A mutation of the store by others touches no lane and no pass.
LEMMA OthersKeep ==
    ASSUME PlacesInv, Others, StoreTypes', AttemptsKept
    PROVE  PlacesInv'
<1>1. UNCHANGED <<pass, inFlight, lanes, jobs, shown>>
    BY DEF Others, laneVars
<1>2. SchedulerTypes' /\ OnePlace' /\ PassFindsNew'
    BY <1>1 DEF PlacesInv, SchedulerTypes, OnePlace, Queued, PassFindsNew
<1>3. AttemptsLeft'
    BY <1>1 DEF PlacesInv, AttemptsLeft, AttemptsKept
<1> QED
    BY <1>2, <1>3 DEF PlacesInv

\* A new event is well formed.
LEMMA RaiseKeeps ==
    ASSUME PlacesInv, NEW e \in Events, NEW kind \in KindsRaised, Raise(e, kind)
    PROVE  PlacesInv'
<1>1. kind \in Kinds /\ 1 \in Stages
    BY AttentionAssumption DEF Stages
<1>2. StoreTypes'
    BY <1>1 DEF PlacesInv, StoreTypes, Raise, Others, Event
<1>3. AttemptsKept /\ Others
    BY DEF Raise, AttemptsKept
<1> QED
    BY <1>2, <1>3, OthersKeep

\* So is one that got worse.
LEMMA EscalateKeeps ==
    ASSUME PlacesInv, NEW e \in Events, Escalate(e)
    PROVE  PlacesInv'
<1>1. worst[e] + 1 \in Stages /\ worst \in [Events -> Stages]
    BY AttentionAssumption DEF PlacesInv, StoreTypes, Escalate, Stages
<1>2. event[e] \in Event
    BY EventShape DEF PlacesInv, Escalate, Has
<1>3. StoreTypes'
    BY <1>1, <1>2 DEF PlacesInv, StoreTypes, Escalate, Others, Event
<1>4. AttemptsKept /\ Others
    BY DEF Escalate, AttemptsKept
<1> QED
    BY <1>3, <1>4, OthersKeep

\* Or whose reminder ripens.
LEMMA RipenKeeps ==
    ASSUME PlacesInv, NEW e \in Events, Ripen(e)
    PROVE  PlacesInv'
<1>1. event[e] \in Event
    BY EventShape DEF PlacesInv, Ripen
<1>2. StoreTypes'
    BY <1>1 DEF PlacesInv, StoreTypes, Ripen, Others, Event
<1>3. AttemptsKept /\ Others
    BY DEF Ripen, AttemptsKept
<1> QED
    BY <1>2, <1>3, OthersKeep

\* An answer ends the reservations of its event.
LEMMA ResolveKeeps ==
    ASSUME PlacesInv, NEW e \in Events, Resolve(e)
    PROVE  PlacesInv'
<1>1. event[e] \in Event
    BY EventShape DEF PlacesInv, Resolve, Has
<1>2. StoreTypes
    BY DEF PlacesInv
<1>3. StoreTypes'
    BY <1>1, <1>2, SupersededTypes DEF StoreTypes, Resolve, Others, Event
<1>4. AttemptsKept /\ Others
    BY <1>2, SupersededTypes DEF Resolve, AttemptsKept
<1> QED
    BY <1>3, <1>4, OthersKeep

\* A dismissal changes no delivery.
LEMMA DismissKeeps ==
    ASSUME PlacesInv, NEW d \in Devices, NEW e \in Events, Dismiss(d, e)
    PROVE  PlacesInv'
<1>1. StoreTypes'
    BY DEF PlacesInv, StoreTypes, Dismiss, Others
<1>2. AttemptsKept /\ Others
    BY DEF Dismiss, AttemptsKept
<1> QED
    BY <1>1, <1>2, OthersKeep

\* What retention drops takes its deliveries along.
LEMMA PruneKeeps ==
    ASSUME PlacesInv, NEW e \in Events, Prune(e)
    PROVE  PlacesInv'
<1>1. StoreTypes'
    BY DEF PlacesInv, StoreTypes, Prune, Others
<1>2. AttemptsKept /\ Others
    BY DEF Prune, AttemptsKept, NoDelivery
<1> QED
    BY <1>1, <1>2, OthersKeep

\* The end of a delay is no attempt.
LEMMA ElapseKeeps ==
    ASSUME PlacesInv, NEW k \in Alerts, Elapse(k)
    PROVE  PlacesInv'
<1>1. ledger[k] \in Delivery
    BY DeliveryShape DEF PlacesInv, Elapse
<1>2. StoreTypes'
    BY <1>1 DEF PlacesInv, StoreTypes, Elapse, Others, Delivery
<1>3. AttemptsKept /\ Others
    BY <1>1 DEF PlacesInv, StoreTypes, Elapse, AttemptsKept, Delivery
<1> QED
    BY <1>2, <1>3, OthersKeep

\* A crash leaves the store.
LEMMA CrashKeeps ==
    ASSUME PlacesInv, Crash
    PROVE  PlacesInv'
<1>1. StoreTypes'
    BY DEF PlacesInv, StoreTypes, Crash, Mishap, storeVars
<1>2. SchedulerTypes' /\ PassFindsNew'
    BY DEF PlacesInv, SchedulerTypes, PassFindsNew, Crash
<1>3. OnePlace'
    BY AlertParts DEF OnePlace, Queued, Crash
<1>4. AttemptsLeft'
    BY DEF AttemptsLeft, Crash
<1> QED
    BY <1>1, <1>2, <1>3, <1>4 DEF PlacesInv

-----------------------------------------------------------------------------
\* A step of the pass that touches no lane.
LEMMA PassKeeps ==
    ASSUME PlacesInv, UNCHANGED <<laneVars, shown>>, StoreTypes', AttemptsKept,
           pass' \in Passes \cup {NoPass}, PassFindsNew'
    PROVE  PlacesInv'
<1>1. SchedulerTypes' /\ OnePlace'
    BY DEF PlacesInv, SchedulerTypes, OnePlace, Queued, laneVars
<1>2. AttemptsLeft'
    BY DEF PlacesInv, AttemptsLeft, AttemptsKept, laneVars
<1> QED
    BY <1>1, <1>2 DEF PlacesInv

\* A pass that ended has nothing.
LEMMA NoPassFindsNew == pass' = NoPass => PassFindsNew'
BY DEF PassFindsNew

\* What a pass goes to is of an event that is there.
LEMMA StartPassKeeps ==
    ASSUME PlacesInv, StartPass
    PROVE  PlacesInv'
<1> DEFINE due == {e \in Events : Scheduled(e) /\ event[e].ripe}
<1>1. pass' = [running |-> TRUE, at |-> NoVisit, due |-> {}, todo |-> {Visit(e) : e \in due}]
    BY DEF StartPass
<1>2. \A e \in due : Visit(e) \in Visits /\ Visit(e).event = e
    <2> SUFFICES ASSUME NEW e \in due PROVE Visit(e) \in Visits /\ Visit(e).event = e
        OBVIOUS
    <2>1. event[e] \in Event /\ 2 \in Stages
        BY EventShape, AttentionAssumption DEF PlacesInv, Scheduled, Stages
    <2> QED
        BY <2>1 DEF Visit, Visits, Event
<1>3. pass' \in Passes
    BY <1>1, <1>2 DEF Passes
<1>4. PassFindsNew'
    BY <1>1, <1>2 DEF PassFindsNew
<1>5. StoreTypes' /\ AttemptsKept
    BY DEF PlacesInv, StoreTypes, AttemptsKept, StartPass, storeVars
<1> QED
    BY <1>3, <1>4, <1>5, PassKeeps DEF StartPass

\* A pass takes on what it visits, and a delivery it reserves has all attempts.
LEMMA ReserveKeeps ==
    ASSUME PlacesInv, pass # NoPass, NEW v \in pass.todo, Reserve(v)
    PROVE  PlacesInv'
<1>1. /\ pass \in Passes /\ v \in Visits /\ pass.at = NoVisit
      /\ UNCHANGED <<laneVars, shown, dismissed, worst>>
    BY PassShape DEF PlacesInv, Reserve
<1>2. CASE Refused(v)
    <2>1. PassOver(v) /\ UNCHANGED <<event, ledger, mishaps>>
        BY <1>2 DEF Reserve
    <2>2. pass' \in Passes
        BY <1>1, <2>1 DEF PassOver, Passes
    <2>3. PassFindsNew'
        BY <1>1, <2>1 DEF PlacesInv, PassFindsNew, PassOver, Passes, laneVars
    <2>4. StoreTypes' /\ AttemptsKept
        BY <1>1, <2>1 DEF PlacesInv, StoreTypes, AttemptsKept
    <2> QED
        BY <1>1, <2>2, <2>3, <2>4, PassKeeps
<1>3. CASE ~Refused(v) /\ pass' = NoPass /\ SaveFails
    <2>1. StoreTypes' /\ AttemptsKept
        BY <1>1, <1>3 DEF PlacesInv, StoreTypes, AttemptsKept, SaveFails, Mishap, storeVars
    <2> QED
        BY <1>1, <1>3, <2>1, NoPassFindsNew, PassKeeps
<1>4. ASSUME NEW step \in Steps, ~Refused(v), Enter(v, step), SaveOk, ledger' = ReserveAll(v),
             event' = [event EXCEPT ![v.event].stage = v.target]
      PROVE  PlacesInv'
    <2>1. v.event \in Events /\ v.target \in Stages /\ event[v.event] \in Event
        BY <1>1, <1>4, EventShape DEF PlacesInv, Visits, Refused
    <2>2. /\ ReserveAll(v) \in [Alerts -> Delivery \cup {NoDelivery}]
          /\ \A k \in Alerts : \/ ReserveAll(v)[k] = ledger[k]
                               \/ ledger[k] = NoDelivery /\ k[2] = v.event
                                    /\ ReserveAll(v)[k].attempts = 0
        BY AttentionAssumption DEF ReserveAll, PlacesInv, StoreTypes, Delivery
    <2>3. StoreTypes'
        BY <1>1, <1>4, <2>1, <2>2 DEF PlacesInv, StoreTypes, Event, SaveOk
    <2>4. pass' = [pass EXCEPT !.at = [event |-> v.event, target |-> v.target, step |-> step],
                               !.todo = pass.todo \ {v}]
        BY <1>4 DEF Enter
    <2>5. pass' \in Passes
        BY <1>1, <2>1, <2>4 DEF Passes, Places, Steps
    <2>6. PassFindsNew'
        BY <1>1, <2>4 DEF PlacesInv, PassFindsNew, Passes, laneVars
    <2>7. SchedulerTypes' /\ OnePlace'
        BY <1>1, <2>5 DEF PlacesInv, SchedulerTypes, OnePlace, Queued, laneVars
    <2>8. AttemptsLeft'
        BY <1>1, <1>4, <2>2, AttentionAssumption DEF PlacesInv, AttemptsLeft, laneVars
    <2> QED
        BY <2>3, <2>6, <2>7, <2>8 DEF PlacesInv
<1> QED
    BY <1>2, <1>3, <1>4 DEF Reserve, Steps

\* The stages that are replaced keep their attempts.
LEMMA SupersedeKeeps ==
    ASSUME PlacesInv, Supersede
    PROVE  PlacesInv'
<1>1. /\ pass \in Passes /\ pass.at \in Places
      /\ UNCHANGED <<laneVars, shown, event, dismissed, worst>>
    BY PassShape DEF PlacesInv, Supersede
<1>2. CASE pass' = NoPass /\ SaveFails
    <2>1. StoreTypes' /\ AttemptsKept
        BY <1>1, <1>2 DEF PlacesInv, StoreTypes, AttemptsKept, SaveFails, Mishap, storeVars
    <2> QED
        BY <1>1, <1>2, <2>1, NoPassFindsNew, PassKeeps
<1>3. ASSUME ledger' = Superseded(ledger, pass.at.event, pass.at.target), SaveOk,
             pass' = [pass EXCEPT !.at.step = "collect"]
      PROVE  PlacesInv'
    <2>1. StoreTypes' /\ AttemptsKept
        BY <1>1, <1>3, SupersededTypes DEF PlacesInv, StoreTypes, AttemptsKept, SaveOk
    <2>2. /\ pass'.at = [pass.at EXCEPT !.step = "collect"] /\ pass'.due = pass.due
          /\ pass'.todo = pass.todo /\ pass' \in Passes
        BY <1>1, <1>3 DEF Passes, Places, Steps
    <2>3. pass'.at.event = pass.at.event /\ pass # NoPass /\ pass.at # NoVisit
        BY <1>1, <2>2 DEF Places, Supersede, At
    <2>4. PassFindsNew'
        BY <1>1, <2>2, <2>3 DEF PlacesInv, PassFindsNew, laneVars
    <2> QED
        BY <1>1, <2>1, <2>2, <2>4, PassKeeps
<1> QED
    BY <1>2, <1>3 DEF Supersede

\* What is collected is in no lane, and of an event not collected before.
LEMMA CollectKeeps ==
    ASSUME PlacesInv, Collect
    PROVE  PlacesInv'
<1> DEFINE more == {k \in Alerts : /\ k[2] = pass.at.event
                                   /\ k[3] = pass.at.target
                                   /\ Found(k)}
<1>1. /\ pass \in Passes /\ pass.at \in Places /\ pass # NoPass /\ pass.at # NoVisit
      /\ UNCHANGED <<storeVars, laneVars, mishaps, shown, worst>>
    BY PassShape DEF PlacesInv, Collect, At
<1>2. pass' = [pass EXCEPT !.at = NoVisit, !.due = pass.due \cup more]
    BY DEF Collect
<1>3. /\ pass'.at = NoVisit /\ pass'.due = pass.due \cup more
      /\ pass'.todo = pass.todo /\ pass' \in Passes
    <2> HIDE DEF more
    <2>1. more \subseteq Alerts
        BY DEF more
    <2> QED
        BY <1>1, <1>2, <2>1 DEF Passes
<1>4. \A k \in more : k[2] = pass.at.event /\ k \notin inFlight
    BY DEF Found
<1>5. PassFindsNew'
    <2> HIDE DEF more
    <2> QED
        BY <1>1, <1>3, <1>4 DEF PlacesInv, PassFindsNew, laneVars
<1>6. StoreTypes' /\ AttemptsKept
    BY <1>1 DEF PlacesInv, StoreTypes, AttemptsKept, storeVars
<1> QED
    BY <1>1, <1>3, <1>5, <1>6, PassKeeps

-----------------------------------------------------------------------------
\* What a pass found joins the lanes of its devices, in one batch each.
LEMMA HandOutAppends ==
    ASSUME PlacesInv, HandOut, NEW d \in Devices
    PROVE  LET batch == {k \in pass.due : k[1] = d}
               n     == Len(lanes[d])
           IN  /\ n \in Nat /\ DOMAIN lanes[d] = 1..n
               /\ lanes'[d] \in Seq(SUBSET Alerts)
               /\ \/ batch = {} /\ lanes'[d] = lanes[d]
                  \/ /\ batch # {} /\ DOMAIN lanes'[d] = 1..n + 1
                     /\ \A i \in 1..n : lanes'[d][i] = lanes[d][i]
                     /\ lanes'[d][n + 1] = batch
<1> DEFINE batch == {k \in pass.due : k[1] = d}
           n     == Len(lanes[d])
<1>1. lanes[d] \in Seq(SUBSET Alerts) /\ n \in Nat /\ DOMAIN lanes[d] = 1..n
    BY LenProperties DEF PlacesInv, SchedulerTypes
<1>2. batch \subseteq Alerts
    BY PassShape DEF PlacesInv, HandOut
<1>3. lanes'[d] = IF batch = {} THEN lanes[d] ELSE Append(lanes[d], batch)
    BY DEF HandOut
<1> HIDE DEF batch, n
<1>4. CASE batch = {}
    BY <1>1, <1>3, <1>4 DEF batch, n
<1>5. CASE batch # {}
    <2>1. /\ lanes'[d] \in Seq(SUBSET Alerts) /\ Len(lanes'[d]) = n + 1
          /\ \A i \in 1..n : lanes'[d][i] = lanes[d][i]
          /\ lanes'[d][n + 1] = batch
        BY <1>1, <1>2, <1>3, <1>5, AppendProperties DEF n
    <2>2. DOMAIN lanes'[d] = 1..n + 1
        BY <2>1, LenProperties
    <2> QED
        BY <1>1, <1>5, <2>1, <2>2 DEF batch, n
<1> QED
    BY <1>4, <1>5

\* A delivery that was found is put into one lane, once.
LEMMA HandOutKeeps ==
    ASSUME PlacesInv, HandOut
    PROVE  PlacesInv'
<1>1. /\ pass \in Passes /\ pass # NoPass /\ pass.due \subseteq Alerts
      /\ pass.due \cap inFlight = {} /\ pass' = NoPass
      /\ inFlight' = inFlight \cup pass.due
      /\ UNCHANGED <<storeVars, jobs, mishaps, shown, worst>>
    BY PassShape DEF PlacesInv, PassFindsNew, HandOut
<1>2. StoreTypes' /\ AttemptsLeft' /\ PassFindsNew'
    BY <1>1 DEF PlacesInv, StoreTypes, AttemptsLeft, PassFindsNew, storeVars
<1>3. SchedulerTypes'
    <2>1. lanes' \in [Devices -> Seq(SUBSET Alerts)]
        BY HandOutAppends DEF HandOut
    <2> QED
        BY <1>1, <2>1 DEF PlacesInv, SchedulerTypes
<1>4. \A k \in Alerts : Queued(k)' <=> Queued(k) \/ k \in pass.due
    <2> SUFFICES ASSUME NEW k \in Alerts PROVE Queued(k)' <=> Queued(k) \/ k \in pass.due
        OBVIOUS
    <2> DEFINE d == k[1]
               n == Len(lanes[d])
    <2>1. d \in Devices
        BY AlertParts
    <2>2. k \in pass.due <=> k \in {l \in pass.due : l[1] = d}
        OBVIOUS
    <2> HIDE DEF d
    <2>3. Queued(k) <=> \E i \in 1..n : k \in lanes[d][i]
        BY <2>1, HandOutAppends DEF Queued, d
    <2>4. CASE {l \in pass.due : l[1] = d} = {}
        BY <2>1, <2>2, <2>4, HandOutAppends DEF Queued, d
    <2>5. CASE {l \in pass.due : l[1] = d} # {}
        <3>1. /\ n \in Nat /\ DOMAIN lanes'[d] = 1..n + 1
              /\ \A i \in 1..n : lanes'[d][i] = lanes[d][i]
              /\ lanes'[d][n + 1] = {l \in pass.due : l[1] = d}
            BY <2>1, <2>5, HandOutAppends
        <3>2. Queued(k)' <=> \E i \in 1..n + 1 : k \in lanes'[d][i]
            BY <3>1 DEF Queued, d
        <3>3. \A i : i \in 1..n + 1 <=> i \in 1..n \/ i = n + 1
            BY <3>1
        <3> QED
            BY <2>2, <2>3, <3>1, <3>2, <3>3
    <2> QED
        BY <2>4, <2>5
<1>5. \A k \in pass.due : jobs[k] = "idle" /\ ~Queued(k)
    BY <1>1 DEF PlacesInv, OnePlace
<1>6. OnePlace'
    <2>1. \A k \in Alerts : k \in inFlight' <=> jobs'[k] # "idle" \/ Queued(k)'
        BY <1>1, <1>4 DEF PlacesInv, OnePlace
    <2>2. ASSUME NEW d \in Devices, NEW i \in DOMAIN lanes'[d], NEW k \in lanes'[d][i]
          PROVE  k[1] = d /\ jobs'[k] = "idle"
        BY <1>1, <1>5, HandOutAppends DEF PlacesInv, OnePlace
    <2>3. ASSUME NEW d \in Devices, NEW i \in DOMAIN lanes'[d], NEW j \in DOMAIN lanes'[d],
                 i # j, NEW k \in lanes'[d][i], k \in lanes'[d][j]
          PROVE  FALSE
        <3>1. i \in DOMAIN lanes[d] /\ j \in DOMAIN lanes[d]
              => ~(k \in lanes[d][i] /\ k \in lanes[d][j])
            BY <2>3 DEF PlacesInv, OnePlace
        <3>2. \A m \in DOMAIN lanes[d] : k \in lanes[d][m] => k \notin pass.due
            BY <1>5 DEF PlacesInv, OnePlace, Queued
        <3>3. \A m \in DOMAIN lanes'[d] :
                 \/ m \in DOMAIN lanes[d] /\ lanes'[d][m] = lanes[d][m]
                 \/ m = Len(lanes[d]) + 1 /\ lanes'[d][m] \subseteq pass.due
            <4>1. CASE {l \in pass.due : l[1] = d} = {}
                BY <4>1, HandOutAppends
            <4>2. CASE {l \in pass.due : l[1] = d} # {}
                <5>1. /\ Len(lanes[d]) \in Nat /\ DOMAIN lanes[d] = 1..Len(lanes[d])
                      /\ DOMAIN lanes'[d] = 1..Len(lanes[d]) + 1
                      /\ \A m \in 1..Len(lanes[d]) : lanes'[d][m] = lanes[d][m]
                      /\ lanes'[d][Len(lanes[d]) + 1] \subseteq pass.due
                    BY <4>2, HandOutAppends
                <5> QED
                    BY <5>1
            <4> QED
                BY <4>1, <4>2
        <3> QED
            BY <2>3, <3>1, <3>2, <3>3
    <2> QED
        BY <2>1, <2>2, <2>3 DEF OnePlace
<1> QED
    BY <1>2, <1>3, <1>6 DEF PlacesInv

\* The next batch of a lane moves the others up.
LEMMA StartBatchTakes ==
    ASSUME PlacesInv, NEW d \in Devices, StartBatch(d)
    PROVE  LET n == Len(lanes[d]) IN
           /\ n \in Nat \ {0} /\ DOMAIN lanes[d] = 1..n
           /\ Head(lanes[d]) = lanes[d][1] /\ lanes[d][1] \subseteq Alerts
           /\ lanes' \in [Devices -> Seq(SUBSET Alerts)]
           /\ DOMAIN lanes'[d] = 1..n - 1
           /\ \A i \in 1..n - 1 : lanes'[d][i] = lanes[d][i + 1]
           /\ \A o \in Devices : o # d => lanes'[o] = lanes[o]
<1> DEFINE n == Len(lanes[d])
<1>1. /\ lanes \in [Devices -> Seq(SUBSET Alerts)] /\ lanes[d] # <<>>
      /\ lanes' = [lanes EXCEPT ![d] = Tail(lanes[d])]
    BY DEF PlacesInv, SchedulerTypes, StartBatch
<1>2. lanes[d] \in Seq(SUBSET Alerts) /\ n \in Nat \ {0} /\ DOMAIN lanes[d] = 1..n
    BY <1>1, LenProperties, EmptySeq
<1>3. /\ Tail(lanes[d]) \in Seq(SUBSET Alerts) /\ Len(Tail(lanes[d])) = n - 1
      /\ \A i \in 1..n - 1 : Tail(lanes[d])[i] = lanes[d][i + 1]
    BY <1>1, <1>2, HeadTailProperties
<1>4. DOMAIN Tail(lanes[d]) = 1..n - 1
    BY <1>3, LenProperties
<1>5. Head(lanes[d]) = lanes[d][1] /\ lanes[d][1] \in SUBSET Alerts
    BY <1>2, ElementOfSeq
<1> QED
    BY <1>1, <1>2, <1>3, <1>4, <1>5

\* A batch that begins leaves its lane for the dispatches, or altogether.
LEMMA StartBatchKeeps ==
    ASSUME PlacesInv, NEW d \in Devices, StartBatch(d)
    PROVE  PlacesInv'
<1> DEFINE batch  == lanes[d][1]
           wanted == {k \in batch : StillWanted(k)}
<1>1. /\ jobs' = [k \in Alerts |-> IF k \in wanted THEN "calling" ELSE jobs[k]]
      /\ inFlight' = inFlight \ (batch \ wanted)
      /\ UNCHANGED <<storeVars, pass, mishaps, shown, worst>>
    BY StartBatchTakes DEF StartBatch
<1>2. \A k \in wanted : k \in batch /\ Wanted(k)
    BY DEF StillWanted
<1>3. batch \subseteq Alerts /\ wanted \subseteq batch
    BY StartBatchTakes
<1> HIDE DEF wanted
<1>4. SchedulerTypes'
    BY <1>1, <1>3, StartBatchTakes DEF PlacesInv, SchedulerTypes
<1>5. StoreTypes'
    BY <1>1 DEF PlacesInv, StoreTypes, storeVars
<1>6. AttemptsLeft'
    BY <1>1, <1>2 DEF PlacesInv, AttemptsLeft, Wanted, Reserved, storeVars
<1>7. PassFindsNew'
    BY <1>1 DEF PlacesInv, PassFindsNew
<1>8. \A k \in Alerts : /\ Queued(k)' => Queued(k) /\ k \notin batch
                        /\ Queued(k) => Queued(k)' \/ k \in batch
                        /\ k \in batch => Queued(k)
    <2> SUFFICES ASSUME NEW k \in Alerts
                 PROVE  /\ Queued(k)' => Queued(k) /\ k \notin batch
                        /\ Queued(k) => Queued(k)' \/ k \in batch
                        /\ k \in batch => Queued(k)
        OBVIOUS
    <2>1. k[1] \in Devices
        BY AlertParts
    <2>2. CASE k[1] # d
        <3>1. k \notin batch
            BY <2>2, StartBatchTakes DEF PlacesInv, OnePlace
        <3> QED
            BY <2>1, <2>2, <3>1, StartBatchTakes DEF Queued
    <2>3. CASE k[1] = d
        <3>1. k \in batch => Queued(k)
            BY <2>3, StartBatchTakes DEF Queued
        <3>2. ASSUME Queued(k)' PROVE Queued(k) /\ k \notin batch
            <4>1. PICK i \in DOMAIN lanes'[d] : k \in lanes'[d][i]
                BY <2>3, <3>2 DEF Queued
            <4>2. i + 1 \in DOMAIN lanes[d] /\ i + 1 # 1 /\ 1 \in DOMAIN lanes[d]
                  /\ k \in lanes[d][i + 1]
                BY <4>1, StartBatchTakes
            <4> QED
                BY <2>3, <4>2 DEF Queued, PlacesInv, OnePlace
        <3>3. ASSUME Queued(k), k \notin batch PROVE Queued(k)'
            <4>1. PICK i \in DOMAIN lanes[d] : k \in lanes[d][i]
                BY <2>3, <3>3 DEF Queued
            <4>2. i - 1 \in DOMAIN lanes'[d] /\ k \in lanes'[d][i - 1]
                <5>1. i # 1 /\ i \in 1..Len(lanes[d])
                    BY <3>3, <4>1, StartBatchTakes
                <5>2. i - 1 \in 1..Len(lanes[d]) - 1 /\ (i - 1) + 1 = i
                    BY <5>1, StartBatchTakes
                <5> QED
                    BY <4>1, <5>2, StartBatchTakes
            <4> QED
                BY <2>3, <4>2 DEF Queued
        <3> QED
            BY <3>1, <3>2, <3>3
    <2> QED
        BY <2>2, <2>3
<1>9. OnePlace'
    <2>1. ASSUME NEW k \in Alerts
          PROVE  k \in inFlight' <=> jobs'[k] # "idle" \/ Queued(k)'
        <3>1. jobs'[k] = IF k \in wanted THEN "calling" ELSE jobs[k]
            BY <1>1
        <3>2. k \in inFlight' <=> k \in inFlight /\ ~(k \in batch /\ k \notin wanted)
            BY <1>1
        <3>3. k \in inFlight <=> jobs[k] # "idle" \/ Queued(k)
            BY DEF PlacesInv, OnePlace
        <3>4. k \in batch => jobs[k] = "idle"
            BY StartBatchTakes DEF PlacesInv, OnePlace
        <3> QED
            BY <1>3, <1>8, <3>1, <3>2, <3>3, <3>4
    <2>2. ASSUME NEW o \in Devices, NEW i \in DOMAIN lanes'[o], NEW k \in lanes'[o][i]
          PROVE  k[1] = o /\ jobs'[k] = "idle"
        <3>1. PICK j \in DOMAIN lanes[o] : k \in lanes[o][j]
            <4>1. CASE o # d
                BY <2>2, <4>1, StartBatchTakes
            <4>2. CASE o = d
                <5>1. i + 1 \in DOMAIN lanes[d] /\ k \in lanes[d][i + 1]
                    BY <2>2, <4>2, StartBatchTakes
                <5> QED
                    BY <4>2, <5>1
            <4> QED
                BY <4>1, <4>2
        <3>2. k[1] = o /\ jobs[k] = "idle" /\ k \in Alerts
            BY <3>1, ElementOfSeq, LenProperties DEF PlacesInv, OnePlace, SchedulerTypes
        <3>3. Queued(k)'
            BY <2>2, <3>2 DEF Queued
        <3> QED
            BY <1>1, <1>2, <1>8, <3>2, <3>3
    <2>3. ASSUME NEW o \in Devices, NEW i \in DOMAIN lanes'[o], NEW j \in DOMAIN lanes'[o], i # j
          PROVE  lanes'[o][i] \cap lanes'[o][j] = {}
        <3>1. CASE o # d
            BY <2>3, <3>1, StartBatchTakes DEF PlacesInv, OnePlace
        <3>2. CASE o = d
            <4>1. \A m \in DOMAIN lanes'[d] : /\ m \in Int /\ m + 1 \in DOMAIN lanes[d]
                                              /\ lanes'[d][m] = lanes[d][m + 1]
                BY StartBatchTakes
            <4>2. i + 1 \in DOMAIN lanes[d] /\ j + 1 \in DOMAIN lanes[d] /\ i + 1 # j + 1
                  /\ lanes'[d][i] = lanes[d][i + 1] /\ lanes'[d][j] = lanes[d][j + 1]
                BY <2>3, <3>2, <4>1
            <4> QED
                BY <3>2, <4>2 DEF PlacesInv, OnePlace
        <3> QED
            BY <3>1, <3>2
    <2> QED
        BY <2>1, <2>2, <2>3 DEF OnePlace
<1> QED
    BY <1>4, <1>5, <1>6, <1>7, <1>9 DEF PlacesInv

-----------------------------------------------------------------------------
\* What waits in a lane is idle.
LEMMA LaneContents ==
    ASSUME PlacesInv, NEW d \in Devices, NEW i \in DOMAIN lanes[d], NEW o \in lanes[d][i]
    PROVE  o \in Alerts /\ o[1] = d /\ jobs[o] = "idle" /\ Queued(o)
<1>1. lanes[d] \in Seq(SUBSET Alerts) /\ DOMAIN lanes[d] = 1..Len(lanes[d])
    BY LenProperties DEF PlacesInv, SchedulerTypes
<1>2. lanes[d][i] \in SUBSET Alerts
    BY <1>1, ElementOfSeq
<1> QED
    BY <1>2 DEF PlacesInv, OnePlace, Queued

\* A dispatch that goes on is still the one its delivery has.
LEMMA MoveKeeps ==
    ASSUME PlacesInv, NEW k \in Alerts, jobs[k] # "idle",
           NEW step \in {"completing", "failing"}, MoveTo(k, step),
           UNCHANGED <<pass, lanes>>, shown' \in [Devices \X Events -> Nat],
           StoreTypes', AttemptsKept
    PROVE  PlacesInv'
<1>1. jobs' = [jobs EXCEPT ![k] = step] /\ UNCHANGED inFlight
    BY DEF MoveTo
<1>2. SchedulerTypes'
    BY <1>1 DEF PlacesInv, SchedulerTypes
<1>3. OnePlace'
    <2>1. \A o \in Alerts : jobs'[o] = IF o = k THEN step ELSE jobs[o]
        BY <1>1 DEF PlacesInv, SchedulerTypes
    <2>2. \A o \in Alerts : Queued(o)' <=> Queued(o)
        BY DEF Queued
    <2>3. \A o \in Alerts : o \in inFlight' <=> jobs'[o] # "idle" \/ Queued(o)'
        BY <1>1, <2>1, <2>2 DEF PlacesInv, OnePlace
    <2>4. ASSUME NEW d \in Devices, NEW i \in DOMAIN lanes[d], NEW o \in lanes[d][i]
          PROVE  o[1] = d /\ jobs'[o] = "idle"
        BY <2>1, LaneContents
    <2> QED
        BY <2>3, <2>4 DEF PlacesInv, OnePlace
<1>4. PassFindsNew'
    BY <1>1 DEF PlacesInv, PassFindsNew
<1>5. AttemptsLeft'
    BY <1>1 DEF PlacesInv, SchedulerTypes, AttemptsLeft, AttemptsKept
<1> QED
    BY <1>2, <1>3, <1>4, <1>5 DEF PlacesInv

\* A dispatch that is over leaves the books; its delivery alone may change.
LEMMA LeaveKeeps ==
    ASSUME PlacesInv, NEW k \in Alerts, jobs[k] # "idle", Leave(k),
           UNCHANGED <<pass, lanes, shown>>, StoreTypes',
           \A o \in Alerts : o # k => ledger'[o] = ledger[o]
    PROVE  PlacesInv'
<1>1. jobs' = [jobs EXCEPT ![k] = "idle"] /\ inFlight' = inFlight \ {k}
    BY DEF Leave
<1>2. SchedulerTypes'
    BY <1>1 DEF PlacesInv, SchedulerTypes
<1>3. ~Queued(k)
    BY AlertParts DEF PlacesInv, OnePlace, Queued
<1>4. OnePlace'
    <2>1. \A o \in Alerts : jobs'[o] = IF o = k THEN "idle" ELSE jobs[o]
        BY <1>1 DEF PlacesInv, SchedulerTypes
    <2>2. \A o \in Alerts : Queued(o)' <=> Queued(o)
        BY DEF Queued
    <2>3. \A o \in Alerts : o \in inFlight' <=> jobs'[o] # "idle" \/ Queued(o)'
        BY <1>1, <1>3, <2>1, <2>2 DEF PlacesInv, OnePlace
    <2>4. ASSUME NEW d \in Devices, NEW i \in DOMAIN lanes[d], NEW o \in lanes[d][i]
          PROVE  o[1] = d /\ jobs'[o] = "idle"
        BY <2>1, LaneContents
    <2> QED
        BY <2>3, <2>4 DEF PlacesInv, OnePlace
<1>5. PassFindsNew'
    BY <1>1 DEF PlacesInv, PassFindsNew
<1>6. AttemptsLeft'
    BY <1>1 DEF PlacesInv, SchedulerTypes, AttemptsLeft
<1> QED
    BY <1>2, <1>4, <1>5, <1>6 DEF PlacesInv

\* The push service answers, one way or the other.
LEMMA AnswerKeeps ==
    ASSUME PlacesInv, NEW k \in Alerts, Answer(k)
    PROVE  PlacesInv'
<1>1. StoreTypes' /\ AttemptsKept
    BY DEF PlacesInv, StoreTypes, AttemptsKept, Answer, storeVars
<1>2. shown' \in [Devices \X Events -> Nat]
    <2>1. <<k[1], k[2]>> \in Devices \X Events /\ shown \in [Devices \X Events -> Nat]
        BY AlertParts DEF PlacesInv, SchedulerTypes
    <2>2. shown[<<k[1], k[2]>>] + 1 \in Nat
        BY <2>1
    <2> QED
        BY <2>1, <2>2 DEF Answer
<1> QED
    BY <1>1, <1>2, MoveKeeps DEF Answer

\* A delivery that is marked, or whose mark cannot be saved.
LEMMA CompleteKeeps ==
    ASSUME PlacesInv, NEW k \in Alerts, Complete(k)
    PROVE  PlacesInv'
<1>1. CASE SaveFails /\ MoveTo(k, "failing")
    <2>1. StoreTypes' /\ AttemptsKept
        BY <1>1 DEF PlacesInv, StoreTypes, AttemptsKept, SaveFails, Mishap, storeVars, Complete
    <2> QED
        BY <1>1, <2>1, MoveKeeps DEF Complete, PlacesInv, SchedulerTypes
<1>2. CASE ledger' = Delivered(k) /\ SaveOk /\ Leave(k)
    <2>1. /\ Delivered(k) \in [Alerts -> Delivery \cup {NoDelivery}]
          /\ \A o \in Alerts : o # k => Delivered(k)[o] = ledger[o]
        BY DeliveryShape DEF PlacesInv, StoreTypes, Delivered, Delivery
    <2>2. StoreTypes'
        BY <1>2, <2>1 DEF PlacesInv, StoreTypes, SaveOk, Complete
    <2> QED
        BY <1>2, <2>1, <2>2, LeaveKeeps DEF Complete
<1> QED
    BY <1>1, <1>2 DEF Complete

\* A failure takes one of the attempts that are left.
LEMMA RecordFailureKeeps ==
    ASSUME PlacesInv, NEW k \in Alerts, RecordFailure(k)
    PROVE  PlacesInv'
<1>1. jobs[k] # "idle" /\ Leave(k) /\ UNCHANGED <<event, dismissed, pass, lanes, shown, worst>>
    BY DEF RecordFailure
<1>2. CASE SaveFails
    <2>1. StoreTypes' /\ UNCHANGED ledger
        BY <1>1, <1>2 DEF PlacesInv, StoreTypes, SaveFails, Mishap, storeVars
    <2> QED
        BY <1>1, <2>1, LeaveKeeps
<1>3. CASE ledger' = Failed(k) /\ SaveOk
    <2>1. Failed(k) \in [Alerts -> Delivery \cup {NoDelivery}]
        <3>1. CASE ledger[k].state # "reserved"
            BY <3>1 DEF Failed, PlacesInv, StoreTypes
        <3>2. CASE ledger[k].state = "reserved"
            <4>1. ledger[k] \in Delivery /\ ledger[k].attempts < MaxAttempts
                BY <1>1, <3>2, DeliveryShape DEF PlacesInv, AttemptsLeft
            <4>2. ledger[k].attempts + 1 \in 0..MaxAttempts
                BY <4>1, AttentionAssumption DEF Delivery
            <4>3. ledger \in [Alerts -> Delivery \cup {NoDelivery}]
                BY DEF PlacesInv, StoreTypes
            <4> DEFINE tried == [ledger EXCEPT ![k].attempts = @ + 1]
            <4>4. /\ tried \in [Alerts -> Delivery \cup {NoDelivery}]
                  /\ tried[k] \in Delivery
                BY <4>1, <4>2, <4>3 DEF Delivery
            <4>5. Failed(k) = [tried EXCEPT ![k].later = ledger[k].attempts + 1 < MaxAttempts]
                BY <3>2 DEF Failed
            <4> HIDE DEF tried
            <4>6. (ledger[k].attempts + 1 < MaxAttempts) \in BOOLEAN
                OBVIOUS
            <4>7. \A later \in BOOLEAN : [tried EXCEPT ![k].later = later]
                                            \in [Alerts -> Delivery \cup {NoDelivery}]
                BY <4>4 DEF Delivery
            <4> QED
                BY <4>5, <4>6, <4>7
        <3> QED
            BY <3>1, <3>2
    <2>2. \A o \in Alerts : o # k => Failed(k)[o] = ledger[o]
        BY DEF Failed, PlacesInv, StoreTypes
    <2>3. StoreTypes'
        BY <1>1, <1>3, <2>1 DEF PlacesInv, StoreTypes, SaveOk
    <2> QED
        BY <1>1, <1>3, <2>2, <2>3, LeaveKeeps
<1> QED
    BY <1>2, <1>3 DEF RecordFailure

\* Every step keeps a delivery in one place.
LEMMA PlacesStep == PlacesInv /\ [AttentionNext]_attentionVars => PlacesInv'
<1> SUFFICES ASSUME PlacesInv, [AttentionNext]_attentionVars PROVE PlacesInv'
    OBVIOUS
<1>1. CASE UNCHANGED attentionVars
    BY <1>1 DEF attentionVars, storeVars, laneVars, PlacesInv, StoreTypes, SchedulerTypes,
                OnePlace, Queued, PassFindsNew, AttemptsLeft
<1>2. CASE \E e \in Events : \/ \E kind \in KindsRaised : Raise(e, kind)
                             \/ Escalate(e) \/ Ripen(e) \/ Resolve(e) \/ Prune(e)
                             \/ \E d \in Devices : Dismiss(d, e)
    BY <1>2, RaiseKeeps, EscalateKeeps, RipenKeeps, ResolveKeeps, PruneKeeps, DismissKeeps
<1>3. CASE Crash
    BY <1>3, CrashKeeps
<1>4. CASE PassStep
    BY <1>4, StartPassKeeps, SupersedeKeeps, CollectKeeps, HandOutKeeps, ReserveKeeps
    DEF PassStep
<1>5. ASSUME NEW d \in Devices, LaneStep(d) PROVE PlacesInv'
    BY <1>5, StartBatchKeeps, ElapseKeeps, AnswerKeeps, CompleteKeeps, RecordFailureKeeps
    DEF LaneStep
<1> QED
    BY <1>1, <1>2, <1>3, <1>4, <1>5 DEF AttentionNext

\* The invariant holds in every reachable state.
LEMMA PlacesHold == AttentionSpec => []PlacesInv
BY PlacesInit, PlacesStep, PTL DEF AttentionSpec

\* The store and the scheduler keep their shape, and a delivery which the
\* scheduler holds in flight waits in one batch or is dispatched once, never both
\* (inFlight, handToDevice and the lanes of attention-reminder-scheduler.ts).
THEOREM DeliveriesHaveOnePlace == AttentionSpec => []AttentionTypeOK
<1>1. ASSUME PlacesInv PROVE AttentionTypeOK
    <2> USE <1>1
    <2>1. \A k \in Alerts : k \in UNION UNION {Batches(d) : d \in Devices} <=> Queued(k)
        <3> SUFFICES ASSUME NEW k \in Alerts
                     PROVE  k \in UNION UNION {Batches(d) : d \in Devices} <=> Queued(k)
            OBVIOUS
        <3>1. k \in UNION UNION {Batches(d) : d \in Devices}
              <=> \E d \in Devices : \E i \in DOMAIN lanes[d] : k \in lanes[d][i]
            BY DEF Batches
        <3> QED
            BY <3>1, AlertParts, LaneContents DEF Queued
    <2>2. UNION UNION {Batches(d) : d \in Devices} \subseteq Alerts
        BY LaneContents DEF Batches
    <2>3. inFlight = Dispatching \cup UNION UNION {Batches(d) : d \in Devices}
        BY <2>1, <2>2 DEF PlacesInv, OnePlace, SchedulerTypes, Dispatching
    <2>4. \A d \in Devices : \A i \in DOMAIN lanes[d] : lanes[d][i] \cap Dispatching = {}
        BY LaneContents DEF Dispatching
    <2> QED
        BY <2>3, <2>4 DEF PlacesInv, OnePlace, StoreTypes, SchedulerTypes, AttentionTypeOK
<1> QED
    BY <1>1, PlacesHold, PTL

\* A dispatch begins only in StartBatch, which reads the store again.
LEMMA DispatchesAreWanted ==
    ASSUME PlacesInv, [AttentionNext]_attentionVars,
           NEW k \in Alerts, jobs[k] = "idle", jobs'[k] # "idle"
    PROVE  Wanted(k)
<1>1. \A d \in Devices : StartBatch(d) => Wanted(k)
    BY StartBatchTakes DEF StartBatch, StillWanted
<1>2. \A o \in Alerts : \A step : jobs[o] # "idle" => ~MoveTo(o, step) /\ ~Leave(o)
    BY DEF PlacesInv, SchedulerTypes, MoveTo, Leave
<1>3. \A d \in Devices : LaneStep(d) => Wanted(k)
    BY <1>1, <1>2 DEF LaneStep, Elapse, Others, laneVars, Answer, Complete, RecordFailure
<1>4. ~Crash
    BY DEF Crash
<1>5. ~PassStep
    BY DEF PassStep, StartPass, Reserve, Supersede, Collect, HandOut, laneVars
<1>6. ASSUME NEW e \in Events
      PROVE  /\ \A kind \in KindsRaised : ~Raise(e, kind)
             /\ ~Escalate(e) /\ ~Ripen(e) /\ ~Resolve(e) /\ ~Prune(e)
             /\ \A d \in Devices : ~Dismiss(d, e)
    BY DEF Raise, Escalate, Ripen, Resolve, Prune, Dismiss, Others, laneVars
<1>7. ~UNCHANGED attentionVars
    BY DEF attentionVars, laneVars
<1> QED
    BY <1>3, <1>4, <1>5, <1>6, <1>7 DEF AttentionNext

\* No dispatch begins for an event that was answered, that its device dismissed,
\* or for a stage that was superseded while the lane was held up: dispatch of
\* attention-reminder-scheduler.ts reads the store again.
THEOREM AnsweredIsNotAlerted == AttentionSpec => NoAlertAfterAnswer
<1>1. PlacesInv /\ [AttentionNext]_attentionVars =>
        [\A k \in Alerts : jobs[k] = "idle" /\ jobs'[k] # "idle" =>
              /\ ledger[k].state = "reserved"
              /\ Scheduled(k[2]) /\ <<k[1], k[2]>> \notin dismissed]_attentionVars
    BY DispatchesAreWanted DEF Wanted, Reserved
<1> QED
    BY <1>1, PlacesHold, PTL DEF AttentionSpec, NoAlertAfterAnswer

-----------------------------------------------------------------------------
\* The stages that are left are finitely many.
LEMMA StagesCounted ==
    ASSUME NEW S \in SUBSET Stages
    PROVE  /\ IsFiniteSet(S) /\ Cardinality(S) \in Nat
           /\ \A T \in SUBSET S : Cardinality(T) <= Cardinality(S)
           /\ \A s \in Stages : Cardinality(S \cup {s}) <= Cardinality(S) + 1
           /\ \A s \in S : Cardinality(S \ {s}) = Cardinality(S) - 1
<1>1. IsFiniteSet(Stages)
    BY AttentionAssumption, FS_Interval DEF Stages
<1>2. IsFiniteSet(S)
    BY <1>1, FS_Subset
<1>3. Cardinality(S) \in Nat
    BY <1>2, FS_CardinalityType
<1> QED
    BY <1>2, <1>3, FS_Subset, FS_AddElement, FS_RemoveElement

\* The account of an event and a device in numbers.
LEMMA BudgetTypes ==
    ASSUME PlacesInv, NEW d \in Devices, NEW e \in Events
    PROVE  /\ Left(d, e) \subseteq Stages /\ Cardinality(Left(d, e)) \in Nat
           /\ shown[<<d, e>>] \in Nat /\ worst[e] \in Nat /\ mishaps \in Nat
<1>1. Left(d, e) \in SUBSET Stages
    BY DEF Left
<1>2. Cardinality(Left(d, e)) \in Nat
    BY <1>1, StagesCounted
<1>3. <<d, e>> \in Devices \X Events
    OBVIOUS
<1> QED
    BY <1>1, <1>2, <1>3 DEF PlacesInv, StoreTypes, SchedulerTypes, Stages

\* Nothing new is left: the account stays in order.
LEMMA BudgetKept ==
    ASSUME PlacesInv, PlacesInv', NEW d \in Devices, NEW e \in Events, Budget(d, e),
           Left(d, e)' \subseteq Left(d, e), shown'[<<d, e>>] = shown[<<d, e>>],
           worst'[e] >= worst[e], mishaps' >= mishaps
    PROVE  Budget(d, e)'
<1>1. Cardinality(Left(d, e)') <= Cardinality(Left(d, e))
    BY BudgetTypes, StagesCounted
<1>2. /\ Cardinality(Left(d, e)) \in Nat
      /\ shown[<<d, e>>] \in Nat /\ worst[e] \in Nat /\ mishaps \in Nat
    BY BudgetTypes
<1>3. Left(d, e)' \in SUBSET Stages
    BY BudgetTypes
<1>4. Cardinality(Left(d, e)') \in Nat
    BY <1>3, StagesCounted
<1>5. worst'[e] \in Nat /\ mishaps' \in Nat
    BY DEF PlacesInv, StoreTypes, Stages
<1> QED
    BY <1>1, <1>2, <1>4, <1>5 DEF Budget

\* One stage more is left, and a stage or a mishap more is granted.
LEMMA BudgetGrows ==
    ASSUME PlacesInv, PlacesInv', NEW d \in Devices, NEW e \in Events, Budget(d, e),
           NEW s \in Stages, Left(d, e)' \subseteq Left(d, e) \cup {s},
           shown'[<<d, e>>] = shown[<<d, e>>],
           worst'[e] + mishaps' >= worst[e] + mishaps + 1
    PROVE  Budget(d, e)'
<1>1. Left(d, e) \in SUBSET Stages /\ Left(d, e) \cup {s} \in SUBSET Stages
    BY BudgetTypes
<1>2. /\ Cardinality(Left(d, e)') <= Cardinality(Left(d, e) \cup {s})
      /\ Cardinality(Left(d, e) \cup {s}) <= Cardinality(Left(d, e)) + 1
      /\ Cardinality(Left(d, e) \cup {s}) \in Nat
      /\ Cardinality(Left(d, e)') \in Nat
    <2>1. Left(d, e)' \in SUBSET (Left(d, e) \cup {s}) /\ Left(d, e)' \in SUBSET Stages
        BY <1>1
    <2> QED
        BY <1>1, <2>1, StagesCounted
<1>3. /\ Cardinality(Left(d, e)) \in Nat
      /\ shown[<<d, e>>] \in Nat /\ worst[e] \in Nat /\ mishaps \in Nat
    BY BudgetTypes
<1>5. worst'[e] \in Nat /\ mishaps' \in Nat
    BY DEF PlacesInv, StoreTypes, Stages
<1> QED
    BY <1>2, <1>3, <1>5 DEF Budget

\* Every account but that of the events in E is as it was, when their records
\* and dispatches are.
AccountsKept(E) ==
    \A d \in Devices, e \in Events \ E : event'[e] # NoEvent =>
        /\ event[e] # NoEvent
        /\ Left(d, e)' \subseteq Left(d, e) /\ shown'[<<d, e>>] = shown[<<d, e>>]
        /\ worst'[e] >= worst[e]

\* A step which no event notices.
LEMMA AccountsKeepBudgets ==
    ASSUME PlacesInv, PlacesInv', AlertsLeft, NEW E, AccountsKept(E), mishaps' >= mishaps
    PROVE  \A d \in Devices, e \in Events \ E : event'[e] # NoEvent => Budget(d, e)'
BY BudgetKept DEF AccountsKept, AlertsLeft

-----------------------------------------------------------------------------
\* An event that is there has a kind, and stages it may be alerted at.
LEMMA AllowedShape ==
    ASSUME PlacesInv, NEW e \in Events, Has(e)
    PROVE  /\ event[e] \in Event /\ event[e] # NoEvent /\ event[e] # Gone
           /\ event[e].kind \in Kinds /\ event[e].stage \in Stages
           /\ worst[e] \in Stages /\ Allowed(e) \subseteq Stages
<1>1. event[e] \in Event
    BY EventShape DEF PlacesInv
<1>2. worst[e] \in Stages /\ 2 \in Stages
    BY AttentionAssumption DEF PlacesInv, StoreTypes, Stages
<1>3. event[e] # NoEvent /\ event[e] # Gone
    BY EventShape DEF PlacesInv
<1> QED
    BY <1>1, <1>2, <1>3, AttentionAssumption DEF Event, Allowed, Stages

\* What others do to the store keeps lanes and dispatches as they were.
LEMMA OthersApart ==
    ASSUME StagesApart, Others
    PROVE  StagesApart'
BY DEF StagesApart, OneStage, Dispatching, Others, laneVars

\* The first stages of a new event are all it has.
LEMMA RaiseAccounts ==
    ASSUME PlacesInv, PlacesInv', AlertsInv, NEW e \in Events, NEW kind \in KindsRaised,
           Raise(e, kind)
    PROVE  AlertsInv'
<1>1. /\ event[e] = NoEvent /\ UNCHANGED <<ledger, worst, pass, jobs, shown, mishaps>>
      /\ event' = [event EXCEPT ![e] =
                     [state |-> IF kind = "news" THEN "resolved" ELSE "active",
                      kind |-> kind, stage |-> 1, ripe |-> kind # "update"]]
    BY DEF Raise, Others, laneVars
<1>2. /\ event'[e].kind = kind /\ event'[e].stage = 1 /\ Has(e)' /\ worst[e] = 1
      /\ \A o \in Events : o # e => event'[o] = event[o]
      /\ \A k \in Alerts : k[2] = e => jobs[k] = "idle" /\ ledger[k] = NoDelivery
      /\ \A d \in Devices : shown[<<d, e>>] = 0
    BY <1>1 DEF PlacesInv, StoreTypes, AlertsInv, RecordsFit, Has
<1>3. StagesApart'
    BY OthersApart DEF AlertsInv, Raise
<1>4. StagesAllowed'
    <2>1. \A k \in Alerts : k[2] \in Events
        BY AlertParts
    <2>2. pass # NoPass => pass.todo \subseteq Visits
        BY PassShape DEF PlacesInv
    <2>3. \A o \in Events : o # e => (Has(o)' <=> Has(o)) /\ Allowed(o)' = Allowed(o)
        BY <1>1, <1>2 DEF Has, Allowed
    <2>4. \A k \in Alerts : Has(k[2])' /\ ledger'[k] # NoDelivery => k[3] \in Allowed(k[2])'
        BY <1>1, <1>2, <2>1, <2>3 DEF AlertsInv, StagesAllowed
    <2>5. \A o \in Events : Has(o)' /\ event'[o].kind # "update" => event'[o].stage <= worst'[o]
        BY <1>1, <1>2, <2>3 DEF AlertsInv, StagesAllowed
    <2>6. pass' # NoPass => \A v \in pass'.todo :
             event'[v.event] # NoEvent /\ (Has(v.event)' => v.target \in Allowed(v.event)')
        BY <1>1, <1>2, <2>2, <2>3 DEF AlertsInv, StagesAllowed, Visits
    <2> QED
        BY <2>4, <2>5, <2>6 DEF StagesAllowed
<1>5. RecordsFit'
    <2>1. event'[e] # NoEvent
        BY <1>2 DEF Has, NoEvent
    <2>2. \A k \in Alerts : k[2] \in Events
        BY AlertParts
    <2>3. \A o \in Events : o # e => (Has(o)' <=> Has(o))
        BY <1>2 DEF Has
    <2> QED
        BY <1>1, <1>2, <2>1, <2>2, <2>3 DEF AlertsInv, RecordsFit
<1>6. AlertsLeft'
    <2>1. AccountsKept({e})
        <3> SUFFICES ASSUME NEW d \in Devices, NEW o \in Events, o # e, event'[o] # NoEvent
                     PROVE  /\ event[o] # NoEvent
                            /\ Left(d, o)' \subseteq Left(d, o)
                            /\ shown'[<<d, o>>] = shown[<<d, o>>] /\ worst'[o] >= worst[o]
            BY DEF AccountsKept
        <3>1. event'[o] = event[o] /\ worst[o] \in Nat
            BY <1>2 DEF PlacesInv, StoreTypes, Stages
        <3>2. (Has(o)' <=> Has(o)) /\ Allowed(o)' = Allowed(o)
            BY <1>1, <3>1 DEF Has, Allowed
        <3>3. Left(d, o)' = Left(d, o)
            BY <1>1, <3>2 DEF Left
        <3> QED
            BY <1>1, <3>1, <3>3
    <2>2. ASSUME NEW d \in Devices PROVE Budget(d, e)'
        <3> DEFINE first == IF kind = "update" THEN 2 ELSE 1
        <3>1. first \in Stages
            BY AttentionAssumption DEF Stages
        <3>2. Left(d, e)' \subseteq {} \cup {first}
            <4>1. Allowed(e)' = {first}
                BY <1>1, <1>2 DEF Allowed
            <4>2. \A s \in Stages : jobs'[<<d, e, s>>] # "calling"
                BY <1>1, <1>2, AlertParts
            <4> QED
                BY <4>1, <4>2 DEF Left
        <3> HIDE DEF first
        <3>3. Left(d, e)' \in SUBSET ({} \cup {first}) /\ {} \cup {first} \in SUBSET Stages
            BY <3>1, <3>2
        <3>4. Cardinality({} \cup {first}) <= Cardinality({}) + 1 /\ Cardinality({}) = 0
            BY <3>1, StagesCounted, FS_EmptySet
        <3>5. Cardinality(Left(d, e)') <= Cardinality({} \cup {first})
              /\ Cardinality(Left(d, e)') \in Nat /\ Cardinality({} \cup {first}) \in Nat
            <4>1. Left(d, e)' \in SUBSET Stages
                BY <3>3
            <4> QED
                BY <3>3, <4>1, StagesCounted
        <3>6. mishaps \in Nat
            BY BudgetTypes
        <3> QED
            BY <1>1, <1>2, <3>4, <3>5, <3>6 DEF Budget
    <2>3. mishaps' >= mishaps
        BY <1>1 DEF PlacesInv, StoreTypes
    <2>4. \A d \in Devices, o \in Events \ {e} : event'[o] # NoEvent => Budget(d, o)'
        BY <2>1, <2>3, AccountsKeepBudgets DEF AlertsInv
    <2> QED
        BY <2>2, <2>4 DEF AlertsLeft
<1> QED
    BY <1>3, <1>4, <1>5, <1>6 DEF AlertsInv

-----------------------------------------------------------------------------
\* No event appears, none comes back, and none changes its kind.
EventsKept ==
    \A e \in Events :
        /\ event'[e] = NoEvent <=> event[e] = NoEvent
        /\ Has(e)' => Has(e) /\ event'[e].kind = event[e].kind
        /\ worst'[e] >= worst[e]
        /\ event[e] = NoEvent => worst'[e] = worst[e]

\* One event was changed, and it was there.
LEMMA EventsKeptBut ==
    ASSUME PlacesInv, NEW e \in Events, Has(e), event[e] # NoEvent, event'[e] # NoEvent,
           event'[e].kind = event[e].kind, UNCHANGED worst,
           \A o \in Events : o # e => event'[o] = event[o]
    PROVE  EventsKept
<1>1. \A o \in Events : worst[o] \in Nat
    BY DEF PlacesInv, StoreTypes, Stages
<1> SUFFICES ASSUME NEW o \in Events
             PROVE  /\ event'[o] = NoEvent <=> event[o] = NoEvent
                    /\ Has(o)' => Has(o) /\ event'[o].kind = event[o].kind
                    /\ worst'[o] >= worst[o]
                    /\ event[o] = NoEvent => worst'[o] = worst[o]
    BY DEF EventsKept
<1>2. CASE o = e
    BY <1>1, <1>2
<1>3. CASE o # e
    BY <1>1, <1>3 DEF Has
<1> QED
    BY <1>2, <1>3

\* The stages an event may be alerted at stay allowed.
LEMMA AllowedGrows ==
    ASSUME PlacesInv, PlacesInv', EventsKept, NEW e \in Events, Has(e)'
    PROVE  /\ Allowed(e) \subseteq Allowed(e)'
           /\ worst'[e] = worst[e] => Allowed(e)' = Allowed(e)
<1>1. worst[e] \in Nat /\ worst'[e] \in Nat /\ worst'[e] >= worst[e]
    BY DEF PlacesInv, StoreTypes, Stages, EventsKept
<1> QED
    BY <1>1 DEF EventsKept, Allowed

\* What an alert is for stays allowed, when what is new is.
LEMMA AllowedKept ==
    ASSUME PlacesInv, PlacesInv', StagesAllowed, EventsKept,
           \A k \in Alerts : Has(k[2])' /\ ledger'[k] # NoDelivery =>
               ledger[k] # NoDelivery \/ k[3] \in Allowed(k[2])',
           \A e \in Events : Has(e)' /\ event'[e].kind # "update" =>
               event'[e].stage = event[e].stage \/ event'[e].stage <= worst'[e],
           pass' # NoPass => \A v \in pass'.todo :
               \/ pass # NoPass /\ v \in pass.todo
               \/ event'[v.event] # NoEvent /\ (Has(v.event)' => v.target \in Allowed(v.event)')
    PROVE  StagesAllowed'
<1>1. \A k \in Alerts : Has(k[2])' /\ ledger'[k] # NoDelivery => k[3] \in Allowed(k[2])'
    BY AlertParts, AllowedGrows DEF StagesAllowed, EventsKept
<1>2. ASSUME NEW e \in Events, Has(e)', event'[e].kind # "update"
      PROVE  event'[e].stage <= worst'[e]
    <2>1. worst[e] \in Nat /\ worst'[e] \in Nat /\ worst'[e] >= worst[e] /\ Has(e)
          /\ event[e].kind # "update"
        BY <1>2 DEF PlacesInv, StoreTypes, Stages, EventsKept
    <2>2. event[e].stage \in Nat /\ event[e].stage <= worst[e]
        BY <2>1, AllowedShape DEF StagesAllowed, Stages
    <2> QED
        BY <1>2, <2>1, <2>2
<1>3. ASSUME pass' # NoPass, NEW v \in pass'.todo
      PROVE  event'[v.event] # NoEvent /\ (Has(v.event)' => v.target \in Allowed(v.event)')
    <2> SUFFICES ASSUME pass # NoPass, v \in pass.todo
                 PROVE  event'[v.event] # NoEvent
                        /\ (Has(v.event)' => v.target \in Allowed(v.event)')
        BY <1>3
    <2>2. v.event \in Events
        BY PassShape DEF PlacesInv, Visits
    <2>3. event[v.event] # NoEvent /\ (Has(v.event) => v.target \in Allowed(v.event))
        BY DEF StagesAllowed
    <2> QED
        BY <2>2, <2>3, AllowedGrows DEF EventsKept
<1> QED
    BY <1>1, <1>2, <1>3 DEF StagesAllowed

\* What is known of an event that was not raised stays nothing.
LEMMA RecordsKept ==
    ASSUME PlacesInv, RecordsFit, EventsKept,
           \A k \in Alerts : event[k[2]] = NoEvent => jobs'[k] = "idle" /\ ledger'[k] = NoDelivery,
           \A d \in Devices, e \in Events :
               event[e] = NoEvent => shown'[<<d, e>>] = shown[<<d, e>>],
           \A k \in Alerts : jobs'[k] # "idle" /\ Has(k[2])' => ledger'[k] # NoDelivery
    PROVE  RecordsFit'
BY AlertParts DEF RecordsFit, EventsKept

\* The stages that are left were left, when no dispatch moves.
LEMMA LeftKept ==
    ASSUME PlacesInv, PlacesInv', UNCHANGED jobs, EventsKept,
           NEW e \in Events, NEW d \in Devices, worst'[e] = worst[e],
           Has(e)' => \A s \in Stages : ledger[<<d, e, s>>].state = "delivered"
                                          => ledger'[<<d, e, s>>].state = "delivered"
    PROVE  Left(d, e)' \subseteq Left(d, e)
<1>1. Has(e)' => Has(e) /\ Allowed(e)' = Allowed(e)
    BY AllowedGrows DEF EventsKept
<1> QED
    BY <1>1 DEF Left

\* The accounts are in order where nothing more is left.
LEMMA AllBudgetsKept ==
    ASSUME PlacesInv, PlacesInv', AlertsLeft, EventsKept, UNCHANGED shown, mishaps' >= mishaps,
           \A d \in Devices, e \in Events : event[e] # NoEvent => Left(d, e)' \subseteq Left(d, e)
    PROVE  AlertsLeft'
<1>1. AccountsKept({})
    BY DEF AccountsKept, EventsKept
<1> QED
    BY <1>1, AccountsKeepBudgets DEF AlertsLeft

\* A step that moves no dispatch, and neither escalates nor delivers.
LEMMA QuietStepKeepsAlerts ==
    ASSUME PlacesInv, PlacesInv', AlertsInv, EventsKept, StagesApart',
           UNCHANGED <<worst, jobs, shown>>, mishaps' >= mishaps,
           \A e \in Events : Has(e)' /\ event'[e].kind # "update" =>
               event'[e].stage = event[e].stage \/ event'[e].stage <= worst'[e],
           \A k \in Alerts :
               /\ Has(k[2])' /\ ledger[k].state = "delivered" => ledger'[k].state = "delivered"
               /\ Has(k[2])' /\ ledger[k] # NoDelivery => ledger'[k] # NoDelivery
               /\ ledger[k] = NoDelivery => \/ ledger'[k] = NoDelivery
                                            \/ event[k[2]] # NoEvent /\ k[3] \in Allowed(k[2])',
           pass' # NoPass => \A v \in pass'.todo :
               \/ pass # NoPass /\ v \in pass.todo
               \/ event'[v.event] # NoEvent /\ (Has(v.event)' => v.target \in Allowed(v.event)')
    PROVE  AlertsInv'
<1>1. StagesAllowed'
    BY AllowedKept, AlertParts DEF AlertsInv
<1>2. RecordsFit'
    <2>1. \A k \in Alerts : event[k[2]] = NoEvent => jobs'[k] = "idle" /\ ledger'[k] = NoDelivery
        BY AlertParts DEF AlertsInv, RecordsFit
    <2>2. \A k \in Alerts : jobs'[k] # "idle" /\ Has(k[2])' => ledger'[k] # NoDelivery
        BY AlertParts DEF AlertsInv, RecordsFit, EventsKept
    <2> QED
        BY <2>1, <2>2, RecordsKept DEF AlertsInv
<1>3. AlertsLeft'
    <2>1. ASSUME NEW d \in Devices, NEW e \in Events
          PROVE  Left(d, e)' \subseteq Left(d, e)
        <3>1. \A s \in Stages : <<d, e, s>> \in Alerts /\ <<d, e, s>>[2] = e
            BY AlertParts
        <3> QED
            BY <3>1, LeftKept
    <2> QED
        BY <2>1, AllBudgetsKept DEF AlertsInv
<1> QED
    BY <1>1, <1>2, <1>3 DEF AlertsInv

\* A change of the store by others that neither escalates nor delivers.
LEMMA OthersKeepAlerts ==
    ASSUME PlacesInv, PlacesInv', AlertsInv, Others, EventsKept, UNCHANGED worst,
           \A e \in Events : Has(e)' => event'[e].stage = event[e].stage,
           \A k \in Alerts :
               /\ Has(k[2])' /\ ledger[k].state = "delivered" => ledger'[k].state = "delivered"
               /\ ledger[k] = NoDelivery => ledger'[k] = NoDelivery
               /\ Has(k[2])' /\ ledger[k] # NoDelivery => ledger'[k] # NoDelivery
    PROVE  AlertsInv'
<1>1. UNCHANGED <<pass, jobs, shown, mishaps>> /\ mishaps' >= mishaps
    BY DEF Others, laneVars, PlacesInv, StoreTypes
<1>2. StagesApart'
    BY OthersApart DEF AlertsInv
<1> QED
    BY <1>1, <1>2, QuietStepKeepsAlerts

\* Time, answers, dismissals and retention open no account.
LEMMA RipenAccounts ==
    ASSUME PlacesInv, PlacesInv', AlertsInv, NEW e \in Events, Ripen(e)
    PROVE  AlertsInv'
<1>1. event[e] \in Event /\ event[e] # NoEvent
    BY EventShape DEF PlacesInv, Ripen
<1>2. /\ \A o \in Events : o # e => event'[o] = event[o]
      /\ event'[e] = [event[e] EXCEPT !.ripe = TRUE]
      /\ UNCHANGED <<ledger, worst>> /\ Others
    BY DEF Ripen, PlacesInv, StoreTypes
<1>3. /\ event'[e].kind = event[e].kind /\ event'[e].stage = event[e].stage
      /\ event'[e] # NoEvent /\ Has(e)
    BY <1>1, <1>2 DEF Event, NoEvent, Ripen
<1>4. EventsKept
    BY <1>1, <1>2, <1>3, EventsKeptBut
<1> QED
    BY <1>2, <1>3, <1>4, OthersKeepAlerts

LEMMA DismissAccounts ==
    ASSUME PlacesInv, PlacesInv', AlertsInv, NEW d \in Devices, NEW e \in Events, Dismiss(d, e)
    PROVE  AlertsInv'
<1>1. UNCHANGED <<event, ledger, worst>> /\ Others
    BY DEF Dismiss
<1>2. EventsKept
    BY <1>1 DEF EventsKept, Has, PlacesInv, StoreTypes, Stages
<1> QED
    BY <1>1, <1>2, OthersKeepAlerts

LEMMA ElapseAccounts ==
    ASSUME PlacesInv, PlacesInv', AlertsInv, NEW k \in Alerts, Elapse(k)
    PROVE  AlertsInv'
<1>1. UNCHANGED <<event, worst>> /\ Others
    BY DEF Elapse
<1>2. EventsKept
    BY <1>1 DEF EventsKept, Has, PlacesInv, StoreTypes, Stages
<1>3. ledger[k] \in Delivery
    BY DeliveryShape DEF PlacesInv, Elapse
<1>4. \A o \in Alerts : /\ ledger[o].state = "delivered" => ledger'[o].state = "delivered"
                        /\ ledger[o] = NoDelivery <=> ledger'[o] = NoDelivery
    BY <1>3 DEF Elapse, PlacesInv, StoreTypes, Delivery, NoDelivery
<1> QED
    BY <1>1, <1>2, <1>4, OthersKeepAlerts

LEMMA ResolveAccounts ==
    ASSUME PlacesInv, PlacesInv', AlertsInv, NEW e \in Events, Resolve(e)
    PROVE  AlertsInv'
<1>1. event[e] \in Event /\ event[e] # NoEvent
    BY EventShape DEF PlacesInv, Resolve, Has
<1>2. /\ \A o \in Events : o # e => event'[o] = event[o]
      /\ event'[e] = [event[e] EXCEPT !.state = "resolved"]
      /\ ledger' = Superseded(ledger, e, 0) /\ UNCHANGED worst /\ Others
    BY DEF Resolve, PlacesInv, StoreTypes
<1>3. /\ event'[e].kind = event[e].kind /\ event'[e].stage = event[e].stage
      /\ event'[e] # NoEvent /\ Has(e)
    BY <1>1, <1>2 DEF Event, NoEvent, Has, Resolve
<1>4. EventsKept
    BY <1>1, <1>2, <1>3, EventsKeptBut
<1>5. \A o \in Alerts : /\ ledger[o].state = "delivered" => ledger'[o].state = "delivered"
                        /\ ledger[o] = NoDelivery <=> ledger'[o] = NoDelivery
    BY <1>2, SupersededTypes DEF PlacesInv
<1> QED
    BY <1>2, <1>3, <1>4, <1>5, OthersKeepAlerts

LEMMA PruneAccounts ==
    ASSUME PlacesInv, PlacesInv', AlertsInv, NEW e \in Events, Prune(e)
    PROVE  AlertsInv'
<1>1. /\ \A o \in Events : o # e => event'[o] = event[o]
      /\ event[e] # NoEvent /\ event'[e] = Gone /\ Gone # NoEvent /\ ~Has(e)'
      /\ UNCHANGED worst /\ Others
    BY DEF Prune, PlacesInv, StoreTypes, NoEvent, Gone, Has
<1>2. EventsKept
    BY <1>1 DEF EventsKept, Has, PlacesInv, StoreTypes, Stages
<1>3. \A k \in Alerts : IF k[2] = e THEN ledger'[k] = NoDelivery ELSE ledger'[k] = ledger[k]
    BY DEF Prune
<1> QED
    BY <1>1, <1>2, <1>3, OthersKeepAlerts DEF EventsKept, Has

\* The health of the broker got worse: one stage more is left, and granted.
LEMMA EscalateAccounts ==
    ASSUME PlacesInv, PlacesInv', AlertsInv, NEW e \in Events, Escalate(e)
    PROVE  AlertsInv'
<1>1. /\ event[e].state = "active" /\ event[e].kind = "health" /\ worst[e] < MaxStage
      /\ event' = [event EXCEPT ![e].stage = worst[e] + 1]
      /\ worst' = [worst EXCEPT ![e] = @ + 1]
      /\ UNCHANGED <<ledger, pass, jobs, shown, mishaps>> /\ Others
    BY DEF Escalate, Others, laneVars
<1>2. Has(e) /\ event[e] \in Event /\ event[e] # NoEvent /\ worst[e] \in Stages
    BY <1>1, AllowedShape DEF Has
<1>3. /\ event'[e] = [event[e] EXCEPT !.stage = worst[e] + 1] /\ worst'[e] = worst[e] + 1
      /\ \A o \in Events : o # e => event'[o] = event[o] /\ worst'[o] = worst[o]
    BY <1>1 DEF PlacesInv, StoreTypes
<1>4. /\ event'[e].kind = "health" /\ event'[e].stage = worst'[e] /\ event'[e] # NoEvent
      /\ Has(e)'
    BY <1>1, <1>2, <1>3 DEF Event, NoEvent, Has
<1>5. \A o \in Events : worst[o] \in Nat
    BY DEF PlacesInv, StoreTypes, Stages
<1>6. EventsKept
    <2> SUFFICES ASSUME NEW o \in Events
                 PROVE  /\ event'[o] = NoEvent <=> event[o] = NoEvent
                        /\ Has(o)' => Has(o) /\ event'[o].kind = event[o].kind
                        /\ worst'[o] >= worst[o]
                        /\ event[o] = NoEvent => worst'[o] = worst[o]
        BY DEF EventsKept
    <2>1. CASE o = e
        BY <1>1, <1>2, <1>3, <1>4, <1>5, <2>1
    <2>2. CASE o # e
        BY <1>3, <1>5, <2>2 DEF Has
    <2> QED
        BY <2>1, <2>2
<1>7. StagesApart'
    BY <1>1, OthersApart DEF AlertsInv
<1>8. StagesAllowed'
    <2>1. \A o \in Events : Has(o)' /\ event'[o].kind # "update" =>
              event'[o].stage = event[o].stage \/ event'[o].stage <= worst'[o]
        <3>1. event'[e].stage <= worst'[e]
            BY <1>3, <1>4, <1>5
        <3> QED
            BY <1>3, <3>1
    <2> QED
        BY <1>1, <1>6, <2>1, AllowedKept DEF AlertsInv
<1>9. RecordsFit'
    <2>1. \A k \in Alerts : event[k[2]] = NoEvent => jobs'[k] = "idle" /\ ledger'[k] = NoDelivery
        BY <1>1, AlertParts DEF AlertsInv, RecordsFit
    <2>2. \A k \in Alerts : jobs'[k] # "idle" /\ Has(k[2])' => ledger'[k] # NoDelivery
        BY <1>1, <1>6, AlertParts DEF AlertsInv, RecordsFit, EventsKept
    <2> QED
        BY <1>1, <1>6, <2>1, <2>2, RecordsKept DEF AlertsInv
<1>10. AlertsLeft'
    <2>1. ASSUME NEW d \in Devices, NEW o \in Events, o # e
          PROVE  Left(d, o)' \subseteq Left(d, o)
        BY <1>1, <1>3, <1>6, <2>1, LeftKept
    <2>2. AccountsKept({e})
        BY <1>1, <1>6, <2>1 DEF AccountsKept, EventsKept
    <2>3. mishaps' >= mishaps /\ mishaps \in Nat
        BY <1>1 DEF PlacesInv, StoreTypes
    <2>4. \A d \in Devices, o \in Events \ {e} : event'[o] # NoEvent => Budget(d, o)'
        BY <2>2, <2>3, AccountsKeepBudgets DEF AlertsInv
    <2>5. ASSUME NEW d \in Devices PROVE Budget(d, e)'
        <3>1. worst[e] + 1 \in Stages
            BY <1>1, <1>2, AttentionAssumption DEF Stages
        <3>2. Left(d, e)' \subseteq Left(d, e) \cup {worst[e] + 1}
            <4>1. Allowed(e) = 1..worst[e] /\ Allowed(e)' = 1..(worst[e] + 1)
                BY <1>1, <1>3, <1>4 DEF Allowed
            <4>2. \A s \in Allowed(e)' : s \in Allowed(e) \/ s = worst[e] + 1
                BY <1>5, <4>1
            <4> QED
                BY <1>1, <1>2, <4>2 DEF Left
        <3>3. worst'[e] + mishaps' >= worst[e] + mishaps + 1
            BY <1>1, <1>3, <1>5, <2>3
        <3>4. Budget(d, e) /\ shown'[<<d, e>>] = shown[<<d, e>>]
            BY <1>1, <1>2 DEF AlertsInv, AlertsLeft
        <3> HIDE DEF Budget, Left
        <3> QED
            BY <3>1, <3>2, <3>3, <3>4, BudgetGrows
    <2> QED
        BY <2>4, <2>5 DEF AlertsLeft
<1> QED
    BY <1>7, <1>8, <1>9, <1>10 DEF AlertsInv

-----------------------------------------------------------------------------
\* The store is as it was: so is what is known of every event.
LEMMA StoreKept ==
    ASSUME PlacesInv, UNCHANGED <<event, worst>>
    PROVE  EventsKept
<1>1. \A e \in Events : worst[e] \in Nat
    BY DEF PlacesInv, StoreTypes, Stages
<1> QED
    BY <1>1 DEF EventsKept, Has

\* A crash loses at most the completion of one dispatch to each device of each
\* event: that stage is left once more.
LEMMA CrashAccounts ==
    ASSUME PlacesInv, PlacesInv', AlertsInv, Crash
    PROVE  AlertsInv'
<1>1. /\ UNCHANGED <<event, ledger, shown, worst>> /\ mishaps' = mishaps + 1 /\ pass' = NoPass
      /\ \A k \in Alerts : jobs'[k] = "idle"
    BY DEF Crash, Mishap, storeVars
<1>2. EventsKept
    BY <1>1, StoreKept
<1>3. StagesApart'
    <2>1. Dispatching' = {}
        BY <1>1 DEF Dispatching
    <2>2. \A d \in Devices : lanes'[d] = <<>> /\ DOMAIN lanes'[d] = {}
        BY DEF Crash
    <2> QED
        BY <1>1, <2>1, <2>2 DEF StagesApart, OneStage
<1>4. StagesAllowed'
    BY <1>1, <1>2, AllowedKept DEF AlertsInv
<1>5. RecordsFit'
    <2>1. \A k \in Alerts : event[k[2]] = NoEvent => jobs'[k] = "idle" /\ ledger'[k] = NoDelivery
        BY <1>1, AlertParts DEF AlertsInv, RecordsFit
    <2> QED
        BY <1>1, <1>2, <2>1, RecordsKept DEF AlertsInv
<1>6. ASSUME NEW d \in Devices, NEW e \in Events, event[e] # NoEvent
      PROVE  Budget(d, e)'
    <2>1. Budget(d, e) /\ shown'[<<d, e>>] = shown[<<d, e>>] /\ worst'[e] = worst[e]
        BY <1>1, <1>6 DEF AlertsInv, AlertsLeft
    <2>2. mishaps \in Nat /\ worst[e] \in Nat
        BY DEF PlacesInv, StoreTypes, Stages
    <2>3. \A s \in Stages : <<d, e, s>> \in Alerts
        BY AlertParts
    <2>4. \A s \in Left(d, e)' : s \in Left(d, e) \/ jobs[<<d, e, s>>] = "completing"
        BY <1>1, <2>3 DEF Left, Allowed, Has
    <2>5. CASE \E s \in Stages : jobs[<<d, e, s>>] = "completing"
        <3>1. PICK s \in Stages : jobs[<<d, e, s>>] = "completing"
            BY <2>5
        <3>2. \A t \in Stages : jobs[<<d, e, t>>] = "completing" => t = s
            <4> SUFFICES ASSUME NEW t \in Stages, jobs[<<d, e, t>>] = "completing"
                         PROVE  t = s
                OBVIOUS
            <4>1. <<d, e, t>> \in Dispatching /\ <<d, e, s>> \in Dispatching
                BY <2>3, <3>1 DEF Dispatching
            <4> QED
                BY <4>1 DEF AlertsInv, StagesApart, OneStage
        <3>3. Left(d, e)' \subseteq Left(d, e) \cup {s}
            <4>1. \A t \in Left(d, e)' : t \in Stages
                BY DEF Left
            <4> QED
                BY <2>4, <3>2, <4>1
        <3>4. worst'[e] + mishaps' >= worst[e] + mishaps + 1
            BY <1>1, <2>1, <2>2
        <3> HIDE DEF Budget, Left
        <3> QED
            BY <2>1, <3>3, <3>4, BudgetGrows
    <2>6. CASE ~ \E s \in Stages : jobs[<<d, e, s>>] = "completing"
        <3>1. Left(d, e)' \subseteq Left(d, e)
            BY <2>4, <2>6 DEF Left
        <3>2. mishaps' >= mishaps /\ worst'[e] >= worst[e]
            BY <1>1, <2>1, <2>2
        <3> QED
            BY <2>1, <3>1, <3>2, BudgetKept
    <2> QED
        BY <2>5, <2>6
<1>7. AlertsLeft'
    BY <1>1, <1>6 DEF AlertsLeft
<1> QED
    BY <1>3, <1>4, <1>5, <1>7 DEF AlertsInv

\* A pass goes on, or ends, and the store and the dispatches are as they were.
LEMMA PassAccounts ==
    ASSUME PlacesInv, PlacesInv', AlertsInv, StagesApart',
           UNCHANGED <<event, ledger, worst, jobs, shown>>, mishaps' >= mishaps,
           pass' # NoPass => \A v \in pass'.todo :
               \/ pass # NoPass /\ v \in pass.todo
               \/ event'[v.event] # NoEvent /\ (Has(v.event)' => v.target \in Allowed(v.event)')
    PROVE  AlertsInv'
<1>1. EventsKept
    BY StoreKept
<1> QED
    BY <1>1, QuietStepKeepsAlerts

\* The lanes and the dispatches are as they were, and the pass found nothing.
LEMMA PassApart ==
    ASSUME StagesApart, UNCHANGED <<lanes, jobs>>,
           pass' # NoPass => pass # NoPass /\ pass'.due \subseteq pass.due
    PROVE  StagesApart'
BY DEF StagesApart, OneStage, Dispatching

\* A pass starts with the stages the events are at.
LEMMA StartPassAccounts ==
    ASSUME PlacesInv, PlacesInv', AlertsInv, StartPass
    PROVE  AlertsInv'
<1> DEFINE due == {e \in Events : Scheduled(e) /\ event[e].ripe}
<1>1. /\ pass' = [running |-> TRUE, at |-> NoVisit, due |-> {}, todo |-> {Visit(e) : e \in due}]
      /\ UNCHANGED <<event, ledger, worst, lanes, jobs, shown>> /\ mishaps' = mishaps
    BY DEF StartPass, storeVars, laneVars
<1>2. StagesApart'
    BY <1>1 DEF AlertsInv, StagesApart, OneStage, Dispatching
<1>3. \A v \in pass'.todo :
         event'[v.event] # NoEvent /\ (Has(v.event)' => v.target \in Allowed(v.event)')
    <2> SUFFICES ASSUME NEW e \in due
                 PROVE  /\ event[e] # NoEvent /\ Visit(e).event = e
                        /\ Visit(e).target \in Allowed(e)
        BY <1>1 DEF Has, Allowed
    <2>1. Has(e) /\ event[e] # NoEvent /\ event[e].stage \in Stages /\ worst[e] \in Stages
        BY AllowedShape DEF Scheduled
    <2>2. event[e].kind # "update" => event[e].stage <= worst[e]
        BY <2>1 DEF AlertsInv, StagesAllowed
    <2>3. Visit(e).event = e
          /\ Visit(e).target = IF event[e].kind = "update" THEN 2 ELSE event[e].stage
        BY DEF Visit
    <2> QED
        BY <2>1, <2>2, <2>3 DEF Allowed, Stages
<1>4. mishaps' >= mishaps
    BY <1>1 DEF PlacesInv, StoreTypes
<1> HIDE DEF due
<1> QED
    BY <1>1, <1>2, <1>3, <1>4, PassAccounts

\* What a pass reserves is at a stage its event may be alerted at.
LEMMA ReserveAccounts ==
    ASSUME PlacesInv, PlacesInv', AlertsInv, pass # NoPass, NEW v \in pass.todo, Reserve(v)
    PROVE  AlertsInv'
<1>1. /\ pass \in Passes /\ v \in Visits /\ mishaps \in Nat
      /\ UNCHANGED <<lanes, jobs, shown, worst>>
    BY PassShape DEF PlacesInv, StoreTypes, Reserve, laneVars
<1>2. CASE Refused(v)
    <2>1. PassOver(v) /\ UNCHANGED <<event, ledger, mishaps>>
        BY <1>2 DEF Reserve
    <2>2. pass'.todo \subseteq pass.todo /\ pass'.due = pass.due
        BY <1>1, <2>1 DEF PassOver, Passes
    <2>3. StagesApart'
        BY <1>1, <2>2, PassApart DEF AlertsInv
    <2> QED
        BY <1>1, <2>1, <2>2, <2>3, PassAccounts
<1>3. CASE ~Refused(v) /\ pass' = NoPass /\ SaveFails
    <2>1. UNCHANGED <<event, ledger>> /\ mishaps' >= mishaps
        BY <1>1, <1>3 DEF SaveFails, Mishap, storeVars
    <2>2. StagesApart'
        BY <1>1, <1>3, PassApart DEF AlertsInv
    <2> QED
        BY <1>1, <1>3, <2>1, <2>2, PassAccounts
<1>4. ASSUME NEW step \in Steps, ~Refused(v), Enter(v, step), SaveOk, ledger' = ReserveAll(v),
             event' = [event EXCEPT ![v.event].stage = v.target]
      PROVE  AlertsInv'
    <2>1. /\ v.event \in Events /\ v.target \in Stages /\ Has(v.event)
          /\ event[v.event] \in Event /\ event[v.event] # NoEvent
          /\ worst[v.event] \in Stages
        BY <1>1, <1>4, AllowedShape DEF Visits, Refused
    <2>2. /\ event'[v.event] = [event[v.event] EXCEPT !.stage = v.target]
          /\ \A e \in Events : e # v.event => event'[e] = event[e]
        BY <1>4, <2>1 DEF PlacesInv, StoreTypes
    <2>3. /\ event'[v.event].kind = event[v.event].kind /\ event'[v.event].stage = v.target
          /\ event'[v.event] # NoEvent
        BY <2>1, <2>2 DEF Event, NoEvent
    <2>4. EventsKept
        BY <1>1, <2>1, <2>2, <2>3, EventsKeptBut
    <2>5. pass'.todo \subseteq pass.todo /\ pass'.due = pass.due
        BY <1>1, <1>4 DEF Enter, Passes
    <2>6. StagesApart'
        BY <1>1, <2>5, PassApart DEF AlertsInv
    <2>7. v.target \in Allowed(v.event)
        BY <2>1 DEF AlertsInv, StagesAllowed
    <2>8. v.target \in Allowed(v.event)'
        BY <1>1, <2>3, <2>7 DEF Allowed
    <2>9. \A e \in Events : Has(e)' /\ event'[e].kind # "update" =>
             event'[e].stage = event[e].stage \/ event'[e].stage <= worst'[e]
        <3>1. event[v.event].kind # "update" => v.target <= worst[v.event]
            BY <2>1, <2>7 DEF Allowed, Stages
        <3> QED
            BY <1>1, <2>2, <2>3, <3>1
    <2>10. \A k \in Alerts :
             /\ Has(k[2])' /\ ledger[k].state = "delivered" => ledger'[k].state = "delivered"
             /\ Has(k[2])' /\ ledger[k] # NoDelivery => ledger'[k] # NoDelivery
             /\ ledger[k] = NoDelivery => \/ ledger'[k] = NoDelivery
                                          \/ event[k[2]] # NoEvent /\ k[3] \in Allowed(k[2])'
        <3>1. \A k \in Alerts : \/ ledger'[k] = ledger[k]
                                \/ ledger[k] = NoDelivery /\ k[2] = v.event /\ k[3] = v.target
            BY <1>4 DEF ReserveAll
        <3>2. \A k \in Alerts : ledger[k] = NoDelivery => ledger[k].state = "absent"
            BY DEF NoDelivery
        <3> QED
            BY <2>1, <2>8, <3>1, <3>2
    <2>11. UNCHANGED <<worst, jobs, shown>> /\ mishaps' >= mishaps
        BY <1>1, <1>4 DEF SaveOk
    <2> QED
        BY <2>4, <2>5, <2>6, <2>9, <2>10, <2>11, QuietStepKeepsAlerts
<1> QED
    BY <1>2, <1>3, <1>4 DEF Reserve, Steps

\* What is superseded was not delivered.
LEMMA SupersedeAccounts ==
    ASSUME PlacesInv, PlacesInv', AlertsInv, Supersede
    PROVE  AlertsInv'
<1>1. /\ pass \in Passes /\ mishaps \in Nat /\ pass # NoPass
      /\ UNCHANGED <<lanes, jobs, shown, event, worst>>
    BY PassShape DEF PlacesInv, StoreTypes, Supersede, laneVars, At
<1>2. EventsKept
    BY <1>1, StoreKept
<1>3. CASE pass' = NoPass /\ SaveFails
    <2>1. UNCHANGED ledger /\ mishaps' >= mishaps
        BY <1>1, <1>3 DEF SaveFails, Mishap, storeVars
    <2>2. StagesApart'
        BY <1>1, <1>3, PassApart DEF AlertsInv
    <2> QED
        BY <1>1, <1>3, <2>1, <2>2, PassAccounts
<1>4. CASE /\ ledger' = Superseded(ledger, pass.at.event, pass.at.target)
           /\ pass' = [pass EXCEPT !.at.step = "collect"] /\ SaveOk
    <2>1. pass'.todo = pass.todo /\ pass'.due = pass.due
        BY <1>1, <1>4 DEF Passes
    <2>2. StagesApart'
        BY <1>1, <2>1, PassApart DEF AlertsInv
    <2>3. \A k \in Alerts : /\ ledger[k].state = "delivered" => ledger'[k].state = "delivered"
                            /\ ledger[k] = NoDelivery <=> ledger'[k] = NoDelivery
        BY <1>4, SupersededTypes DEF PlacesInv
    <2>4. mishaps' >= mishaps
        BY <1>1, <1>4 DEF SaveOk
    <2> QED
        BY <1>1, <1>2, <2>1, <2>2, <2>3, <2>4, QuietStepKeepsAlerts
<1> QED
    BY <1>3, <1>4 DEF Supersede

\* What a visit finds is all at one stage, and of an event of which nothing
\* was found before.
LEMMA CollectAccounts ==
    ASSUME PlacesInv, PlacesInv', AlertsInv, Collect
    PROVE  AlertsInv'
<1> DEFINE more == {k \in Alerts : k[2] = pass.at.event /\ k[3] = pass.at.target /\ Found(k)}
<1>1. /\ pass \in Passes /\ pass.at \in Places /\ pass # NoPass /\ pass.at # NoVisit
      /\ UNCHANGED <<event, ledger, worst, lanes, jobs, shown>> /\ mishaps' = mishaps
    BY PassShape DEF PlacesInv, Collect, At, storeVars, laneVars
<1>2. pass' = [pass EXCEPT !.at = NoVisit, !.due = pass.due \cup more]
    BY DEF Collect
<1>3. \A k \in more : k[2] = pass.at.event /\ k[3] = pass.at.target
    OBVIOUS
<1> HIDE DEF more
<1>4. pass'.due = pass.due \cup more /\ pass'.todo = pass.todo
    BY <1>1, <1>2 DEF Passes
<1>5. StagesApart'
    <2>1. OneStage(pass.due) /\ \A k \in pass.due : k[2] # pass.at.event
        BY <1>1 DEF AlertsInv, StagesApart, PlacesInv, PassFindsNew
    <2>2. OneStage(pass.due \cup more)
        BY <1>3, <2>1 DEF OneStage
    <2> QED
        BY <1>1, <1>4, <2>2 DEF AlertsInv, StagesApart, OneStage, Dispatching
<1>6. mishaps' >= mishaps
    BY <1>1 DEF PlacesInv, StoreTypes
<1> QED
    BY <1>1, <1>4, <1>5, <1>6, PassAccounts

\* A batch is part of what the pass found.
LEMMA HandOutAccounts ==
    ASSUME PlacesInv, PlacesInv', AlertsInv, HandOut
    PROVE  AlertsInv'
<1>1. /\ pass # NoPass /\ pass' = NoPass
      /\ UNCHANGED <<event, ledger, worst, jobs, shown>> /\ mishaps' = mishaps
    BY DEF HandOut, storeVars
<1>2. OneStage(pass.due)
    BY <1>1 DEF AlertsInv, StagesApart
<1>3. ASSUME NEW d \in Devices, NEW i \in DOMAIN lanes'[d]
      PROVE  OneStage(lanes'[d][i])
    <2> DEFINE batch == {k \in pass.due : k[1] = d}
               n     == Len(lanes[d])
    <2>1. OneStage(batch)
        BY <1>2 DEF OneStage
    <2>2. \A j \in DOMAIN lanes[d] : OneStage(lanes[d][j])
        BY DEF AlertsInv, StagesApart
    <2>3. /\ n \in Nat /\ DOMAIN lanes[d] = 1..n
          /\ \/ batch = {} /\ lanes'[d] = lanes[d]
             \/ /\ batch # {} /\ DOMAIN lanes'[d] = 1..n + 1
                /\ \A j \in 1..n : lanes'[d][j] = lanes[d][j]
                /\ lanes'[d][n + 1] = batch
        BY HandOutAppends
    <2> HIDE DEF batch, n
    <2>4. CASE lanes'[d] = lanes[d]
        BY <2>2, <2>4
    <2>5. CASE lanes'[d] # lanes[d]
        <3>1. i \in 1..n \/ i = n + 1
            BY <2>3, <2>5
        <3> QED
            BY <2>1, <2>2, <2>3, <2>5, <3>1
    <2> QED
        BY <2>4, <2>5
<1>4. StagesApart'
    BY <1>1, <1>3 DEF AlertsInv, StagesApart, OneStage, Dispatching
<1>5. mishaps' >= mishaps
    BY <1>1 DEF PlacesInv, StoreTypes
<1> QED
    BY <1>1, <1>4, <1>5, PassAccounts

-----------------------------------------------------------------------------
\* A step of a lane, which changes dispatches and the deliveries they are for.
LEMMA LaneStepKeepsAlerts ==
    ASSUME PlacesInv, PlacesInv', AlertsInv, UNCHANGED <<event, pass, worst>>, StagesApart',
           \A k \in Alerts : ledger'[k] = NoDelivery <=> ledger[k] = NoDelivery,
           \A k \in Alerts :
               jobs'[k] # "idle" => jobs[k] # "idle" \/ (Has(k[2]) /\ ledger[k] # NoDelivery),
           \A d \in Devices, e \in Events :
               event[e] = NoEvent => shown'[<<d, e>>] = shown[<<d, e>>],
           \A d \in Devices, e \in Events : event[e] # NoEvent => Budget(d, e)'
    PROVE  AlertsInv'
<1>1. EventsKept
    BY StoreKept
<1>2. StagesAllowed'
    BY <1>1, AllowedKept DEF AlertsInv
<1>3. RecordsFit'
    <2>1. \A k \in Alerts : event[k[2]] = NoEvent => jobs'[k] = "idle" /\ ledger'[k] = NoDelivery
        BY AlertParts, EventShape DEF AlertsInv, RecordsFit, PlacesInv
    <2>2. \A k \in Alerts : jobs'[k] # "idle" /\ Has(k[2])' => ledger'[k] # NoDelivery
        BY AlertParts DEF AlertsInv, RecordsFit, Has
    <2> QED
        BY <1>1, <2>1, <2>2, RecordsKept DEF AlertsInv
<1>4. AlertsLeft'
    BY DEF AlertsLeft
<1> QED
    BY <1>2, <1>3, <1>4 DEF AlertsInv

\* A batch begins when the dispatches of its device are over, with what may
\* still be alerted.
LEMMA StartBatchAccounts ==
    ASSUME PlacesInv, PlacesInv', AlertsInv, NEW d \in Devices, StartBatch(d)
    PROVE  AlertsInv'
<1> DEFINE batch  == lanes[d][1]
           wanted == {k \in batch : StillWanted(k)}
<1>1. /\ jobs' = [k \in Alerts |-> IF k \in wanted THEN "calling" ELSE jobs[k]]
      /\ UNCHANGED <<event, ledger, pass, mishaps, shown, worst>>
    BY StartBatchTakes DEF StartBatch, storeVars
<1>2. \A k \in Alerts : k[1] = d => jobs[k] = "idle"
    BY DEF StartBatch, Busy
<1>3. 1 \in DOMAIN lanes[d] /\ batch \subseteq Alerts
    BY StartBatchTakes
<1>4. \A k \in wanted : /\ k \in Alerts /\ k \in batch /\ k[1] = d /\ k[2] \in Events
                        /\ Has(k[2]) /\ ledger[k].state = "reserved"
    <2> SUFFICES ASSUME NEW k \in wanted
                 PROVE  /\ k \in Alerts /\ k \in batch /\ k[1] = d /\ k[2] \in Events
                        /\ Has(k[2]) /\ ledger[k].state = "reserved"
        OBVIOUS
    <2>1. k \in batch /\ Wanted(k)
        BY DEF StillWanted
    <2>2. k \in Alerts /\ k[1] = d
        BY <1>3, <2>1, LaneContents
    <2> QED
        BY <2>1, <2>2, AlertParts DEF Wanted, Reserved, Scheduled
<1> HIDE DEF wanted, batch
<1>5. \A k \in wanted : /\ ledger[k] # NoDelivery /\ k[3] \in Allowed(k[2])
                        /\ jobs[k] = "idle"
    <2>1. \A k \in wanted : ledger[k] # NoDelivery
        BY <1>4, DeliveryShape DEF PlacesInv
    <2> QED
        BY <1>2, <1>4, <2>1 DEF AlertsInv, StagesAllowed
<1>6. StagesApart'
    <2>1. OneStage(batch) /\ OneStage(Dispatching)
        BY <1>3 DEF AlertsInv, StagesApart, batch
    <2>2. Dispatching' = Dispatching \cup wanted
        BY <1>1, <1>4 DEF Dispatching
    <2>3. \A k \in Dispatching : k[1] # d
        BY <1>2 DEF Dispatching
    <2>4. OneStage(Dispatching')
        BY <1>4, <2>1, <2>2, <2>3 DEF OneStage
    <2>5. ASSUME NEW o \in Devices, NEW i \in DOMAIN lanes'[o]
          PROVE  OneStage(lanes'[o][i])
        <3>1. \A p \in Devices : \A j \in DOMAIN lanes[p] : OneStage(lanes[p][j])
            BY DEF AlertsInv, StagesApart
        <3>2. CASE o # d
            BY <3>1, <3>2, StartBatchTakes
        <3>3. CASE o = d
            <4>1. i \in 1..Len(lanes[d]) - 1 /\ Len(lanes[d]) \in Nat
                BY <3>3, StartBatchTakes
            <4>2. i + 1 \in 1..Len(lanes[d])
                BY <4>1
            <4>3. i + 1 \in DOMAIN lanes[d] /\ lanes'[d][i] = lanes[d][i + 1]
                BY <4>1, <4>2, StartBatchTakes
            <4> QED
                BY <3>1, <3>3, <4>3
        <3> QED
            BY <3>2, <3>3
    <2> QED
        BY <1>1, <2>4, <2>5 DEF AlertsInv, StagesApart, OneStage
<1>7. ASSUME NEW o \in Devices, NEW e \in Events, event[e] # NoEvent
      PROVE  Budget(o, e)'
    <2>1. Left(o, e)' \subseteq Left(o, e)
        <3> SUFFICES ASSUME NEW s \in Stages, s \in Left(o, e)' PROVE s \in Left(o, e)
            BY DEF Left
        <3> DEFINE k == <<o, e, s>>
        <3>1. k \in Alerts /\ k[2] = e /\ k[3] = s
            BY AlertParts
        <3>2. CASE k \in wanted
            <4>1. Has(e) /\ s \in Allowed(e) /\ jobs[k] = "idle" /\ ledger[k].state = "reserved"
                BY <1>4, <1>5, <3>1, <3>2
            <4> QED
                BY <4>1 DEF Left
        <3>3. CASE k \notin wanted
            <4>1. jobs'[k] = jobs[k]
                BY <1>1, <3>1, <3>3
            <4> QED
                BY <1>1, <4>1 DEF Left, Has, Allowed
        <3> QED
            BY <3>2, <3>3
    <2>2. Budget(o, e) /\ worst[e] \in Nat /\ mishaps \in Nat
        BY <1>7, BudgetTypes DEF AlertsInv, AlertsLeft
    <2>3. worst'[e] >= worst[e] /\ mishaps' >= mishaps /\ shown'[<<o, e>>] = shown[<<o, e>>]
        BY <1>1, <2>2
    <2> QED
        BY <2>1, <2>2, <2>3, BudgetKept
<1>8. \A k \in Alerts :
         jobs'[k] # "idle" => jobs[k] # "idle" \/ (Has(k[2]) /\ ledger[k] # NoDelivery)
    BY <1>1, <1>4, <1>5
<1> QED
    BY <1>1, <1>6, <1>7, <1>8, LaneStepKeepsAlerts

\* Dispatches that go on, or are over, are none that begins.
LEMMA DispatchesApart ==
    ASSUME StagesApart, UNCHANGED <<lanes, pass>>,
           \A k \in Alerts : jobs'[k] # "idle" => jobs[k] # "idle"
    PROVE  StagesApart'
<1>1. Dispatching' \subseteq Dispatching
    BY DEF Dispatching
<1> QED
    BY <1>1 DEF StagesApart, OneStage

\* One dispatch goes on: the account of its device and its event is checked.
LEMMA DispatchKeepsAlerts ==
    ASSUME PlacesInv, PlacesInv', AlertsInv, UNCHANGED <<event, pass, worst, lanes>>,
           mishaps' >= mishaps, NEW k \in Alerts, jobs[k] # "idle",
           \A o \in Alerts : o # k =>
               jobs'[o] = jobs[o] /\ ledger'[o] = ledger[o],
           ledger'[k] = NoDelivery <=> ledger[k] = NoDelivery,
           \A d \in Devices, e \in Events :
               <<d, e>> # <<k[1], k[2]>> => shown'[<<d, e>>] = shown[<<d, e>>],
           Budget(k[1], k[2]) => Budget(k[1], k[2])'
    PROVE  AlertsInv'
<1>1. /\ k[1] \in Devices /\ k[2] \in Events /\ k[3] \in Stages
      /\ event[k[2]] # NoEvent /\ k = <<k[1], k[2], k[3]>>
    BY AlertParts DEF AlertsInv, RecordsFit
<1>2. \A o \in Alerts : jobs'[o] # "idle" => jobs[o] # "idle"
    OBVIOUS
<1>3. StagesApart'
    BY <1>2, DispatchesApart DEF AlertsInv
<1>4. ASSUME NEW d \in Devices, NEW e \in Events, event[e] # NoEvent
      PROVE  Budget(d, e)'
    <2>1. Budget(d, e) /\ worst[e] \in Nat
        BY <1>4, BudgetTypes DEF AlertsInv, AlertsLeft
    <2>2. CASE d = k[1] /\ e = k[2]
        BY <2>1, <2>2
    <2>3. CASE ~(d = k[1] /\ e = k[2])
        <3>1. \A s \in Stages : <<d, e, s>> \in Alerts /\ <<d, e, s>> # k
            BY <1>1, <2>3, AlertParts
        <3>2. Left(d, e)' \subseteq Left(d, e)
            BY <3>1 DEF Left, Has, Allowed
        <3>3. shown'[<<d, e>>] = shown[<<d, e>>] /\ worst'[e] >= worst[e]
            BY <1>1, <2>1, <2>3
        <3> QED
            BY <2>1, <3>2, <3>3, BudgetKept
    <2> QED
        BY <2>2, <2>3
<1>5. \A d \in Devices, e \in Events : event[e] = NoEvent => shown'[<<d, e>>] = shown[<<d, e>>]
    BY <1>1
<1>6. \A o \in Alerts : ledger'[o] = NoDelivery <=> ledger[o] = NoDelivery
    OBVIOUS
<1> QED
    BY <1>2, <1>3, <1>4, <1>5, <1>6, LaneStepKeepsAlerts

\* An alert that comes is one of those that were left, and is left no more.
LEMMA AnswerAccounts ==
    ASSUME PlacesInv, PlacesInv', AlertsInv, NEW k \in Alerts, Answer(k)
    PROVE  AlertsInv'
<1> DEFINE d == k[1]
           e == k[2]
           s == k[3]
<1>1. /\ jobs[k] = "calling" /\ mishaps' = mishaps
      /\ UNCHANGED <<event, ledger, pass, worst, lanes>>
    BY DEF Answer, storeVars
<1>2. d \in Devices /\ e \in Events /\ s \in Stages /\ k = <<d, e, s>>
    BY AlertParts
<1>3. \A t \in Stages : <<d, e, t>> \in Alerts /\ (t # s => <<d, e, t>> # k)
    BY <1>2, AlertParts
<1>4. s \in Left(d, e)
    BY <1>1, <1>2 DEF Left
<1>5. /\ Cardinality(Left(d, e)) \in Nat /\ Left(d, e) \in SUBSET Stages
      /\ shown[<<d, e>>] \in Nat /\ worst[e] \in Nat /\ mishaps \in Nat
    BY <1>2, BudgetTypes
<1>6. CASE MoveTo(k, "completing") /\ shown' = [shown EXCEPT ![<<d, e>>] = @ + 1]
    <2>1. /\ jobs'[k] = "completing" /\ \A o \in Alerts : o # k => jobs'[o] = jobs[o]
          /\ shown'[<<d, e>>] = shown[<<d, e>>] + 1
          /\ \A p \in Devices, o \in Events : <<p, o>> # <<d, e>>
                                                => shown'[<<p, o>>] = shown[<<p, o>>]
        BY <1>2, <1>6 DEF MoveTo, PlacesInv, SchedulerTypes
    <2>2. Left(d, e)' \subseteq Left(d, e) \ {s}
        <3>1. \A t \in Stages : t # s => jobs'[<<d, e, t>>] = jobs[<<d, e, t>>]
            BY <1>3, <2>1
        <3>2. jobs'[<<d, e, s>>] = "completing"
            BY <1>2, <2>1
        <3> QED
            BY <1>1, <3>1, <3>2 DEF Left, Has, Allowed
    <2>3. Budget(d, e) => Budget(d, e)'
        <3>1. /\ Cardinality(Left(d, e) \ {s}) = Cardinality(Left(d, e)) - 1
              /\ Left(d, e) \ {s} \in SUBSET Stages
            BY <1>4, <1>5, StagesCounted
        <3>2. Cardinality(Left(d, e)') <= Cardinality(Left(d, e) \ {s})
            BY <2>2, <3>1, StagesCounted
        <3>3. Left(d, e)' \in SUBSET Stages
            BY <2>2, <3>1
        <3>4. Cardinality(Left(d, e)') \in Nat
            BY <3>3, StagesCounted
        <3>5. worst'[e] = worst[e]
            BY <1>1
        <3> HIDE DEF d, e, s, Left
        <3> QED
            BY <1>1, <1>5, <2>1, <3>1, <3>2, <3>4, <3>5 DEF Budget
    <2>4. mishaps' >= mishaps
        BY <1>1, <1>5
    <2> QED
        BY <1>1, <2>1, <2>3, <2>4, DispatchKeepsAlerts
<1>7. CASE MoveTo(k, "failing") /\ UNCHANGED shown
    <2>1. jobs'[k] = "failing" /\ \A o \in Alerts : o # k => jobs'[o] = jobs[o]
        BY <1>7 DEF MoveTo, PlacesInv, SchedulerTypes
    <2>2. Left(d, e)' \subseteq Left(d, e)
        <3>1. \A t \in Stages : t # s => jobs'[<<d, e, t>>] = jobs[<<d, e, t>>]
            BY <1>3, <2>1
        <3> QED
            BY <1>1, <1>4, <3>1 DEF Left, Has, Allowed
    <2>3. Budget(d, e) => Budget(d, e)'
        <3>1. shown'[<<d, e>>] = shown[<<d, e>>] /\ worst'[e] >= worst[e] /\ mishaps' >= mishaps
            BY <1>1, <1>5, <1>7
        <3> QED
            BY <1>2, <2>2, <3>1, BudgetKept
    <2>4. mishaps' >= mishaps
        BY <1>1, <1>5
    <2> QED
        BY <1>1, <1>7, <2>1, <2>3, <2>4, DispatchKeepsAlerts
<1> QED
    BY <1>6, <1>7 DEF Answer

\* A completion is saved, or its stage is left once more, for a save that failed.
LEMMA CompleteAccounts ==
    ASSUME PlacesInv, PlacesInv', AlertsInv, NEW k \in Alerts, Complete(k)
    PROVE  AlertsInv'
<1> DEFINE d == k[1]
           e == k[2]
           s == k[3]
<1>1. jobs[k] = "completing" /\ UNCHANGED <<event, pass, worst, lanes, shown>>
    BY DEF Complete
<1>2. d \in Devices /\ e \in Events /\ s \in Stages /\ k = <<d, e, s>>
    BY AlertParts
<1>3. \A t \in Stages : <<d, e, t>> \in Alerts /\ (t # s => <<d, e, t>> # k)
    BY <1>2, AlertParts
<1>4. /\ shown'[<<d, e>>] = shown[<<d, e>>] /\ worst'[e] = worst[e]
      /\ worst[e] \in Nat /\ mishaps \in Nat
    BY <1>1, <1>2, BudgetTypes
<1>5. CASE ledger' = Delivered(k) /\ SaveOk /\ Leave(k)
    <2>1. /\ jobs'[k] = "idle" /\ mishaps' = mishaps
          /\ \A o \in Alerts : o # k => jobs'[o] = jobs[o] /\ ledger'[o] = ledger[o]
        BY <1>5 DEF Leave, SaveOk, Delivered, PlacesInv, SchedulerTypes, StoreTypes
    <2>2. /\ ledger[k] = NoDelivery => ledger'[k] = NoDelivery
          /\ ledger[k] # NoDelivery => ledger'[k] # NoDelivery /\ ledger'[k].state = "delivered"
        <3>1. ledger[k] = NoDelivery => ledger'[k] = NoDelivery
            BY <1>5 DEF Delivered
        <3>2. ASSUME ledger[k] # NoDelivery
              PROVE  ledger'[k] # NoDelivery /\ ledger'[k].state = "delivered"
            <4>1. ledger[k] \in Delivery
                BY <3>2, DeliveryShape DEF PlacesInv
            <4>2. ledger'[k] = [ledger[k] EXCEPT !.state = "delivered", !.later = FALSE]
                BY <1>5, <3>2 DEF Delivered, PlacesInv, StoreTypes
            <4> QED
                BY <4>1, <4>2 DEF Delivery, NoDelivery
        <3> QED
            BY <3>1, <3>2
    <2>3. Left(d, e)' \subseteq Left(d, e)
        <3>1. \A t \in Stages : t # s => /\ jobs'[<<d, e, t>>] = jobs[<<d, e, t>>]
                                         /\ ledger'[<<d, e, t>>] = ledger[<<d, e, t>>]
            BY <1>3, <2>1
        <3>2. Has(e)' => ledger'[<<d, e, s>>].state = "delivered"
            BY <1>1, <1>2, <2>2 DEF AlertsInv, RecordsFit, Has
        <3>3. jobs'[<<d, e, s>>] = "idle"
            BY <1>2, <2>1
        <3> QED
            BY <1>1, <3>1, <3>2, <3>3 DEF Left, Has, Allowed
    <2>4. Budget(d, e) => Budget(d, e)'
        <3>1. worst'[e] >= worst[e] /\ mishaps' >= mishaps
            BY <1>4, <2>1
        <3> QED
            BY <1>2, <1>4, <2>3, <3>1, BudgetKept
    <2>5. mishaps' >= mishaps
        BY <1>4, <2>1
    <2> QED
        BY <1>1, <2>1, <2>2, <2>4, <2>5, DispatchKeepsAlerts
<1>6. CASE SaveFails /\ MoveTo(k, "failing")
    <2>1. /\ jobs'[k] = "failing" /\ mishaps' = mishaps + 1 /\ UNCHANGED ledger
          /\ \A o \in Alerts : o # k => jobs'[o] = jobs[o]
        BY <1>6 DEF MoveTo, SaveFails, Mishap, storeVars, PlacesInv, SchedulerTypes
    <2>2. Left(d, e)' \subseteq Left(d, e) \cup {s}
        <3>1. \A t \in Stages : t # s => jobs'[<<d, e, t>>] = jobs[<<d, e, t>>]
            BY <1>3, <2>1
        <3> QED
            BY <1>1, <2>1, <3>1 DEF Left, Has, Allowed
    <2>3. worst'[e] + mishaps' >= worst[e] + mishaps + 1 /\ mishaps' >= mishaps
        BY <1>4, <2>1
    <2>4. Budget(d, e) => Budget(d, e)'
        <3> HIDE DEF Budget, Left, d, e, s
        <3> QED
            BY <1>2, <1>4, <2>2, <2>3, BudgetGrows
    <2> QED
        BY <1>1, <2>1, <2>3, <2>4, DispatchKeepsAlerts
<1> QED
    BY <1>5, <1>6 DEF Complete

\* A dispatch that failed leaves what was left.
LEMMA RecordFailureAccounts ==
    ASSUME PlacesInv, PlacesInv', AlertsInv, NEW k \in Alerts, RecordFailure(k)
    PROVE  AlertsInv'
<1> DEFINE d == k[1]
           e == k[2]
           s == k[3]
<1>1. /\ jobs[k] = "failing" /\ UNCHANGED <<event, pass, worst, lanes, shown>>
      /\ mishaps \in Nat
    BY DEF RecordFailure, PlacesInv, StoreTypes
<1>2. d \in Devices /\ e \in Events /\ s \in Stages /\ k = <<d, e, s>>
    BY AlertParts
<1>3. \A t \in Stages : <<d, e, t>> \in Alerts /\ (t # s => <<d, e, t>> # k)
    BY <1>2, AlertParts
<1>4. jobs'[k] = "idle" /\ \A o \in Alerts : o # k => jobs'[o] = jobs[o]
    BY DEF RecordFailure, Leave, PlacesInv, SchedulerTypes
<1>5. /\ mishaps' >= mishaps
      /\ \A o \in Alerts : /\ o # k => ledger'[o] = ledger[o]
                           /\ ledger[o] = NoDelivery <=> ledger'[o] = NoDelivery
                           /\ ledger[o].state = "delivered" => ledger'[o].state = "delivered"
    <2>1. CASE ledger' = Failed(k) /\ SaveOk
        <3>1. CASE ledger[k].state # "reserved"
            BY <1>1, <2>1, <3>1 DEF Failed, SaveOk
        <3>2. CASE ledger[k].state = "reserved"
            <4>1. ledger[k] \in Delivery
                BY <3>2, DeliveryShape DEF PlacesInv
            <4>2. /\ ledger'[k] = [ledger[k] EXCEPT !.attempts = @ + 1,
                                     !.later = ledger[k].attempts + 1 < MaxAttempts]
                  /\ \A o \in Alerts : o # k => ledger'[o] = ledger[o]
                BY <2>1, <3>2 DEF Failed, PlacesInv, StoreTypes
            <4>3. ledger[k].state = "reserved" /\ ledger'[k].state = "reserved"
                BY <3>2, <4>1, <4>2 DEF Delivery
            <4>4. ledger[k] # NoDelivery /\ ledger'[k] # NoDelivery
                BY <4>3 DEF NoDelivery
            <4> QED
                BY <1>1, <2>1, <4>2, <4>3, <4>4 DEF SaveOk
        <3> QED
            BY <3>1, <3>2
    <2>2. CASE SaveFails
        BY <1>1, <2>2 DEF SaveFails, Mishap, storeVars
    <2> QED
        BY <2>1, <2>2 DEF RecordFailure
<1>6. Left(d, e)' \subseteq Left(d, e)
    <2>1. \A t \in Stages : t # s => jobs'[<<d, e, t>>] = jobs[<<d, e, t>>]
        BY <1>3, <1>4
    <2>2. jobs'[<<d, e, s>>] = "idle" /\ jobs[<<d, e, s>>] = "failing"
        BY <1>1, <1>2, <1>4
    <2>3. \A t \in Stages : ledger[<<d, e, t>>].state = "delivered"
                              => ledger'[<<d, e, t>>].state = "delivered"
        BY <1>3, <1>5
    <2> QED
        BY <1>1, <2>1, <2>2, <2>3 DEF Left, Has, Allowed
<1>7. Budget(d, e) => Budget(d, e)'
    <2>1. shown'[<<d, e>>] = shown[<<d, e>>] /\ worst'[e] = worst[e] /\ worst[e] \in Nat
        BY <1>1, <1>2, BudgetTypes
    <2>2. worst'[e] >= worst[e]
        BY <2>1
    <2> QED
        BY <1>2, <1>5, <1>6, <2>1, <2>2, BudgetKept
<1> QED
    BY <1>1, <1>4, <1>5, <1>7, DispatchKeepsAlerts

-----------------------------------------------------------------------------
\* Nothing is left where nothing was raised.
LEMMA AlertsInit == AttentionInit => AlertsInv
<1> SUFFICES ASSUME AttentionInit PROVE AlertsInv
    OBVIOUS
<1>1. /\ \A e \in Events : event[e] = NoEvent /\ ~Has(e) /\ worst[e] = 1
      /\ \A k \in Alerts : jobs[k] = "idle" /\ ledger[k] = NoDelivery
      /\ \A d \in Devices, e \in Events : shown[<<d, e>>] = 0
      /\ \A d \in Devices : lanes[d] = <<>> /\ DOMAIN lanes[d] = {}
      /\ pass = NoPass
    BY DEF AttentionInit, Has, NoEvent
<1>2. Dispatching = {}
    BY <1>1 DEF Dispatching
<1>3. StagesApart
    BY <1>1, <1>2 DEF StagesApart, OneStage
<1> QED
    BY <1>1, <1>3, AlertParts DEF AlertsInv, StagesAllowed, RecordsFit, AlertsLeft

\* The accounts stay in order in every step.
LEMMA AlertsStep ==
    ASSUME PlacesInv, PlacesInv', AlertsInv, [AttentionNext]_attentionVars
    PROVE  AlertsInv'
<1>1. ASSUME NEW e \in Events, NEW kind \in KindsRaised, Raise(e, kind) PROVE AlertsInv'
    BY <1>1, RaiseAccounts
<1>2. ASSUME NEW e \in Events, NEW d \in Devices, Dismiss(d, e) PROVE AlertsInv'
    BY <1>2, DismissAccounts
<1>3. ASSUME NEW e \in Events,
             Escalate(e) \/ Ripen(e) \/ Resolve(e) \/ Prune(e)
      PROVE  AlertsInv'
    BY <1>3, EscalateAccounts, RipenAccounts, ResolveAccounts, PruneAccounts
<1>4. CASE Crash
    BY <1>4, CrashAccounts
<1>5. CASE PassStep
    BY <1>5, StartPassAccounts, ReserveAccounts, SupersedeAccounts, CollectAccounts,
       HandOutAccounts DEF PassStep
<1>6. ASSUME NEW d \in Devices, LaneStep(d) PROVE AlertsInv'
    BY <1>6, StartBatchAccounts, ElapseAccounts, AnswerAccounts, CompleteAccounts,
       RecordFailureAccounts DEF LaneStep
<1>7. CASE UNCHANGED attentionVars
    <2>1. /\ UNCHANGED <<event, ledger, pass, lanes, jobs, mishaps, shown, worst>>
          /\ mishaps' >= mishaps
        BY <1>7 DEF attentionVars, storeVars, laneVars, PlacesInv, StoreTypes
    <2>2. StagesApart'
        BY <2>1, PassApart DEF AlertsInv
    <2> QED
        BY <2>1, <2>2, PassAccounts
<1> QED
    BY <1>1, <1>2, <1>3, <1>4, <1>5, <1>6, <1>7 DEF AttentionNext

\* "Every event alerts once" (docs/architecture/attention.md:80), once more for
\* each time it got worse: whatever the order of passes, lanes and answers, a
\* device sees a further alert only for a crash or a save that failed.
THEOREM EventsAlertOnce == AttentionSpec => []EventAlertsOnce
<1>1. ASSUME PlacesInv, AlertsInv PROVE EventAlertsOnce
    <2> SUFFICES ASSUME NEW d \in Devices, NEW e \in Events
                 PROVE  shown[<<d, e>>] <= worst[e] + mishaps
        BY DEF EventAlertsOnce
    <2>1. /\ Cardinality(Left(d, e)) \in Nat
          /\ shown[<<d, e>>] \in Nat /\ worst[e] \in Nat /\ mishaps \in Nat
        BY <1>1, BudgetTypes
    <2>2. CASE event[e] = NoEvent
        BY <1>1, <2>1, <2>2 DEF AlertsInv, RecordsFit
    <2>3. CASE event[e] # NoEvent
        <3>1. Budget(d, e)
            BY <1>1, <2>3 DEF AlertsInv, AlertsLeft
        <3> HIDE DEF Left
        <3> QED
            BY <2>1, <3>1 DEF Budget
    <2> QED
        BY <2>2, <2>3
<1>2. PlacesInv /\ PlacesInv' /\ AlertsInv /\ [AttentionNext]_attentionVars => AlertsInv'
    BY AlertsStep
<1> QED
    BY <1>1, <1>2, AlertsInit, PlacesHold, PTL DEF AttentionSpec
=============================================================================
