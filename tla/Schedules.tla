------------------------------ MODULE Schedules ------------------------------
(***************************************************************************)
(* Scheduled sends: the durable store of schedules                         *)
(* (broker/src/scheduling/schedule-store.ts), the runner that fires them   *)
(* (schedule-runner.ts), the delivery of one send and the HTTP routes that *)
(* change a schedule (runtime/runtime.ts).                                 *)
(*                                                                         *)
(* mem is the state of the store in memory, disk the file.  Every write of *)
(* the file writes all of mem, and may fail.  A delivery runs across       *)
(* awaits, a request is checked before its body has arrived, the broker    *)
(* may go down between any two steps.                                      *)
(***************************************************************************)
EXTENDS Integers, FiniteSets

CONSTANTS Rows,        \* the schedules
          Clients,     \* the requests that may be under way at once
          Grace,       \* DEFAULT_LATE_FIRE_GRACE_MS
          RetryDelay,  \* retryPolicy.delayMs
          Period,      \* from one occurrence of a recurring row to the next
          MaxRetries,  \* retryPolicy.maxRetries
          RetryOn,     \* retryPolicy.retryOn
          MaxTime, MaxSessions, MaxEdits, MaxFaults, MaxCrashes  \* bounds

FailureKinds == {"delivery", "quota"}

ASSUME SchedulesAssumption ==
    /\ {Grace, MaxRetries, MaxTime, MaxSessions, MaxEdits, MaxFaults,
        MaxCrashes} \subseteq Nat
    /\ {RetryDelay, Period} \subseteq Nat \ {0}
    /\ RetryOn \subseteq FailureKinds

VARIABLES
    now,        \* the clock
    up,         \* does the broker run
    mem, disk,  \* this.state.schedules, and what the file holds of it
    inFlight,   \* ScheduledSendRunner.inFlight
    jobs,       \* the deliveries under way
    request,    \* per client: a request that passed the isInFlight check
    made,       \* how many sessions deliveries have created
    edits, faults, crashes,          \* counters for the bounds
    sent,       \* history: the armings this process handed to an agent
    prompted,   \* history: which session an occurrence was sent to
    dropped,    \* history: rows whose cancel was acknowledged
    failures    \* history: <<row, occ, arm>> of each failure a person was told of

runVars == <<inFlight, jobs, sent, prompted, made>>
budget  == <<edits, faults, crashes>>
schedVars == <<now, up, mem, disk, runVars, request, budget, dropped, failures>>

-----------------------------------------------------------------------------
(* A row.  arm and occ are history: arm counts how often the row was made  *)
(* ready to fire, occ which logical occurrence it stands for.              *)

None == "none"
NoRow == [state |-> "absent"]
NoRequest == [action |-> None]
NoSession == 0
Live == {"scheduled", "paused"}
Finished == {"delivered", "failed", "missed", "canceled"}

Record == [state : Live \cup Finished, at : Nat, fresh : BOOLEAN,
           cyclic : BOOLEAN, attempt : 0..MaxRetries, retrying : BOOLEAN,
           pending : 0..MaxSessions, failedIn : 0..MaxSessions,
           last : {None, "delivered", "missed"} \cup FailureKinds,
           arm : Nat, occ : Nat]

Fresh(at, fresh, cyclic) ==
    [state |-> "scheduled", at |-> at, fresh |-> fresh, cyclic |-> cyclic,
     attempt |-> 0, retrying |-> FALSE, pending |-> NoSession,
     failedIn |-> NoSession, last |-> None, arm |-> 1, occ |-> 1]

IsRow(r)       == mem[r] # NoRow
IsScheduled(r) == IsRow(r) /\ mem[r].state = "scheduled"
Due == {r \in Rows : IsScheduled(r) /\ mem[r].at <= now}

ClearRetry(rec) == [rec EXCEPT !.attempt = 0, !.retrying = FALSE]

FinishAttempt(rec, delivered) ==
    IF ~rec.fresh \/ rec.pending = NoSession THEN rec
    ELSE [rec EXCEPT !.failedIn = IF delivered THEN NoSession ELSE rec.pending,
                     !.pending = NoSession]

\* recordOutcome for a scheduled row: a retry, the next occurrence, or the end.
WillRetry(rec, outcome) == outcome \in RetryOn /\ rec.attempt < MaxRetries

Settled(rec, outcome) ==
    LET delivered == outcome = "delivered"
        noted     == [rec EXCEPT !.last = outcome]
        finished  == ClearRetry(noted)
    IN  IF WillRetry(rec, outcome)
        THEN [noted EXCEPT !.attempt = @ + 1, !.retrying = TRUE,
                           !.at = now + RetryDelay, !.arm = @ + 1]
        ELSE IF rec.cyclic
        THEN [FinishAttempt(finished, delivered)
                EXCEPT !.at = now + Period, !.arm = @ + 1, !.occ = @ + 1]
        ELSE [(IF delivered THEN FinishAttempt(finished, TRUE) ELSE finished)
                EXCEPT !.state = IF outcome \in FailureKinds THEN "failed" ELSE outcome]

-----------------------------------------------------------------------------
(* The file.  A failed write leaves it alone; a broker that goes down      *)
(* loses everything else.                                                  *)

\* Mutant: a write is reported done before it is on disk.
SaveMayBeLost == (disk' = mem' \/ UNCHANGED disk) /\ UNCHANGED faults
SaveOk   == disk' = mem' /\ UNCHANGED faults
SaveFails == faults < MaxFaults /\ faults' = faults + 1 /\ UNCHANGED disk

SchedInit ==
    /\ now = 0 /\ up = TRUE
    /\ mem = [r \in Rows |-> NoRow] /\ disk = mem
    /\ inFlight = {} /\ jobs = {} /\ made = 0
    /\ request = [c \in Clients |-> NoRequest]
    /\ edits = 0 /\ faults = 0 /\ crashes = 0
    /\ sent = {} /\ prompted = {} /\ dropped = {}
    /\ failures = {}

TimePasses ==
    /\ now < MaxTime
    /\ now' = now + 1
    /\ UNCHANGED <<up, mem, disk, runVars, request, budget, dropped, failures>>

\* What the next process will read is all that is left.
Crash ==
    /\ up /\ crashes < MaxCrashes
    /\ crashes' = crashes + 1
    /\ up' = FALSE /\ mem' = disk
    /\ jobs' = {} /\ inFlight' = {} /\ sent' = {}
    /\ request' = [c \in Clients |-> NoRequest]
    /\ UNCHANGED <<now, disk, prompted, made, edits, faults, dropped, failures>>

Restart ==
    /\ ~up
    /\ up' = TRUE
    /\ UNCHANGED <<now, mem, disk, runVars, request, budget, dropped, failures>>

-----------------------------------------------------------------------------
(* The runner.                                                             *)

\* touch: a change of these rows makes the revisions others hold stale.
Touched(rows) ==
    request' = [c \in Clients |->
                  IF request[c] # NoRequest /\ request[c].row \in rows
                  THEN [request[c] EXCEPT !.stale = TRUE] ELSE request[c]]

Job(r) == [row |-> r, arm |-> mem[r].arm, occ |-> mem[r].occ,
           session |-> mem[r].pending, outcome |-> None,
           phase |-> IF mem[r].fresh /\ mem[r].pending = NoSession
                     THEN "creating" ELSE "sending"]

TooLate(r) == now - mem[r].at > Grace

\* Mutant: a pass that overlaps a delivery does not look at inFlight.
DueAnyway == Due
Ready == Due \ inFlight

\* One pass.  It does not wait for the deliveries it starts; the misses of one
\* pass are saved or lost together.
Reconcile ==
    LET late == {r \in Ready : TooLate(r)}
        fire == Ready \ late
    IN  /\ up /\ Ready # {}
        /\ inFlight' = inFlight \cup fire
        /\ jobs' = jobs \cup {Job(r) : r \in fire}
        /\ mem' = [r \in Rows |-> IF r \in late THEN Settled(mem[r], "missed") ELSE mem[r]]
        /\ IF late = {} THEN UNCHANGED <<disk, faults>> ELSE SaveOk \/ SaveFails
        /\ failures' = failures \cup {<<r, mem[r].occ, mem[r].arm>> : r \in late}
        /\ Touched(late)
        /\ UNCHANGED <<now, up, sent, prompted, made, edits, crashes, dropped>>

Over(j, outcome) == [j EXCEPT !.phase = "over", !.outcome = outcome]
Advance(j, k) == jobs' = (jobs \ {j}) \cup {k}

\* Mutant: recordPendingSession without its save.
RecordInMemory(r, s) ==
    /\ mem' = [mem EXCEPT ![r].pending = s]
    /\ Touched({r})
    /\ UNCHANGED <<disk, faults>>

RecordPending(r, s) ==
    /\ mem' = [mem EXCEPT ![r].pending = s]
    /\ Touched({r})
    /\ SaveOk

\* createSession, then recordPendingSession: the new session is on disk before
\* the prompt leaves, or the delivery fails.
CreateSession(j) ==
    LET r == j.row
        s == made + 1
        ready == IsScheduled(r) /\ mem[r].pending = NoSession
    IN  /\ j.phase = "creating" /\ made < MaxSessions
        /\ made' = s
        /\ \/ /\ ready
              /\ RecordPending(r, s)
              /\ Advance(j, [j EXCEPT !.phase = "sending", !.session = s])
           \/ /\ ready /\ SaveFails
              /\ Advance(j, Over(j, "delivery"))
              /\ UNCHANGED <<mem, request>>
           \/ /\ ~ready
              /\ Advance(j, Over(j, "delivery"))
              /\ UNCHANGED <<mem, disk, faults, request>>
        /\ UNCHANGED <<now, up, inFlight, sent, prompted, edits, crashes, dropped, failures>>

\* The attach ladder gives out, or the agent refuses the prompt.
FailToSend(j) ==
    /\ j.phase \in {"creating", "sending"}
    /\ \E kind \in FailureKinds : Advance(j, Over(j, kind))
    /\ UNCHANGED <<now, up, mem, disk, inFlight, sent, prompted, made, request, budget,
                   dropped, failures>>

\* The agent has the prompt.
HandOver(j) ==
    /\ j.phase = "sending"
    /\ Advance(j, Over(j, "delivered"))
    /\ sent' = sent \cup {<<j.row, j.arm>>}
    /\ prompted' = prompted \cup {<<j.row, j.occ, j.session>>}
    /\ UNCHANGED <<now, up, mem, disk, inFlight, made, request, budget, dropped, failures>>

\* Mutant: the outcome is rolled back when its save fails, as a request would be.
RecordOrUndo(r, outcome) ==
    \/ /\ mem' = [mem EXCEPT ![r] = Settled(@, outcome)]
       /\ SaveOk
       /\ Touched({r})
    \/ SaveFails /\ UNCHANGED <<mem, request>>

\* recordOutcome: the outcome stays in memory though its save fails.
RecordOutcome(r, outcome) ==
    /\ mem' = [mem EXCEPT ![r] = Settled(@, outcome)]
    /\ SaveOk \/ SaveFails
    /\ Touched({r})

\* Mutant: a settlement that throws leaves the row in flight.
LeaveFlightIfSaved(r) == inFlight' = IF faults' = faults THEN inFlight \ {r} ELSE inFlight
LeaveFlight(r) == inFlight' = inFlight \ {r}

\* settle.  A row that is no longer scheduled is left alone, and the outcome is
\* told all the same.
Settle(j) ==
    LET r == j.row
        kept == IsScheduled(r)
        retry == kept /\ WillRetry(mem[r], j.outcome)
    IN  /\ j.phase = "over"
        /\ jobs' = jobs \ {j}
        /\ IF kept
           THEN RecordOutcome(r, j.outcome)
           ELSE UNCHANGED <<mem, disk, faults, request>>
        /\ LeaveFlight(r)
        /\ failures' = IF retry \/ j.outcome = "delivered" THEN failures
                       ELSE failures \cup {<<r, j.occ, j.arm>>}
        /\ UNCHANGED <<now, up, sent, prompted, made, edits, crashes, dropped>>

-----------------------------------------------------------------------------
(* The HTTP routes.  A change of a row is refused while the row is in      *)
(* flight; then, but for a delete, the body is awaited; then the row is    *)
(* changed.                                                                *)

Actions == {"pause", "resume", "run-now", "recover-quota", "update"}

Create(r) ==
    /\ up /\ ~IsRow(r) /\ edits < MaxEdits /\ r \notin dropped
    /\ edits' = edits + 1
    /\ \/ /\ \E at \in now..MaxTime, fresh \in BOOLEAN, cyclic \in BOOLEAN :
                /\ cyclic => fresh
                /\ mem' = [mem EXCEPT ![r] = Fresh(at, fresh, cyclic)]
          /\ SaveOk
       \/ SaveFails /\ UNCHANGED mem
    /\ UNCHANGED <<now, up, runVars, request, crashes, dropped, failures>>

RequestArrives(c, r, action) ==
    /\ up /\ request[c] = NoRequest /\ edits < MaxEdits
    /\ IsRow(r) /\ r \notin inFlight
    /\ edits' = edits + 1
    /\ request' = [request EXCEPT ![c] = [row |-> r, action |-> action, stale |-> FALSE]]
    /\ UNCHANGED <<now, up, mem, disk, runVars, faults, crashes, dropped, failures>>

Rearmed(rec) == [rec EXCEPT !.arm = @ + 1]

RunAgain(rec) ==
    Rearmed([ClearRetry(rec) EXCEPT
        !.state = "scheduled", !.at = now, !.last = None, !.failedIn = NoSession,
        !.pending = IF rec.fresh /\ @ = NoSession THEN rec.failedIn ELSE @,
        !.occ = IF rec.state = "scheduled" THEN @ ELSE @ + 1])

\* A PATCH: perhaps another time; and a row that makes sessions may be given a
\* recurrence, or lose it.
Updated(rec, cyclic) ==
    {Rearmed([ClearRetry(rec) EXCEPT !.at = at, !.cyclic = cyclic, !.last = None,
                                     !.failedIn = NoSession]) :
        at \in {rec.at} \cup now..MaxTime}

\* What the store makes of a row: the outcomes of the action, none if it is refused.
Edited(rec, action) ==
    CASE action = "pause" ->
           IF rec.state = "scheduled" THEN {[rec EXCEPT !.state = "paused"]} ELSE {}
      [] action = "resume" ->
           IF rec.state = "paused" THEN {Rearmed([rec EXCEPT !.state = "scheduled"])} ELSE {}
      [] action = "run-now" ->
           IF rec.state \in {"scheduled", "failed", "missed"} THEN {RunAgain(rec)} ELSE {}
      [] action = "recover-quota" ->
           IF rec.state \in {"scheduled", "failed"} /\ rec.last = "quota" /\ ~rec.retrying
           THEN {RunAgain(rec)} ELSE {}
      [] action = "update" ->
           IF rec.state \in Live
           THEN Updated(rec, FALSE) \cup Updated(rec, rec.fresh)
           ELSE {}

\* The body is there.  A refused change, or one whose save fails, leaves nothing.
Apply(c) ==
    LET r == request[c].row
        action == request[c].action
        current == IsRow(r) /\ ~request[c].stale
    IN  /\ up /\ request[c] # NoRequest
        /\ \/ /\ current
              /\ \E new \in Edited(mem[r], action) : mem' = [mem EXCEPT ![r] = new]
              /\ SaveOk
              /\ request' = [d \in Clients |->
                               IF d = c THEN NoRequest
                               ELSE IF request[d] # NoRequest /\ request[d].row = r
                               THEN [request[d] EXCEPT !.stale = TRUE] ELSE request[d]]
           \/ /\ current => Edited(mem[r], action) = {} \/ faults < MaxFaults
              /\ faults' = IF current /\ Edited(mem[r], action) # {} THEN faults + 1 ELSE faults
              /\ request' = [request EXCEPT ![c] = NoRequest]
              /\ UNCHANGED <<mem, disk>>
        /\ UNCHANGED <<now, up, runVars, edits, crashes, dropped, failures>>

\* DELETE cancels a live row, and takes a finished one off the list.
Delete(r) ==
    /\ up /\ IsRow(r) /\ r \notin inFlight /\ edits < MaxEdits
    /\ edits' = edits + 1
    /\ \/ /\ mem' = [mem EXCEPT ![r] = IF @.state \in Live
                                       THEN [ClearRetry(@) EXCEPT !.state = "canceled"]
                                       ELSE NoRow]
          /\ dropped' = dropped \cup {r}
          /\ SaveOk
          /\ Touched({r})
       \/ SaveFails /\ UNCHANGED <<mem, dropped, request>>
    /\ UNCHANGED <<now, up, runVars, crashes, failures>>

-----------------------------------------------------------------------------
SchedNext ==
    \/ TimePasses \/ Crash \/ Restart \/ Reconcile
    \/ \E j \in jobs : CreateSession(j) \/ FailToSend(j) \/ HandOver(j) \/ Settle(j)
    \/ \E r \in Rows : Create(r) \/ Delete(r)
    \/ \E c \in Clients : Apply(c)
    \/ \E c \in Clients, r \in Rows, a \in Actions : RequestArrives(c, r, a)

SchedSpec == SchedInit /\ [][SchedNext]_schedVars

\* The timer re-arms itself after every pass; an attach, a create or a prompt
\* ends one way or the other; the outcome is settled as soon as it is known.
SchedFairness ==
    /\ WF_schedVars(Reconcile)
    /\ WF_schedVars(\E j \in jobs : CreateSession(j) \/ FailToSend(j) \/ HandOver(j))
    /\ WF_schedVars(\E j \in jobs : Settle(j))

-----------------------------------------------------------------------------
Phases == {"creating", "sending", "over"}
Jobs == [row : Rows, arm : Nat, occ : Nat, session : 0..MaxSessions, phase : Phases,
         outcome : {None, "delivered"} \cup FailureKinds]
Requests == [row : Rows, action : Actions, stale : BOOLEAN]

\* Types; and a delivery is under way for a row just when the runner holds it
\* in flight, so that a row is never delivered twice at once.
SchedulesTypeOK ==
    /\ now \in 0..MaxTime /\ up \in BOOLEAN
    /\ mem \in [Rows -> Record \cup {NoRow}] /\ disk \in [Rows -> Record \cup {NoRow}]
    /\ inFlight \subseteq Rows /\ jobs \subseteq Jobs /\ made \in 0..MaxSessions
    /\ request \in [Clients -> Requests \cup {NoRequest}]
    /\ edits \in 0..MaxEdits /\ faults \in 0..MaxFaults /\ crashes \in 0..MaxCrashes
    /\ sent \subseteq Rows \X Nat /\ prompted \subseteq Rows \X Nat \X (0..MaxSessions)
    /\ dropped \subseteq Rows /\ failures \subseteq Rows \X Nat \X Nat
    /\ inFlight = {j.row : j \in jobs}
    /\ \A j, k \in jobs : j.row = k.row => j = k

\* One process hands a prompt to an agent once for each time the row was made
\* ready to fire, whatever fails to be saved and however requests and passes
\* interleave (schedule-store.ts:766-768: "so this broker process never
\* redelivers it").
SendsOncePerArming ==
    [][\A j \in jobs : HandOver(j) => <<j.row, j.arm>> \notin sent]_schedVars

\* All prompts of one occurrence go to one session, across retries, failing
\* saves and restarts of the broker (recordPendingSession).
PromptsOneSession ==
    \A p, q \in prompted : p[1] = q[1] /\ p[2] = q[2] => p[3] = q[3]

\* Once a cancel was acknowledged no delivery of the row begins, in this
\* process or after a restart.
CanceledNeverStarts ==
    [][\A r \in dropped : r \in inFlight' => r \in inFlight]_schedVars

\* A due row of a running broker does not stay due for ever: it is sent,
\* retried, advanced, or marked.
DueIsHandled ==
    \A r \in Rows : (up /\ r \in Due) ~> (~up \/ r \notin Due)

\* What the runner says of itself (schedule-runner.ts:175-176): "one logical
\* occurrence produces at most one user-facing failure event".
OneFailureNotice ==
    \A p, q \in failures : p[1] = q[1] /\ p[2] = q[2] => p = q
=============================================================================
