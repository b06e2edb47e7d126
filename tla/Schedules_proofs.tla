-------------------------- MODULE Schedules_proofs ---------------------------
(***************************************************************************)
(* What Schedules promises for any number of rows and of clients, for any  *)
(* retry policy, and whichever writes fail and whenever the broker goes    *)
(* down.                                                                   *)
(***************************************************************************)
EXTENDS Schedules, TLAPS

-----------------------------------------------------------------------------
(* The inductive invariant.                                                *)

\* Only a schedule that creates its session remembers one, and only such a
\* schedule recurs.
RowShape(rec) ==
    rec = NoRow \/ /\ rec \in Record
                   /\ rec.cyclic => rec.fresh
                   /\ ~rec.fresh => rec.pending = NoSession /\ rec.failedIn = NoSession

\* A row and what the file holds of it: the session made for an occurrence is
\* in the file as soon as it is in the row.
Twin(m, d) ==
    /\ m = NoRow <=> d = NoRow
    /\ m # NoRow => /\ d.fresh = m.fresh
                    /\ m.pending # NoSession => d.pending = m.pending /\ d.occ = m.occ

RowsFit == \A r \in Rows : RowShape(mem[r]) /\ RowShape(disk[r]) /\ Twin(mem[r], disk[r])

\* A row whose cancel was acknowledged has left, in memory and on disk.
DroppedStay ==
    \A r \in dropped : /\ mem[r].state \in {"absent", "canceled"}
                       /\ disk[r].state \in {"absent", "canceled"}

\* A delivery and the row it is for.
JobFits(j, rec, sends) ==
    /\ rec # NoRow /\ rec.state \in Live
    /\ j.arm <= rec.arm
    /\ IF j.phase = "over" THEN j.outcome # None
       ELSE j.occ = rec.occ /\ <<j.row, j.arm>> \notin sends
    /\ j.phase = "creating" => rec.fresh
    /\ j.phase = "sending" => IF rec.fresh
                              THEN j.session # NoSession /\ j.session = rec.pending
                              ELSE j.session = NoSession

JobsFit == \A j \in jobs : j.row \notin dropped /\ JobFits(j, mem[j.row], sent)

\* An arming that was handed over is over, or its row waits no more, or its
\* delivery is still to be settled.
SentFits ==
    \A r \in Rows, a \in Nat : <<r, a>> \in sent =>
        \/ r \in dropped
        \/ /\ mem[r] # NoRow /\ a <= mem[r].arm
           /\ a = mem[r].arm => mem[r].state # "scheduled" \/ r \in inFlight

\* As long as an occurrence can be delivered again its session is remembered.
Remembers(rec, o, s) ==
    o <= rec.occ /\ (o = rec.occ => rec.pending = s \/ rec.state \in {"delivered", "canceled"})

PromptedFits ==
    \A r \in Rows, o \in Nat, s \in 0..MaxSessions : <<r, o, s>> \in prompted =>
        \/ r \in dropped
        \/ /\ mem[r] # NoRow
           /\ IF mem[r].fresh
              THEN s # NoSession /\ Remembers(mem[r], o, s) /\ Remembers(disk[r], o, s)
              ELSE s = NoSession

SchedIInv ==
    /\ SchedulesTypeOK /\ RowsFit /\ DroppedStay /\ JobsFit /\ SentFits
    /\ PromptedFits /\ PromptsOneSession

-----------------------------------------------------------------------------
(* What a change makes of a row.                                           *)

\* Every change of a row but its creation and its removal.
Evolves(rec, new) ==
    /\ rec.state \notin {"canceled", "delivered"}
    /\ RowShape(new) /\ new # NoRow
    /\ new.fresh = rec.fresh
    /\ rec.arm <= new.arm
    /\ rec.occ <= new.occ
    /\ new.occ = rec.occ /\ rec.pending # NoSession =>
          new.pending = rec.pending \/ new.state = "delivered"

Outcomes == {"delivered", "missed"} \cup FailureKinds

\* The constants the bounds and delays are made of.
LEMMA Numbers ==
    /\ Grace \in Nat /\ MaxRetries \in Nat /\ MaxTime \in Nat /\ MaxSessions \in Nat
    /\ MaxEdits \in Nat /\ MaxFaults \in Nat /\ MaxCrashes \in Nat
    /\ RetryDelay \in Nat /\ Period \in Nat /\ 0 \in 0..MaxRetries
    /\ NoSession \in 0..MaxSessions /\ RetryOn \subseteq FailureKinds
<1>1. RetryDelay \in Nat \ {0} /\ Period \in Nat \ {0} /\ RetryOn \subseteq FailureKinds
    BY SchedulesAssumption, Zenon
<1>2. /\ Grace \in Nat /\ MaxRetries \in Nat /\ MaxTime \in Nat /\ MaxSessions \in Nat
      /\ MaxEdits \in Nat /\ MaxFaults \in Nat /\ MaxCrashes \in Nat
    BY SchedulesAssumption, Zenon
<1> QED
    BY <1>1, <1>2 DEF NoSession

\* An absent row is not a record.
LEMMA NoRowIsNone == NoRow \notin Record /\ NoRow.state = "absent"
BY DEF NoRow, Record, Live, Finished

\* clearRetry.
LEMMA ClearRetryFacts ==
    ASSUME NEW rec \in Record
    PROVE  LET new == ClearRetry(rec) IN
           /\ new \in Record /\ new.state = rec.state /\ new.fresh = rec.fresh
           /\ new.cyclic = rec.cyclic /\ new.pending = rec.pending
           /\ new.failedIn = rec.failedIn /\ new.arm = rec.arm /\ new.occ = rec.occ
           /\ new.at = rec.at /\ new.last = rec.last
<1>1. ClearRetry(rec) = [rec EXCEPT !.attempt = 0, !.retrying = FALSE]
    BY DEF ClearRetry
<1> QED
    BY <1>1, Numbers DEF Record

\* finishCreatedSessionAttempt.
LEMMA FinishAttemptFacts ==
    ASSUME NEW rec \in Record, NEW delivered \in BOOLEAN
    PROVE  LET new == FinishAttempt(rec, delivered) IN
           /\ new \in Record /\ new.state = rec.state /\ new.fresh = rec.fresh
           /\ new.cyclic = rec.cyclic /\ new.arm = rec.arm /\ new.occ = rec.occ
           /\ new.pending = IF rec.fresh THEN NoSession ELSE rec.pending
           /\ ~rec.fresh => new.failedIn = rec.failedIn
<1>1. NoSession \in 0..MaxSessions
    BY Numbers
<1>2. (IF delivered THEN NoSession ELSE rec.pending) \in 0..MaxSessions
    BY <1>1 DEF Record
<1> QED
    BY <1>1, <1>2 DEF Record, FinishAttempt

\* recordOutcome: the row is armed anew or no longer scheduled, and a session
\* stays with its occurrence until that is over.
LEMMA SettledFacts ==
    ASSUME NEW rec \in Record, RowShape(rec), rec.state = "scheduled",
           NEW outcome \in Outcomes, now \in Nat
    PROVE  LET new == Settled(rec, outcome) IN
           /\ Evolves(rec, new)
           /\ new.state = "scheduled" => rec.arm < new.arm
           /\ new.pending # NoSession => new.pending = rec.pending /\ new.occ = rec.occ
<1> DEFINE noted == [rec EXCEPT !.last = outcome]
           finished == ClearRetry(noted)
           new == Settled(rec, outcome)
<1>1. rec # NoRow /\ now + RetryDelay \in Nat /\ now + Period \in Nat
      /\ rec.arm + 1 \in Nat /\ rec.occ + 1 \in Nat /\ rec.arm \in Nat /\ rec.occ \in Nat
    BY NoRowIsNone, Numbers DEF Record
<1>2. /\ noted \in Record /\ noted.state = rec.state /\ noted.fresh = rec.fresh
      /\ noted.cyclic = rec.cyclic /\ noted.pending = rec.pending
      /\ noted.failedIn = rec.failedIn /\ noted.arm = rec.arm /\ noted.occ = rec.occ
      /\ noted.attempt = rec.attempt
    BY DEF Record, Outcomes
<1>3. /\ finished \in Record /\ finished.state = rec.state /\ finished.fresh = rec.fresh
      /\ finished.cyclic = rec.cyclic /\ finished.pending = rec.pending
      /\ finished.failedIn = rec.failedIn /\ finished.arm = rec.arm /\ finished.occ = rec.occ
    BY <1>2, ClearRetryFacts
<1>4. CASE WillRetry(rec, outcome)
    <2>1. new = [noted EXCEPT !.attempt = @ + 1, !.retrying = TRUE,
                              !.at = now + RetryDelay, !.arm = @ + 1]
        BY <1>4 DEF Settled
    <2>2. noted.attempt + 1 \in 0..MaxRetries
        BY <1>2, <1>4, Numbers DEF WillRetry, Record
    <2> HIDE DEF noted, new
    <2>3. new \in Record
        BY <1>1, <1>2, <2>1, <2>2 DEF Record
    <2>4. /\ new.state = rec.state /\ new.fresh = rec.fresh /\ new.cyclic = rec.cyclic
          /\ new.pending = rec.pending /\ new.failedIn = rec.failedIn
          /\ new.arm = rec.arm + 1 /\ new.occ = rec.occ
        BY <1>1, <1>2, <2>1 DEF Record
    <2>5. Evolves(rec, new)
        BY <1>1, <2>3, <2>4, NoRowIsNone DEF Evolves, RowShape
    <2> QED
        BY <1>1, <2>4, <2>5 DEF new
<1>5. CASE ~WillRetry(rec, outcome) /\ rec.cyclic
    <2> DEFINE attempt == FinishAttempt(finished, outcome = "delivered")
    <2>1. new = [attempt EXCEPT !.at = now + Period, !.arm = @ + 1, !.occ = @ + 1]
        BY <1>5 DEF Settled
    <2>2. /\ attempt \in Record /\ attempt.state = rec.state /\ attempt.fresh = rec.fresh
          /\ attempt.cyclic = rec.cyclic /\ attempt.arm = rec.arm /\ attempt.occ = rec.occ
          /\ attempt.pending = NoSession
        BY <1>1, <1>3, <1>5, FinishAttemptFacts DEF RowShape
    <2> HIDE DEF attempt, new
    <2>3. new \in Record
        BY <1>1, <2>1, <2>2 DEF Record
    <2>4. /\ new.state = rec.state /\ new.fresh = rec.fresh /\ new.cyclic = rec.cyclic
          /\ new.pending = NoSession /\ new.arm = rec.arm + 1 /\ new.occ = rec.occ + 1
        BY <1>1, <2>1, <2>2 DEF Record
    <2>5. Evolves(rec, new)
        BY <1>1, <1>5, <2>3, <2>4, NoRowIsNone DEF Evolves, RowShape
    <2> QED
        BY <1>1, <2>4, <2>5 DEF new
<1>6. CASE ~WillRetry(rec, outcome) /\ ~rec.cyclic
    <2> DEFINE ended == IF outcome = "delivered" THEN FinishAttempt(finished, TRUE) ELSE finished
               final == IF outcome \in FailureKinds THEN "failed" ELSE outcome
    <2>1. new = [ended EXCEPT !.state = final]
        BY <1>6 DEF Settled
    <2>2. /\ ended \in Record /\ ended.fresh = rec.fresh /\ ended.cyclic = rec.cyclic
          /\ ended.arm = rec.arm /\ ended.occ = rec.occ
          /\ \/ ended.pending = rec.pending
             \/ rec.fresh /\ ended.pending = NoSession /\ outcome = "delivered"
          /\ ~rec.fresh => ended.failedIn = rec.failedIn
        BY <1>3, FinishAttemptFacts
    <2>3. final \in Finished /\ (outcome = "delivered" => final = "delivered")
        BY DEF Outcomes, FailureKinds, Finished
    <2> HIDE DEF ended, final, new
    <2>4. new \in Record
        BY <2>1, <2>2, <2>3 DEF Record
    <2>5. /\ new.state = final /\ new.fresh = rec.fresh /\ new.cyclic = rec.cyclic
          /\ new.arm = rec.arm /\ new.occ = rec.occ
          /\ new.pending = ended.pending /\ new.failedIn = ended.failedIn
        BY <2>1, <2>2 DEF Record
    <2>6. Evolves(rec, new)
        BY <1>1, <2>2, <2>3, <2>4, <2>5, NoRowIsNone DEF Evolves, RowShape
    <2>7. new.state # "scheduled"
        BY <2>3, <2>5 DEF Finished
    <2> QED
        BY <2>2, <2>5, <2>6, <2>7 DEF new
<1> QED
    BY <1>4, <1>5, <1>6

\* runNow and recoverQuota.
LEMMA RunAgainFacts ==
    ASSUME NEW rec \in Record, RowShape(rec), now \in Nat,
           rec.state \notin {"canceled", "delivered"}
    PROVE  LET new == RunAgain(rec) IN
           /\ Evolves(rec, new) /\ new.state = "scheduled" /\ rec.arm < new.arm
           /\ rec.state = "scheduled" => new.occ = rec.occ
           /\ rec.pending # NoSession => new.pending = rec.pending
<1> DEFINE cleared == ClearRetry(rec)
           kept == IF rec.fresh /\ cleared.pending = NoSession THEN rec.failedIn ELSE cleared.pending
           same == IF rec.state = "scheduled" THEN cleared.occ ELSE cleared.occ + 1
           again == [cleared EXCEPT !.state = "scheduled", !.at = now, !.last = None,
                                    !.failedIn = NoSession, !.pending = kept, !.occ = same]
           new == RunAgain(rec)
<1>1. /\ cleared \in Record /\ cleared.fresh = rec.fresh /\ cleared.cyclic = rec.cyclic
      /\ cleared.pending = rec.pending /\ cleared.failedIn = rec.failedIn
      /\ cleared.arm = rec.arm /\ cleared.occ = rec.occ
    BY ClearRetryFacts
<1>2. new = [again EXCEPT !.arm = @ + 1]
    BY DEF RunAgain, Rearmed
<1>3. /\ kept \in 0..MaxSessions /\ same \in Nat /\ NoSession \in 0..MaxSessions
      /\ rec.occ <= same /\ (rec.state = "scheduled" => same = rec.occ)
      /\ ~rec.fresh => kept = rec.pending
      /\ rec.pending # NoSession => kept = rec.pending
      /\ rec.arm \in Nat /\ rec.arm + 1 \in Nat /\ rec # NoRow
    BY <1>1, Numbers, NoRowIsNone DEF Record
<1> HIDE DEF cleared, kept, same
<1>4. /\ again \in Record /\ again.state = "scheduled" /\ again.fresh = rec.fresh
      /\ again.cyclic = rec.cyclic /\ again.pending = kept /\ again.failedIn = NoSession
      /\ again.arm = rec.arm /\ again.occ = same
    BY <1>1, <1>3 DEF Record, Live
<1> HIDE DEF again, new
<1>5. /\ new \in Record /\ new.state = "scheduled" /\ new.fresh = rec.fresh
      /\ new.cyclic = rec.cyclic /\ new.pending = kept /\ new.failedIn = NoSession
      /\ new.arm = rec.arm + 1 /\ new.occ = same
    BY <1>2, <1>3, <1>4 DEF Record
<1>6. Evolves(rec, new)
    BY <1>3, <1>5, NoRowIsNone DEF Evolves, RowShape
<1> QED
    BY <1>3, <1>5, <1>6 DEF new

\* A mutation a person asked for: a row that waits afterwards is armed anew,
\* and a row that is live stands for the same occurrence as before.
LEMMA EditedFacts ==
    ASSUME NEW rec \in Record, RowShape(rec), now \in Nat,
           NEW action \in Actions, NEW new \in Edited(rec, action)
    PROVE  /\ Evolves(rec, new) /\ new.state \in Live
           /\ new.state = "scheduled" => rec.arm < new.arm
           /\ rec.state \in Live => new.occ = rec.occ
           /\ rec.pending # NoSession => new.pending = rec.pending
<1>0. rec # NoRow /\ rec.arm \in Nat /\ rec.occ \in Nat /\ rec.arm + 1 \in Nat
    BY NoRowIsNone DEF Record
<1>1. CASE action = "pause"
    <2>1. rec.state = "scheduled" /\ new = [rec EXCEPT !.state = "paused"]
        BY <1>1 DEF Edited
    <2>2. /\ new \in Record /\ new.state = "paused" /\ new.fresh = rec.fresh
          /\ new.cyclic = rec.cyclic /\ new.pending = rec.pending
          /\ new.failedIn = rec.failedIn /\ new.arm = rec.arm /\ new.occ = rec.occ
        BY <2>1 DEF Record, Live
    <2> QED
        BY <1>0, <2>1, <2>2, NoRowIsNone DEF Evolves, RowShape, Live
<1>2. CASE action = "resume"
    <2>1. rec.state = "paused"
          /\ new = [[rec EXCEPT !.state = "scheduled"] EXCEPT !.arm = @ + 1]
        BY <1>2 DEF Edited, Rearmed
    <2>2. /\ new \in Record /\ new.state = "scheduled" /\ new.fresh = rec.fresh
          /\ new.cyclic = rec.cyclic /\ new.pending = rec.pending
          /\ new.failedIn = rec.failedIn /\ new.arm = rec.arm + 1 /\ new.occ = rec.occ
        BY <1>0, <2>1 DEF Record, Live
    <2> QED
        BY <1>0, <2>1, <2>2, NoRowIsNone DEF Evolves, RowShape, Live
<1>3. CASE action \in {"run-now", "recover-quota"}
    <2>1. rec.state \in {"scheduled", "failed", "missed"} /\ new = RunAgain(rec)
        BY <1>3 DEF Edited
    <2> QED
        BY <2>1, RunAgainFacts DEF Live
<1>4. CASE action = "update"
    <2>0. PICK cyclic \in {FALSE, rec.fresh} : rec.state \in Live /\ new \in Updated(rec, cyclic)
        BY <1>4 DEF Edited
    <2>1. PICK at \in {rec.at} \cup now..MaxTime :
              new = Rearmed([ClearRetry(rec) EXCEPT !.at = at, !.cyclic = cyclic,
                                                    !.last = None, !.failedIn = NoSession])
        BY <2>0 DEF Updated
    <2> DEFINE cleared == ClearRetry(rec)
               moved == [cleared EXCEPT !.at = at, !.cyclic = cyclic, !.last = None,
                                        !.failedIn = NoSession]
    <2>2. /\ cleared \in Record /\ cleared.state = rec.state /\ cleared.fresh = rec.fresh
          /\ cleared.cyclic = rec.cyclic /\ cleared.pending = rec.pending
          /\ cleared.arm = rec.arm /\ cleared.occ = rec.occ
        BY ClearRetryFacts
    <2>3. /\ at \in Nat /\ NoSession \in 0..MaxSessions
          /\ cyclic \in BOOLEAN /\ (cyclic => rec.fresh)
        <3>1. rec.fresh \in BOOLEAN
            BY DEF Record
        <3>2. cyclic \in BOOLEAN /\ (cyclic => rec.fresh)
            BY <3>1, Zenon
        <3> QED
            BY <3>2, Numbers DEF Record
    <2>4. new = [moved EXCEPT !.arm = @ + 1]
        BY <2>1 DEF Rearmed
    <2> HIDE DEF cleared
    <2>5. /\ moved \in Record /\ moved.state = rec.state /\ moved.fresh = rec.fresh
          /\ moved.cyclic = cyclic /\ moved.pending = rec.pending
          /\ moved.failedIn = NoSession /\ moved.arm = rec.arm /\ moved.occ = rec.occ
        BY <2>2, <2>3 DEF Record
    <2> HIDE DEF moved
    <2>6. /\ new \in Record /\ new.state = rec.state /\ new.fresh = rec.fresh
          /\ new.cyclic = cyclic /\ new.pending = rec.pending
          /\ new.failedIn = NoSession /\ new.arm = rec.arm + 1 /\ new.occ = rec.occ
        BY <1>0, <2>4, <2>5 DEF Record
    <2> QED
        BY <1>0, <2>0, <2>3, <2>6, NoRowIsNone DEF Evolves, RowShape, Live
<1> QED
    BY <1>1, <1>2, <1>3, <1>4 DEF Actions

\* What was sent for an occurrence stays remembered as the row evolves.
LEMMA EvolvesRemembers ==
    ASSUME NEW rec \in Record, NEW new, Evolves(rec, new), NEW o \in Nat,
           NEW s \in Nat \ {0}, Remembers(rec, o, s)
    PROVE  Remembers(new, o, s)
<1>1. new \in Record
    BY DEF Evolves, RowShape
<1> QED
    BY <1>1 DEF Evolves, Remembers, Record, NoSession

-----------------------------------------------------------------------------
(* Steps that change rows.                                                 *)

\* A write of the file: it is all of memory, or what it was.  A write that
\* fails leaves no new session behind.
Written ==
    \/ disk' = mem'
    \/ /\ disk' = disk
       /\ \A r \in Rows : mem'[r] = mem[r] \/
             (mem'[r].pending # NoSession => /\ mem'[r].pending = mem[r].pending
                                             /\ mem'[r].occ = mem[r].occ)

\* Rows that evolve stay in order with the file, with the sends of the past
\* and with the cancels that were acknowledged.
LEMMA EvolveKeeps ==
    ASSUME SchedulesTypeOK, RowsFit, DroppedStay, PromptedFits,
           mem' \in [Rows -> Record \cup {NoRow}],
           \A r \in Rows : mem'[r] = mem[r] \/ (mem[r] # NoRow /\ Evolves(mem[r], mem'[r])),
           Written, UNCHANGED <<dropped, prompted>>
    PROVE  RowsFit' /\ DroppedStay' /\ PromptedFits'
<1>0. /\ mem \in [Rows -> Record \cup {NoRow}] /\ disk \in [Rows -> Record \cup {NoRow}]
      /\ dropped \subseteq Rows
    BY DEF SchedulesTypeOK
<1>1. ASSUME NEW r \in Rows
      PROVE  /\ RowShape(mem'[r]) /\ (mem'[r] = NoRow <=> mem[r] = NoRow)
             /\ mem[r] # NoRow => mem'[r].fresh = mem[r].fresh
    BY DEF RowsFit, Evolves
<1>2. RowsFit'
    <2> SUFFICES ASSUME NEW r \in Rows
                 PROVE  RowShape(mem'[r]) /\ RowShape(disk'[r]) /\ Twin(mem'[r], disk'[r])
        BY DEF RowsFit
    <2>1. CASE disk' = mem'
        BY <1>1, <2>1 DEF Twin
    <2>2. CASE disk' = disk /\ mem'[r] = mem[r]
        BY <2>2 DEF RowsFit
    <2>3. CASE /\ disk' = disk
               /\ mem'[r].pending # NoSession => /\ mem'[r].pending = mem[r].pending
                                                 /\ mem'[r].occ = mem[r].occ
        BY <1>1, <2>3 DEF RowsFit, Twin
    <2> QED
        BY <2>1, <2>2, <2>3 DEF Written
<1>3. DroppedStay'
    <2> SUFFICES ASSUME NEW r \in dropped
                 PROVE  /\ mem'[r].state \in {"absent", "canceled"}
                        /\ disk'[r].state \in {"absent", "canceled"}
        BY DEF DroppedStay
    <2>1. mem[r] = NoRow \/ mem[r].state = "canceled"
        BY <1>0, NoRowIsNone DEF DroppedStay, Record, Live, Finished
    <2>2. mem'[r] = mem[r]
        BY <1>0, <2>1 DEF Evolves
    <2> QED
        BY <1>0, <2>2 DEF DroppedStay, Written
<1>4. PromptedFits'
    <2> SUFFICES ASSUME NEW r \in Rows, NEW o \in Nat, NEW s \in 0..MaxSessions,
                        <<r, o, s>> \in prompted, r \notin dropped
                 PROVE  /\ mem'[r] # NoRow
                        /\ IF mem'[r].fresh
                           THEN /\ s # NoSession /\ Remembers(mem'[r], o, s)
                                /\ Remembers(disk'[r], o, s)
                           ELSE s = NoSession
        BY DEF PromptedFits
    <2>1. /\ mem[r] # NoRow /\ mem[r] \in Record
          /\ IF mem[r].fresh
             THEN s # NoSession /\ Remembers(mem[r], o, s) /\ Remembers(disk[r], o, s)
             ELSE s = NoSession
        BY <1>0 DEF PromptedFits
    <2>2. mem'[r] # NoRow /\ mem'[r].fresh = mem[r].fresh
        BY <1>1, <2>1
    <2>3. CASE ~mem[r].fresh
        BY <2>1, <2>2, <2>3
    <2>4. CASE mem[r].fresh
        <3>1. s \in Nat \ {0}
            BY <2>1, <2>4, Numbers DEF NoSession
        <3>2. Remembers(mem'[r], o, s)
            BY <2>1, <2>4, <3>1, EvolvesRemembers
        <3>3. Remembers(disk'[r], o, s)
            BY <2>1, <2>4, <3>2 DEF Written
        <3> QED
            BY <2>1, <2>2, <2>4, <3>2, <3>3
    <2> QED
        BY <2>3, <2>4
<1> QED
    BY <1>2, <1>3, <1>4

\* Nothing is said of the clock, the requests and the counters but their types.
LEMMA Untouched ==
    ASSUME SchedIInv, UNCHANGED <<mem, disk, jobs, inFlight, sent, prompted, dropped>>
    PROVE  /\ RowsFit' /\ DroppedStay' /\ JobsFit' /\ SentFits'
           /\ PromptedFits' /\ PromptsOneSession'
BY DEF SchedIInv, RowsFit, DroppedStay, JobsFit, SentFits, PromptedFits, PromptsOneSession

\* A request that was overtaken is still a request.
LEMMA TouchedTypes ==
    ASSUME SchedulesTypeOK, NEW rows, Touched(rows)
    PROVE  request' \in [Clients -> Requests \cup {NoRequest}]
<1>1. ASSUME NEW c \in Clients, request[c] # NoRequest
      PROVE  [request[c] EXCEPT !.stale = TRUE] \in Requests
    BY <1>1 DEF SchedulesTypeOK, Requests
<1> QED
    BY <1>1 DEF Touched, SchedulesTypeOK

\* A write that fails is counted.
LEMMA SaveTypes ==
    ASSUME SchedulesTypeOK, mem' \in [Rows -> Record \cup {NoRow}], SaveOk \/ SaveFails
    PROVE  disk' \in [Rows -> Record \cup {NoRow}] /\ faults' \in 0..MaxFaults
BY Numbers DEF SchedulesTypeOK, SaveOk, SaveFails

\* The clock goes on.
LEMMA TimePassesKeeps == ASSUME SchedIInv, TimePasses PROVE SchedIInv'
<1>1. SchedulesTypeOK'
    BY Numbers DEF SchedIInv, SchedulesTypeOK, TimePasses, runVars, budget
<1> QED
    BY <1>1, Untouched DEF SchedIInv, TimePasses, runVars

\* The next process starts.
LEMMA RestartKeeps == ASSUME SchedIInv, Restart PROVE SchedIInv'
<1>1. SchedulesTypeOK'
    BY DEF SchedIInv, SchedulesTypeOK, Restart, runVars, budget
<1> QED
    BY <1>1, Untouched DEF SchedIInv, Restart, runVars

\* A request is let in.
LEMMA RequestArrivesKeeps ==
    ASSUME SchedIInv, NEW c \in Clients, NEW r \in Rows, NEW a \in Actions,
           RequestArrives(c, r, a)
    PROVE  SchedIInv'
<1>1. [row |-> r, action |-> a, stale |-> FALSE] \in Requests
    BY DEF Requests
<1>2. SchedulesTypeOK'
    BY <1>1, Numbers DEF SchedIInv, SchedulesTypeOK, RequestArrives, runVars
<1> QED
    BY <1>2, Untouched DEF SchedIInv, RequestArrives, runVars

\* The broker goes down: what the file holds is in order with the past, and
\* no delivery is under way.
LEMMA CrashKeeps == ASSUME SchedIInv, Crash PROVE SchedIInv'
<1> USE DEF SchedIInv
<1>1. /\ mem' = disk /\ disk' = disk /\ jobs' = {} /\ inFlight' = {} /\ sent' = {}
      /\ UNCHANGED <<prompted, dropped>>
    BY DEF Crash
<1>2. SchedulesTypeOK'
    <2>1. request' \in [Clients -> Requests \cup {NoRequest}]
        BY DEF Crash
    <2>2. crashes' \in 0..MaxCrashes
        <3>1. crashes \in 0..MaxCrashes /\ crashes < MaxCrashes /\ crashes' = crashes + 1
            BY DEF SchedulesTypeOK, Crash
        <3> QED
            BY <3>1, Numbers
    <2>3. inFlight' = {j.row : j \in jobs'}
        BY <1>1
    <2> QED
        BY <1>1, <2>1, <2>2, <2>3 DEF SchedulesTypeOK, Crash
<1>3. RowsFit'
    BY <1>1 DEF RowsFit, Twin
<1>4. DroppedStay'
    BY <1>1 DEF DroppedStay
<1>5. JobsFit' /\ SentFits'
    BY <1>1 DEF JobsFit, SentFits
<1>6. PromptedFits'
    <2> SUFFICES ASSUME NEW r \in Rows, NEW o \in Nat, NEW s \in 0..MaxSessions,
                        <<r, o, s>> \in prompted, r \notin dropped
                 PROVE  /\ disk[r] # NoRow
                        /\ IF disk[r].fresh THEN s # NoSession /\ Remembers(disk[r], o, s)
                           ELSE s = NoSession
        BY <1>1 DEF PromptedFits
    <2> QED
        BY DEF PromptedFits, RowsFit, Twin
<1>7. PromptsOneSession'
    BY <1>1 DEF PromptsOneSession
<1> QED
    BY <1>2, <1>3, <1>4, <1>5, <1>6, <1>7

-----------------------------------------------------------------------------
(* The steps of the runner.                                                *)

\* A pass starts deliveries of rows that wait and are not in flight, and marks
\* those that are too late.
LEMMA ReconcileKeeps == ASSUME SchedIInv, Reconcile PROVE SchedIInv'
<1> DEFINE late == {r \in Ready : TooLate(r)}
           fire == Ready \ late
<1> USE DEF SchedIInv
<1>1. /\ inFlight' = inFlight \cup fire
      /\ jobs' = jobs \cup {Job(r) : r \in fire}
      /\ mem' = [r \in Rows |-> IF r \in late THEN Settled(mem[r], "missed") ELSE mem[r]]
      /\ IF late = {} THEN UNCHANGED <<disk, faults>> ELSE SaveOk \/ SaveFails
      /\ failures' = failures \cup {<<r, mem[r].occ, mem[r].arm>> : r \in late}
      /\ Touched(late)
      /\ UNCHANGED <<now, up, sent, prompted, made, edits, crashes, dropped>>
    BY DEF Reconcile
<1>2. ASSUME NEW r \in Ready
      PROVE  /\ r \in Rows /\ mem[r] \in Record /\ mem[r] # NoRow /\ RowShape(mem[r])
             /\ mem[r].state = "scheduled" /\ r \notin inFlight /\ r \notin dropped
             /\ mem[r].arm \in Nat /\ mem[r].occ \in Nat
             /\ mem[r].pending \in 0..MaxSessions
    <2>1. /\ r \in Rows /\ mem[r] \in Record /\ mem[r] # NoRow /\ r \notin inFlight
          /\ mem[r].state = "scheduled"
        BY DEF Ready, Due, IsScheduled, IsRow, SchedulesTypeOK
    <2> QED
        BY <2>1 DEF RowsFit, DroppedStay, Record
<1>3. now \in Nat /\ "missed" \in Outcomes
    BY Numbers DEF SchedulesTypeOK, Outcomes
<1> HIDE DEF late, fire
<1>4. late \subseteq Ready /\ fire \subseteq Ready /\ late \cap fire = {}
    BY DEF late, fire
<1>5. ASSUME NEW r \in late
      PROVE  /\ mem'[r] = Settled(mem[r], "missed") /\ Evolves(mem[r], mem'[r])
             /\ mem'[r].state = "scheduled" => mem[r].arm < mem'[r].arm
             /\ mem'[r].pending # NoSession => /\ mem'[r].pending = mem[r].pending
                                               /\ mem'[r].occ = mem[r].occ
             /\ mem'[r] \in Record /\ mem'[r] # NoRow
    <2>1. r \in Ready /\ mem'[r] = Settled(mem[r], "missed")
        BY <1>1, <1>2, <1>4
    <2>2. /\ Evolves(mem[r], mem'[r])
          /\ mem'[r].state = "scheduled" => mem[r].arm < mem'[r].arm
          /\ mem'[r].pending # NoSession => /\ mem'[r].pending = mem[r].pending
                                            /\ mem'[r].occ = mem[r].occ
        BY <1>2, <1>3, <2>1, SettledFacts
    <2> QED
        BY <2>1, <2>2 DEF Evolves, RowShape
<1>6. \A r \in Rows : r \notin late => mem'[r] = mem[r]
    BY <1>1
<1>7. mem' \in [Rows -> Record \cup {NoRow}]
    BY <1>1, <1>5, <1>6 DEF SchedulesTypeOK
<1>8. RowsFit' /\ DroppedStay' /\ PromptedFits'
    <2>1. Written
        BY <1>1, <1>5, <1>6 DEF Written, SaveOk, SaveFails
    <2> QED
        BY <1>1, <1>2, <1>4, <1>5, <1>6, <1>7, <2>1, EvolveKeeps
<1>9. ASSUME NEW r \in fire
      PROVE  /\ Job(r) \in Jobs /\ Job(r).row = r /\ Job(r).arm = mem[r].arm
             /\ Job(r).occ = mem[r].occ /\ Job(r).session = mem[r].pending
             /\ Job(r).phase = IF mem[r].fresh /\ mem[r].pending = NoSession
                               THEN "creating" ELSE "sending"
    BY <1>2, <1>4 DEF Job, Jobs, Phases
<1>10. \A j \in jobs : j.row \in inFlight /\ j.row \in Rows
    BY DEF SchedulesTypeOK, Jobs
<1>11. JobsFit'
    <2>1. ASSUME NEW j \in jobs
          PROVE  j.row \notin dropped /\ JobFits(j, mem'[j.row], sent)
        <3>1. mem'[j.row] = mem[j.row]
            BY <1>2, <1>4, <1>6, <1>10
        <3> QED
            BY <3>1 DEF JobsFit
    <2>2. ASSUME NEW r \in fire
          PROVE  r \notin dropped /\ JobFits(Job(r), mem'[r], sent)
        <3>1. mem'[r] = mem[r] /\ r \in Rows
            BY <1>2, <1>4, <1>6
        <3>2. <<r, mem[r].arm>> \notin sent
            BY <1>2, <1>4 DEF SentFits
        <3>3. ~mem[r].fresh => mem[r].pending = NoSession
            BY <1>2, <1>4 DEF RowShape
        <3> QED
            BY <1>2, <1>4, <1>9, <3>1, <3>2, <3>3 DEF Live, JobFits
    <2> QED
        BY <1>1, <1>9, <2>1, <2>2 DEF JobsFit
<1>12. SentFits'
    <2> SUFFICES ASSUME NEW r \in Rows, NEW a \in Nat, <<r, a>> \in sent, r \notin dropped
                 PROVE  /\ mem'[r] # NoRow /\ a <= mem'[r].arm
                        /\ a = mem'[r].arm => mem'[r].state # "scheduled" \/ r \in inFlight'
        BY <1>1 DEF SentFits
    <2>1. CASE r \notin late
        BY <1>1, <1>6, <2>1 DEF SentFits
    <2>2. CASE r \in late
        <3>1. mem[r].arm \in Nat /\ mem'[r].arm \in Nat /\ mem[r].arm <= mem'[r].arm
            BY <1>2, <1>4, <1>5, <2>2 DEF Record, Evolves
        <3> QED
            BY <1>5, <2>2, <3>1 DEF SentFits
    <2> QED
        BY <2>1, <2>2
<1>13. SchedulesTypeOK'
    <2>1. jobs' \subseteq Jobs /\ inFlight' = {j.row : j \in jobs'}
        BY <1>1, <1>9 DEF SchedulesTypeOK
    <2>2. \A j, k \in jobs' : j.row = k.row => j = k
        BY <1>1, <1>2, <1>4, <1>9, <1>10 DEF SchedulesTypeOK
    <2>3. disk' \in [Rows -> Record \cup {NoRow}] /\ faults' \in 0..MaxFaults
        BY <1>1, <1>7, SaveTypes DEF SchedulesTypeOK
    <2>4. request' \in [Clients -> Requests \cup {NoRequest}]
        BY <1>1, TouchedTypes
    <2>5. failures' \subseteq Rows \X Nat \X Nat
        BY <1>1, <1>2, <1>4 DEF SchedulesTypeOK
    <2>6. inFlight' \subseteq Rows
        BY <1>1, <1>2, <1>4 DEF SchedulesTypeOK
    <2> QED
        BY <1>1, <1>7, <2>1, <2>2, <2>3, <2>4, <2>5, <2>6 DEF SchedulesTypeOK
<1>14. PromptsOneSession'
    BY <1>1 DEF PromptsOneSession
<1> QED
    BY <1>8, <1>11, <1>12, <1>13, <1>14

\* Who delivers which row.
LEMMA JobFacts ==
    ASSUME SchedIInv, NEW j \in jobs
    PROVE  /\ j \in Jobs /\ j.row \in Rows /\ j.row \in inFlight /\ j.row \notin dropped
           /\ j.arm \in Nat /\ j.occ \in Nat /\ j.session \in 0..MaxSessions
           /\ mem[j.row] \in Record /\ mem[j.row] # NoRow /\ RowShape(mem[j.row])
           /\ JobFits(j, mem[j.row], sent)
           /\ \A k \in jobs : k.row = j.row => k = j
<1> USE DEF SchedIInv
<1>1. j \in Jobs /\ j.row \in inFlight /\ \A k \in jobs : k.row = j.row => k = j
    BY DEF SchedulesTypeOK
<1>2. /\ j.row \in Rows /\ j.arm \in Nat /\ j.occ \in Nat
      /\ j.session \in 0..MaxSessions
    BY <1>1 DEF Jobs
<1>3. j.row \notin dropped /\ JobFits(j, mem[j.row], sent)
    BY DEF JobsFit
<1>4. mem[j.row] # NoRow /\ mem[j.row] \in Record /\ RowShape(mem[j.row])
    BY <1>2, <1>3 DEF JobFits, SchedulesTypeOK, RowsFit
<1> QED
    BY <1>1, <1>2, <1>3, <1>4

\* A delivery moves on to another step of its own.
LEMMA AdvanceKeepsJobs ==
    ASSUME SchedIInv, NEW j \in jobs, NEW k \in Jobs, k.row = j.row, Advance(j, k)
    PROVE  /\ jobs' \subseteq Jobs /\ inFlight = {i.row : i \in jobs'}
           /\ \A i, l \in jobs' : i.row = l.row => i = l
           /\ \A i \in jobs' : i = k \/ (i \in jobs /\ i.row # j.row)
BY JobFacts DEF SchedIInv, SchedulesTypeOK, Advance

\* A delivery comes to its end, and is settled later.
LEMMA OverKeepsJobs ==
    ASSUME SchedIInv, NEW j \in jobs, NEW outcome \in {"delivered"} \cup FailureKinds,
           Advance(j, Over(j, outcome)), UNCHANGED <<mem, dropped>>,
           sent' \subseteq sent \cup {<<j.row, j.arm>>}
    PROVE  /\ JobsFit' /\ jobs' \subseteq Jobs /\ inFlight = {i.row : i \in jobs'}
           /\ \A i, l \in jobs' : i.row = l.row => i = l
<1> DEFINE k == Over(j, outcome)
<1>1. /\ k \in Jobs /\ k.row = j.row /\ k.arm = j.arm /\ k.phase = "over"
      /\ k.outcome # None
    BY JobFacts DEF Over, Jobs, Phases, FailureKinds, None
<1> HIDE DEF k
<1>2. /\ jobs' \subseteq Jobs /\ inFlight = {i.row : i \in jobs'}
      /\ \A i, l \in jobs' : i.row = l.row => i = l
      /\ \A i \in jobs' : i = k \/ (i \in jobs /\ i.row # j.row)
    BY <1>1, AdvanceKeepsJobs DEF k
<1>3. ASSUME NEW i \in jobs' PROVE i.row \notin dropped /\ JobFits(i, mem[i.row], sent')
    <2>1. CASE i = k
        BY <1>1, <2>1, JobFacts DEF JobFits
    <2>2. CASE i \in jobs /\ i.row # j.row
        <3>1. JobFits(i, mem[i.row], sent) /\ i.row \notin dropped
            BY <2>2, JobFacts
        <3>2. <<i.row, i.arm>> \in sent' => <<i.row, i.arm>> \in sent
            BY <2>2
        <3> QED
            BY <3>1, <3>2 DEF JobFits
    <2> QED
        BY <1>2, <2>1, <2>2
<1> QED
    BY <1>2, <1>3 DEF JobsFit

\* A delivery that fails has sent nothing.
LEMMA FailKeeps ==
    ASSUME SchedIInv, NEW j \in jobs, NEW outcome \in FailureKinds,
           Advance(j, Over(j, outcome)),
           UNCHANGED <<now, up, mem, inFlight, sent, prompted, edits, crashes, request, dropped, failures>>,
           disk' = disk, made' \in 0..MaxSessions, faults' \in 0..MaxFaults
    PROVE  SchedIInv'
<1> USE DEF SchedIInv
<1>1. /\ JobsFit' /\ jobs' \subseteq Jobs /\ inFlight = {i.row : i \in jobs'}
      /\ \A i, l \in jobs' : i.row = l.row => i = l
    BY OverKeepsJobs
<1>2. SchedulesTypeOK'
    BY <1>1 DEF SchedulesTypeOK
<1>3. RowsFit' /\ DroppedStay' /\ SentFits' /\ PromptedFits' /\ PromptsOneSession'
    BY DEF RowsFit, DroppedStay, SentFits, PromptedFits, PromptsOneSession
<1> QED
    BY <1>1, <1>2, <1>3

\* The attach ladder gives out, or the agent refuses.
LEMMA FailToSendKeeps == ASSUME SchedIInv, NEW j \in jobs, FailToSend(j) PROVE SchedIInv'
<1>1. PICK outcome \in FailureKinds : Advance(j, Over(j, outcome))
    BY DEF FailToSend
<1> QED
    BY <1>1, FailKeeps DEF FailToSend, budget, SchedIInv, SchedulesTypeOK

\* The session is made; it is on disk and in the row before anything is sent.
LEMMA CreateSessionKeeps == ASSUME SchedIInv, NEW j \in jobs, CreateSession(j) PROVE SchedIInv'
<1> DEFINE r == j.row
           s == made + 1
           k == [j EXCEPT !.phase = "sending", !.session = s]
<1> USE DEF SchedIInv
<1>1. /\ j.phase = "creating" /\ made < MaxSessions /\ made' = s
      /\ UNCHANGED <<now, up, inFlight, sent, prompted, edits, crashes, dropped, failures>>
    BY DEF CreateSession
<1>2. s \in 0..MaxSessions /\ s # NoSession
    BY <1>1, Numbers DEF SchedulesTypeOK, NoSession
<1>3. CASE SaveFails /\ Advance(j, Over(j, "delivery")) /\ UNCHANGED <<mem, request>>
    BY <1>1, <1>2, <1>3, SaveTypes, FailKeeps DEF SaveFails, FailureKinds, SchedulesTypeOK
<1>4. CASE Advance(j, Over(j, "delivery")) /\ UNCHANGED <<mem, disk, faults, request>>
    BY <1>1, <1>2, <1>4, FailKeeps DEF FailureKinds, SchedulesTypeOK
<1>5. CASE /\ IsScheduled(r) /\ mem[r].pending = NoSession
           /\ RecordPending(r, s) /\ Advance(j, k)
    <2> HIDE DEF s
    <2>1. /\ r \in Rows /\ mem[r] \in Record /\ RowShape(mem[r]) /\ mem[r] # NoRow
          /\ mem[r].state = "scheduled" /\ mem[r].fresh /\ r \notin dropped
        BY <1>1, <1>5, JobFacts DEF JobFits, IsScheduled
    <2>2. /\ mem' = [mem EXCEPT ![r].pending = s] /\ disk' = mem'
          /\ Touched({r}) /\ UNCHANGED faults
        BY <1>5 DEF RecordPending, SaveOk
    <2>3. /\ mem'[r] = [mem[r] EXCEPT !.pending = s]
          /\ \A q \in Rows : q # r => mem'[q] = mem[q]
        BY <2>1, <2>2 DEF SchedulesTypeOK
    <2>4. /\ mem'[r] \in Record /\ mem'[r].pending = s /\ mem'[r].state = "scheduled"
          /\ mem'[r].fresh /\ mem'[r].cyclic = mem[r].cyclic
          /\ mem'[r].arm = mem[r].arm /\ mem'[r].occ = mem[r].occ
        BY <1>2, <2>1, <2>3 DEF Record
    <2>5. mem' \in [Rows -> Record \cup {NoRow}]
        BY <2>1, <2>2, <2>3, <2>4 DEF SchedulesTypeOK
    <2>6. Evolves(mem[r], mem'[r])
        BY <1>5, <2>1, <2>4, NoRowIsNone DEF Evolves, RowShape, Record
    <2>7. RowsFit' /\ DroppedStay' /\ PromptedFits'
        BY <1>1, <2>1, <2>2, <2>3, <2>5, <2>6, EvolveKeeps DEF Written
    <2>8. /\ k \in Jobs /\ k.row = r /\ k.arm = j.arm /\ k.occ = j.occ
          /\ k.phase = "sending" /\ k.session = s
        BY <1>2, JobFacts DEF Jobs, Phases
    <2> HIDE DEF k
    <2>9. /\ jobs' \subseteq Jobs /\ inFlight = {i.row : i \in jobs'}
          /\ \A i, l \in jobs' : i.row = l.row => i = l
          /\ \A i \in jobs' : i = k \/ (i \in jobs /\ i.row # r)
        BY <1>5, <2>8, AdvanceKeepsJobs
    <2>10. JobsFit'
        <3>1. JobFits(k, mem'[r], sent)
            BY <1>1, <1>2, <2>1, <2>4, <2>8, JobFacts, NoRowIsNone DEF JobFits, Live
        <3>2. ASSUME NEW i \in jobs, i.row # r
              PROVE  i.row \notin dropped /\ JobFits(i, mem'[i.row], sent)
            BY <2>3, <3>2, JobFacts
        <3> QED
            BY <1>1, <2>1, <2>8, <2>9, <3>1, <3>2 DEF JobsFit
    <2>11. SentFits'
        <3> SUFFICES ASSUME NEW q \in Rows, NEW a \in Nat, <<q, a>> \in sent, q \notin dropped
                     PROVE  /\ mem'[q] # NoRow /\ a <= mem'[q].arm
                            /\ a = mem'[q].arm => mem'[q].state # "scheduled" \/ q \in inFlight
            BY <1>1 DEF SentFits
        <3>1. CASE q = r
            BY <2>1, <2>4, <3>1, NoRowIsNone DEF SentFits
        <3>2. CASE q # r
            BY <2>3, <3>2 DEF SentFits
        <3> QED
            BY <3>1, <3>2
    <2>12. SchedulesTypeOK'
        <3>1. request' \in [Clients -> Requests \cup {NoRequest}]
            BY <2>2, TouchedTypes
        <3> QED
            BY <1>1, <1>2, <2>2, <2>5, <2>9, <3>1 DEF SchedulesTypeOK
    <2>13. PromptsOneSession'
        BY <1>1 DEF PromptsOneSession
    <2> QED
        BY <2>7, <2>10, <2>11, <2>12, <2>13
<1> QED
    BY <1>3, <1>4, <1>5 DEF CreateSession

\* The agent has the prompt: it is the first of its arming, and it went to the
\* session all others of its occurrence went to.
LEMMA HandOverKeeps == ASSUME SchedIInv, NEW j \in jobs, HandOver(j) PROVE SchedIInv'
<1> DEFINE r == j.row
           rec == mem[r]
<1> USE DEF SchedIInv
<1>1. /\ j.phase = "sending" /\ Advance(j, Over(j, "delivered"))
      /\ sent' = sent \cup {<<r, j.arm>>}
      /\ prompted' = prompted \cup {<<r, j.occ, j.session>>}
      /\ UNCHANGED <<now, up, mem, disk, inFlight, made, request, budget, dropped, failures>>
    BY DEF HandOver
<1>2. /\ r \in Rows /\ r \in inFlight /\ r \notin dropped /\ rec \in Record /\ rec # NoRow
      /\ rec.state \in Live /\ RowShape(rec) /\ j.arm <= rec.arm /\ j.occ = rec.occ
      /\ IF rec.fresh THEN j.session # NoSession /\ j.session = rec.pending
         ELSE j.session = NoSession
      /\ j.arm \in Nat /\ j.occ \in Nat /\ j.session \in 0..MaxSessions
    BY <1>1, JobFacts DEF JobFits
<1>3. /\ JobsFit' /\ jobs' \subseteq Jobs /\ inFlight = {i.row : i \in jobs'}
      /\ \A i, l \in jobs' : i.row = l.row => i = l
    BY <1>1, OverKeepsJobs
<1>4. SchedulesTypeOK'
    <2>1. sent' \subseteq Rows \X Nat /\ prompted' \subseteq Rows \X Nat \X (0..MaxSessions)
        BY <1>1, <1>2 DEF SchedulesTypeOK
    <2> QED
        BY <1>1, <1>3, <2>1 DEF SchedulesTypeOK, budget
<1>5. RowsFit' /\ DroppedStay'
    BY <1>1 DEF RowsFit, DroppedStay
<1>6. SentFits'
    <2> SUFFICES ASSUME NEW q \in Rows, NEW a \in Nat, <<q, a>> \in sent', q \notin dropped
                 PROVE  /\ mem[q] # NoRow /\ a <= mem[q].arm
                        /\ a = mem[q].arm => mem[q].state # "scheduled" \/ q \in inFlight
        BY <1>1 DEF SentFits
    <2>1. CASE <<q, a>> \in sent
        BY <2>1 DEF SentFits
    <2>2. CASE q = r /\ a = j.arm
        BY <1>2, <2>2
    <2> QED
        BY <1>1, <2>1, <2>2
<1>7. rec.fresh => Remembers(rec, j.occ, j.session) /\ Remembers(disk[r], j.occ, j.session)
    <2>1. Twin(rec, disk[r])
        BY <1>2 DEF RowsFit
    <2> QED
        BY <1>2, <2>1 DEF Twin, Remembers, Record
<1>8. PromptedFits'
    <2> SUFFICES ASSUME NEW q \in Rows, NEW o \in Nat, NEW s \in 0..MaxSessions,
                        <<q, o, s>> \in prompted', q \notin dropped
                 PROVE  /\ mem[q] # NoRow
                        /\ IF mem[q].fresh
                           THEN s # NoSession /\ Remembers(mem[q], o, s) /\ Remembers(disk[q], o, s)
                           ELSE s = NoSession
        BY <1>1 DEF PromptedFits
    <2>1. CASE <<q, o, s>> \in prompted
        BY <2>1 DEF PromptedFits
    <2>2. CASE q = r /\ o = j.occ /\ s = j.session
        BY <1>2, <1>7, <2>2
    <2> QED
        BY <1>1, <2>1, <2>2
<1>9. PromptsOneSession'
    <2>1. ASSUME NEW s \in 0..MaxSessions, <<r, j.occ, s>> \in prompted PROVE s = j.session
        <3>1. IF rec.fresh THEN s # NoSession /\ Remembers(rec, j.occ, s) ELSE s = NoSession
            BY <1>2, <2>1 DEF PromptedFits
        <3> QED
            BY <1>2, <3>1 DEF Remembers, Live
    <2>2. \A p \in prompted : p = <<p[1], p[2], p[3]>> /\ p[3] \in 0..MaxSessions
        BY DEF SchedulesTypeOK
    <2>3. \A p \in prompted : p[1] = r /\ p[2] = j.occ => p[3] = j.session
        BY <2>1, <2>2
    <2> QED
        BY <1>1, <2>3 DEF PromptsOneSession
<1> QED
    BY <1>3, <1>4, <1>5, <1>6, <1>8, <1>9

\* The outcome is recorded, or the row has stopped waiting for it.
LEMMA SettleKeeps == ASSUME SchedIInv, NEW j \in jobs, Settle(j) PROVE SchedIInv'
<1> DEFINE r == j.row
           kept == IsScheduled(r)
           told == {<<r, j.occ, j.arm>>}
<1> USE DEF SchedIInv
<1>01. /\ j.phase = "over" /\ jobs' = jobs \ {j}
      /\ UNCHANGED <<now, up, sent, prompted, made, edits, crashes, dropped>>
    BY DEF Settle
<1>02. inFlight' = inFlight \ {r}
    BY DEF Settle, LeaveFlight
<1>03. IF kept THEN RecordOutcome(r, j.outcome) ELSE UNCHANGED <<mem, disk, faults, request>>
    BY Zenon DEF Settle
<1>1. /\ j.phase = "over" /\ jobs' = jobs \ {j}
      /\ IF kept THEN RecordOutcome(r, j.outcome) ELSE UNCHANGED <<mem, disk, faults, request>>
      /\ inFlight' = inFlight \ {r}
      /\ UNCHANGED <<now, up, sent, prompted, made, edits, crashes, dropped>>
    BY <1>01, <1>02, <1>03
<1>0. failures' = failures \/ failures' = failures \cup told
    BY Zenon DEF Settle
<1>2. /\ r \in Rows /\ mem[r] \in Record /\ mem[r] # NoRow /\ RowShape(mem[r])
      /\ j.arm \in Nat /\ j.occ \in Nat /\ r \notin dropped
      /\ \A k \in jobs : k.row = r => k = j
    BY JobFacts
<1>3. j.outcome \in Outcomes /\ now \in Nat
    <2>1. j \in Jobs /\ JobFits(j, mem[r], sent)
        BY JobFacts
    <2>2. j.outcome # None
        BY <1>1, <2>1 DEF JobFits
    <2>3. j.outcome \in {None, "delivered"} \cup FailureKinds
        BY <2>1 DEF Jobs
    <2>4. now \in Nat
        BY Numbers DEF SchedulesTypeOK
    <2> QED
        BY <2>2, <2>3, <2>4 DEF Outcomes
<1>4. /\ \A q \in Rows : q # r => mem'[q] = mem[q]
      /\ mem' \in [Rows -> Record \cup {NoRow}]
      /\ \/ mem'[r] = mem[r] /\ ~kept
         \/ /\ Evolves(mem[r], mem'[r]) /\ mem'[r] # NoRow /\ mem'[r] \in Record
            /\ mem'[r].state = "scheduled" => mem[r].arm < mem'[r].arm
            /\ mem'[r].pending # NoSession => /\ mem'[r].pending = mem[r].pending
                                              /\ mem'[r].occ = mem[r].occ
    <2>1. CASE ~kept
        BY <1>1, <2>1 DEF SchedulesTypeOK
    <2>2. CASE kept
        <3>1. mem' = [mem EXCEPT ![r] = Settled(mem[r], j.outcome)]
            BY <1>1, <2>2 DEF RecordOutcome
        <3>2. /\ mem'[r] = Settled(mem[r], j.outcome)
              /\ \A q \in Rows : q # r => mem'[q] = mem[q]
            BY <1>2, <3>1 DEF SchedulesTypeOK
        <3>3. /\ Evolves(mem[r], mem'[r])
              /\ mem'[r].state = "scheduled" => mem[r].arm < mem'[r].arm
              /\ mem'[r].pending # NoSession => /\ mem'[r].pending = mem[r].pending
                                                /\ mem'[r].occ = mem[r].occ
            BY <1>2, <1>3, <2>2, <3>2, SettledFacts DEF IsScheduled
        <3>4. mem'[r] \in Record /\ mem'[r] # NoRow
            BY <3>3 DEF Evolves, RowShape
        <3>5. mem' \in [Rows -> Record \cup {NoRow}]
            BY <3>1, <3>2, <3>4 DEF SchedulesTypeOK
        <3> QED
            BY <3>2, <3>3, <3>4, <3>5
    <2> QED
        BY <2>1, <2>2
<1>5. RowsFit' /\ DroppedStay' /\ PromptedFits'
    <2>1. Written
        BY <1>1, <1>4 DEF Written, RecordOutcome, SaveOk, SaveFails
    <2> QED
        BY <1>1, <1>2, <1>4, <2>1, EvolveKeeps
<1>6. JobsFit'
    <2>1. ASSUME NEW k \in jobs, k # j
          PROVE  k.row \notin dropped /\ JobFits(k, mem'[k.row], sent)
        BY <1>2, <1>4, <2>1, JobFacts
    <2> QED
        BY <1>1, <2>1 DEF JobsFit
<1>7. SentFits'
    <2> SUFFICES ASSUME NEW q \in Rows, NEW a \in Nat, <<q, a>> \in sent, q \notin dropped
                 PROVE  /\ mem'[q] # NoRow /\ a <= mem'[q].arm
                        /\ a = mem'[q].arm => mem'[q].state # "scheduled" \/ q \in inFlight \ {r}
        BY <1>1 DEF SentFits
    <2>1. mem[q] # NoRow /\ a <= mem[q].arm
          /\ (a = mem[q].arm => mem[q].state # "scheduled" \/ q \in inFlight)
        BY DEF SentFits
    <2>2. CASE q # r
        BY <1>4, <2>1, <2>2
    <2>3. CASE q = r /\ mem'[r] = mem[r] /\ ~kept
        BY <2>1, <2>3 DEF IsScheduled, IsRow
    <2>4. CASE /\ q = r /\ Evolves(mem[r], mem'[r]) /\ mem'[r] # NoRow /\ mem'[r] \in Record
               /\ mem'[r].state = "scheduled" => mem[r].arm < mem'[r].arm
        <3>1. mem[r].arm \in Nat /\ mem'[r].arm \in Nat /\ mem[r].arm <= mem'[r].arm
            BY <1>2, <2>4 DEF Record, Evolves
        <3> QED
            BY <2>1, <2>4, <3>1
    <2> QED
        BY <1>4, <2>2, <2>3, <2>4
<1>8. SchedulesTypeOK'
    <2>1. disk' \in [Rows -> Record \cup {NoRow}] /\ faults' \in 0..MaxFaults
        BY <1>1, <1>4, SaveTypes DEF SchedulesTypeOK, RecordOutcome
    <2>2. request' \in [Clients -> Requests \cup {NoRequest}]
        BY <1>1, TouchedTypes DEF SchedulesTypeOK, RecordOutcome
    <2>3. failures' \subseteq Rows \X Nat \X Nat
        BY <1>0, <1>2 DEF SchedulesTypeOK
    <2>4. /\ jobs' \subseteq Jobs /\ inFlight' = {i.row : i \in jobs'}
          /\ inFlight' \subseteq Rows
          /\ \A i, l \in jobs' : i.row = l.row => i = l
        BY <1>1, <1>2 DEF SchedulesTypeOK
    <2> QED
        BY <1>1, <1>4, <2>1, <2>2, <2>3, <2>4 DEF SchedulesTypeOK
<1>9. PromptsOneSession'
    BY <1>1 DEF PromptsOneSession
<1> QED
    BY <1>5, <1>6, <1>7, <1>8, <1>9

-----------------------------------------------------------------------------
(* The steps of the routes.                                                *)

\* A row that is new has no past: it was never sent, and nobody delivers it.
LEMMA CreateKeeps == ASSUME SchedIInv, NEW r \in Rows, Create(r) PROVE SchedIInv'
<1> USE DEF SchedIInv
<1>1. /\ mem[r] = NoRow /\ r \notin dropped
      /\ edits' \in 0..MaxEdits
      /\ UNCHANGED <<now, up, runVars, request, crashes, dropped, failures>>
    BY Numbers DEF Create, IsRow, SchedulesTypeOK
<1>2. CASE SaveFails /\ UNCHANGED mem
    <2>1. SchedulesTypeOK'
        BY <1>1, <1>2, SaveTypes DEF SchedulesTypeOK, runVars
    <2> QED
        BY <1>1, <1>2, <2>1, Untouched DEF SaveFails, runVars
<1>3. ASSUME NEW at \in now..MaxTime, NEW fresh \in BOOLEAN, NEW cyclic \in BOOLEAN,
             cyclic => fresh, mem' = [mem EXCEPT ![r] = Fresh(at, fresh, cyclic)], SaveOk
      PROVE  SchedIInv'
    <2> DEFINE new == Fresh(at, fresh, cyclic)
    <2>1. /\ new \in Record /\ new.state = "scheduled" /\ new.fresh = fresh
          /\ new.cyclic = cyclic /\ new.pending = NoSession /\ new.failedIn = NoSession
        <3>1. at \in Nat
            BY Numbers DEF SchedulesTypeOK
        <3> QED
            BY <3>1, Numbers DEF Fresh, Record, Live
    <2>2. RowShape(new) /\ new # NoRow
        BY <1>3, <2>1, NoRowIsNone DEF RowShape
    <2> HIDE DEF new
    <2>3. /\ mem'[r] = new /\ \A q \in Rows : q # r => mem'[q] = mem[q]
          /\ mem' \in [Rows -> Record \cup {NoRow}] /\ disk' = mem'
        BY <1>3, <2>1 DEF new, SchedulesTypeOK, SaveOk
    <2>4. SchedulesTypeOK'
        BY <1>1, <1>3, <2>3, SaveTypes DEF SchedulesTypeOK, runVars
    <2>5. RowsFit'
        <3>1. \A q \in Rows : RowShape(mem'[q])
            BY <2>2, <2>3 DEF RowsFit
        <3> QED
            BY <2>3, <3>1 DEF RowsFit, Twin
    <2>6. DroppedStay'
        BY <1>1, <2>3 DEF DroppedStay, SchedulesTypeOK
    <2>7. JobsFit'
        <3>1. ASSUME NEW j \in jobs PROVE mem'[j.row] = mem[j.row]
            BY <1>1, <2>3, JobFacts
        <3> QED
            BY <1>1, <3>1 DEF JobsFit, runVars
    <2>8. SentFits'
        <3>1. \A a \in Nat : <<r, a>> \notin sent
            BY <1>1 DEF SentFits
        <3> QED
            BY <1>1, <2>3, <3>1 DEF SentFits, runVars
    <2>9. PromptedFits'
        <3>1. \A o \in Nat, s \in 0..MaxSessions : <<r, o, s>> \notin prompted
            BY <1>1 DEF PromptedFits
        <3> SUFFICES ASSUME NEW q \in Rows, NEW o \in Nat, NEW s \in 0..MaxSessions,
                            <<q, o, s>> \in prompted, q \notin dropped
                     PROVE  /\ mem'[q] # NoRow
                            /\ IF mem'[q].fresh
                               THEN /\ s # NoSession /\ Remembers(mem'[q], o, s)
                                    /\ Remembers(disk'[q], o, s)
                               ELSE s = NoSession
            BY <1>1 DEF PromptedFits, runVars
        <3> QED
            BY <2>3, <3>1 DEF PromptedFits
    <2>10. PromptsOneSession'
        BY <1>1 DEF PromptsOneSession, runVars
    <2> QED
        BY <2>4, <2>5, <2>6, <2>7, <2>8, <2>9, <2>10
<1> QED
    BY <1>2, <1>3 DEF Create

\* A row that is canceled or removed is not in flight, and goes in the file too.
LEMMA DeleteKeeps == ASSUME SchedIInv, NEW r \in Rows, Delete(r) PROVE SchedIInv'
<1> USE DEF SchedIInv
<1>1. /\ mem[r] # NoRow /\ mem[r] \in Record /\ RowShape(mem[r]) /\ r \notin inFlight
      /\ edits' \in 0..MaxEdits
      /\ UNCHANGED <<now, up, runVars, crashes, failures>>
    BY Numbers DEF Delete, IsRow, SchedulesTypeOK, RowsFit
<1>2. CASE SaveFails /\ UNCHANGED <<mem, dropped, request>>
    <2>1. SchedulesTypeOK'
        BY <1>1, <1>2, SaveTypes DEF SchedulesTypeOK, runVars
    <2> QED
        BY <1>1, <1>2, <2>1, Untouched DEF SaveFails, runVars
<1>3. CASE /\ mem' = [mem EXCEPT ![r] = IF @.state \in Live
                                       THEN [ClearRetry(@) EXCEPT !.state = "canceled"]
                                       ELSE NoRow]
           /\ dropped' = dropped \cup {r}
           /\ SaveOk
           /\ Touched({r})
    <2> DEFINE canceled == [ClearRetry(mem[r]) EXCEPT !.state = "canceled"]
               new == IF mem[r].state \in Live THEN canceled ELSE NoRow
    <2>1. /\ canceled \in Record /\ canceled.state = "canceled"
          /\ canceled.fresh = mem[r].fresh /\ canceled.cyclic = mem[r].cyclic
          /\ canceled.pending = mem[r].pending /\ canceled.failedIn = mem[r].failedIn
        BY <1>1, ClearRetryFacts DEF Record, Finished
    <2> HIDE DEF canceled
    <2>2. /\ new \in Record \cup {NoRow} /\ RowShape(new)
          /\ new.state \in {"absent", "canceled"}
        BY <1>1, <2>1, NoRowIsNone DEF RowShape
    <2>3. /\ mem'[r] = new /\ \A q \in Rows : q # r => mem'[q] = mem[q]
          /\ mem' \in [Rows -> Record \cup {NoRow}] /\ disk' = mem'
        BY <1>3, <2>2 DEF canceled, SchedulesTypeOK, SaveOk
    <2> HIDE DEF new
    <2>4. SchedulesTypeOK'
        <3>1. request' \in [Clients -> Requests \cup {NoRequest}]
            BY <1>3, TouchedTypes
        <3> QED
            BY <1>1, <1>3, <2>3, <3>1 DEF SchedulesTypeOK, runVars, SaveOk
    <2>5. RowsFit'
        <3>1. \A q \in Rows : RowShape(mem'[q])
            BY <2>2, <2>3 DEF RowsFit
        <3> QED
            BY <2>3, <3>1 DEF RowsFit, Twin
    <2>6. DroppedStay'
        BY <1>3, <2>2, <2>3 DEF DroppedStay, SchedulesTypeOK
    <2>7. JobsFit'
        <3>1. ASSUME NEW j \in jobs PROVE j.row # r /\ mem'[j.row] = mem[j.row]
            BY <1>1, <2>3, JobFacts
        <3> QED
            BY <1>1, <1>3, <3>1 DEF JobsFit, runVars
    <2>8. SentFits'
        <3> SUFFICES ASSUME NEW q \in Rows, NEW a \in Nat, <<q, a>> \in sent,
                            q \notin dropped, q # r
                     PROVE  /\ mem'[q] # NoRow /\ a <= mem'[q].arm
                            /\ a = mem'[q].arm => mem'[q].state # "scheduled" \/ q \in inFlight
            BY <1>1, <1>3 DEF SentFits, runVars
        <3> QED
            BY <2>3 DEF SentFits
    <2>9. PromptedFits'
        <3> SUFFICES ASSUME NEW q \in Rows, NEW o \in Nat, NEW s \in 0..MaxSessions,
                            <<q, o, s>> \in prompted, q \notin dropped, q # r
                     PROVE  /\ mem'[q] # NoRow
                            /\ IF mem'[q].fresh
                               THEN /\ s # NoSession /\ Remembers(mem'[q], o, s)
                                    /\ Remembers(disk'[q], o, s)
                               ELSE s = NoSession
            BY <1>1, <1>3 DEF PromptedFits, runVars
        <3> QED
            BY <2>3 DEF PromptedFits
    <2>10. PromptsOneSession'
        BY <1>1 DEF PromptsOneSession, runVars
    <2> QED
        BY <2>4, <2>5, <2>6, <2>7, <2>8, <2>9, <2>10
<1> QED
    BY <1>2, <1>3 DEF Delete

\* A mutation whose body has come is made in memory and on disk, or not at all;
\* the row may be in flight by then.
LEMMA ApplyKeeps == ASSUME SchedIInv, NEW c \in Clients, Apply(c) PROVE SchedIInv'
<1> DEFINE r == request[c].row
           action == request[c].action
<1> USE DEF SchedIInv
<1>1. /\ request[c] # NoRequest /\ request[c] \in Requests
      /\ UNCHANGED <<now, up, runVars, edits, crashes, dropped, failures>>
    BY DEF Apply, SchedulesTypeOK
<1>2. r \in Rows /\ action \in Actions
    BY <1>1 DEF Requests
<1>3. CASE /\ request' = [request EXCEPT ![c] = NoRequest]
           /\ faults' \in 0..MaxFaults
           /\ UNCHANGED <<mem, disk>>
    <2>1. SchedulesTypeOK'
        BY <1>1, <1>3 DEF SchedulesTypeOK, runVars
    <2> QED
        BY <1>1, <1>3, <2>1, Untouched DEF runVars
<1>4. ASSUME IsRow(r), NEW new \in Edited(mem[r], action), mem' = [mem EXCEPT ![r] = new],
             SaveOk,
             request' = [d \in Clients |->
                           IF d = c THEN NoRequest
                           ELSE IF request[d] # NoRequest /\ request[d].row = r
                           THEN [request[d] EXCEPT !.stale = TRUE] ELSE request[d]]
      PROVE  SchedIInv'
    <2>1. mem[r] \in Record /\ mem[r] # NoRow /\ RowShape(mem[r]) /\ now \in Nat
        BY <1>2, <1>4, Numbers DEF IsRow, SchedulesTypeOK, RowsFit
    <2>2. /\ Evolves(mem[r], new) /\ new.state \in Live
          /\ new.state = "scheduled" => mem[r].arm < new.arm
          /\ mem[r].state \in Live => new.occ = mem[r].occ
          /\ mem[r].pending # NoSession => new.pending = mem[r].pending
        BY <1>2, <1>4, <2>1, EditedFacts
    <2>3. /\ new \in Record /\ new # NoRow /\ new.fresh = mem[r].fresh
          /\ mem[r].arm <= new.arm /\ mem[r].arm \in Nat /\ new.arm \in Nat
        BY <2>1, <2>2 DEF Evolves, RowShape, Record
    <2>4. /\ mem'[r] = new /\ \A q \in Rows : q # r => mem'[q] = mem[q]
          /\ mem' \in [Rows -> Record \cup {NoRow}] /\ disk' = mem'
        BY <1>2, <1>4, <2>3 DEF SchedulesTypeOK, SaveOk
    <2>5. RowsFit' /\ DroppedStay' /\ PromptedFits'
        BY <1>1, <2>1, <2>2, <2>4, EvolveKeeps DEF Written, runVars
    <2>6. JobsFit'
        <3>1. ASSUME NEW j \in jobs, j.row = r PROVE JobFits(j, new, sent)
            BY <2>2, <2>3, <3>1, JobFacts DEF JobFits
        <3>2. ASSUME NEW j \in jobs PROVE j.row \notin dropped /\ JobFits(j, mem'[j.row], sent)
            BY <2>4, <3>1, JobFacts
        <3> QED
            BY <1>1, <3>2 DEF JobsFit, runVars
    <2>7. SentFits'
        <3> SUFFICES ASSUME NEW q \in Rows, NEW a \in Nat, <<q, a>> \in sent, q \notin dropped
                     PROVE  /\ mem'[q] # NoRow /\ a <= mem'[q].arm
                            /\ a = mem'[q].arm => mem'[q].state # "scheduled" \/ q \in inFlight
            BY <1>1 DEF SentFits, runVars
        <3>1. CASE q # r
            BY <2>4, <3>1 DEF SentFits
        <3>2. CASE q = r
            BY <2>2, <2>3, <2>4, <3>2 DEF SentFits
        <3> QED
            BY <3>1, <3>2
    <2>8. SchedulesTypeOK'
        <3>1. \A d \in Clients : request[d] # NoRequest =>
                  [request[d] EXCEPT !.stale = TRUE] \in Requests
            BY DEF SchedulesTypeOK, Requests
        <3>2. request' \in [Clients -> Requests \cup {NoRequest}]
            BY <1>4, <3>1 DEF SchedulesTypeOK
        <3> QED
            BY <1>1, <1>4, <2>4, <3>2 DEF SchedulesTypeOK, runVars, SaveOk
    <2>9. PromptsOneSession'
        BY <1>1 DEF PromptsOneSession, runVars
    <2> QED
        BY <2>5, <2>6, <2>7, <2>8, <2>9
<1>5. \/ /\ request' = [request EXCEPT ![c] = NoRequest] /\ UNCHANGED <<mem, disk>>
         /\ faults' \in 0..MaxFaults
      \/ /\ IsRow(r) /\ SaveOk
         /\ \E new \in Edited(mem[r], action) : mem' = [mem EXCEPT ![r] = new]
         /\ request' = [d \in Clients |->
                           IF d = c THEN NoRequest
                           ELSE IF request[d] # NoRequest /\ request[d].row = r
                           THEN [request[d] EXCEPT !.stale = TRUE] ELSE request[d]]
    <2> DEFINE current == IsRow(r) /\ ~request[c].stale
               denied == Edited(mem[r], action) = {}
    <2>1. CASE /\ current => denied \/ faults < MaxFaults
               /\ faults' = IF current /\ ~denied THEN faults + 1 ELSE faults
               /\ request' = [request EXCEPT ![c] = NoRequest]
               /\ UNCHANGED <<mem, disk>>
        <3> HIDE DEF current, denied
        <3>1. faults' \in 0..MaxFaults
            BY <2>1, Numbers DEF SchedulesTypeOK
        <3> QED
            BY <2>1, <3>1
    <2> QED
        BY <2>1, Zenon DEF Apply
<1> QED
    BY <1>3, <1>4, <1>5

-----------------------------------------------------------------------------
(* The theorems.                                                           *)

\* A broker that starts with no row satisfies it.
LEMMA SchedIInvInit == SchedInit => SchedIInv
<1> SUFFICES ASSUME SchedInit PROVE SchedIInv
    OBVIOUS
<1>1. SchedulesTypeOK
    BY Numbers DEF SchedInit, SchedulesTypeOK
<1>2. RowsFit
    BY DEF SchedInit, RowsFit, RowShape, Twin
<1>3. DroppedStay /\ JobsFit /\ SentFits /\ PromptedFits /\ PromptsOneSession
    BY DEF SchedInit, DroppedStay, JobsFit, SentFits, PromptedFits, PromptsOneSession
<1> QED
    BY <1>1, <1>2, <1>3 DEF SchedIInv

\* Every step keeps it.
LEMMA SchedIInvStep == SchedIInv /\ [SchedNext]_schedVars => SchedIInv'
<1> SUFFICES ASSUME SchedIInv, [SchedNext]_schedVars PROVE SchedIInv'
    OBVIOUS
<1>1. CASE TimePasses
    BY <1>1, TimePassesKeeps
<1>2. CASE Crash
    BY <1>2, CrashKeeps
<1>3. CASE Restart
    BY <1>3, RestartKeeps
<1>4. CASE Reconcile
    BY <1>4, ReconcileKeeps
<1>5. ASSUME NEW j \in jobs, CreateSession(j) PROVE SchedIInv'
    BY <1>5, CreateSessionKeeps
<1>6. ASSUME NEW j \in jobs, FailToSend(j) PROVE SchedIInv'
    BY <1>6, FailToSendKeeps
<1>7. ASSUME NEW j \in jobs, HandOver(j) PROVE SchedIInv'
    BY <1>7, HandOverKeeps
<1>8. ASSUME NEW j \in jobs, Settle(j) PROVE SchedIInv'
    BY <1>8, SettleKeeps
<1>9. ASSUME NEW r \in Rows, Create(r) PROVE SchedIInv'
    BY <1>9, CreateKeeps
<1>10. ASSUME NEW r \in Rows, Delete(r) PROVE SchedIInv'
    BY <1>10, DeleteKeeps
<1>11. ASSUME NEW c \in Clients, Apply(c) PROVE SchedIInv'
    BY <1>11, ApplyKeeps
<1>12. ASSUME NEW c \in Clients, NEW r \in Rows, NEW a \in Actions, RequestArrives(c, r, a)
       PROVE  SchedIInv'
    BY <1>12, RequestArrivesKeeps
<1>13. CASE UNCHANGED schedVars
    <2>1. SchedulesTypeOK'
        BY <1>13 DEF SchedIInv, SchedulesTypeOK, schedVars, runVars, budget
    <2> QED
        BY <1>13, <2>1, Untouched DEF SchedIInv, schedVars, runVars
<1> QED
    BY <1>1, <1>2, <1>3, <1>4, <1>5, <1>6, <1>7, <1>8, <1>9, <1>10, <1>11, <1>12, <1>13
       DEF SchedNext

LEMMA SchedIInvHolds == SchedSpec => []SchedIInv
<1> QED
    BY SchedIInvInit, SchedIInvStep, PTL DEF SchedSpec

\* A row is never delivered twice at once (inFlight of the runner).
THEOREM OneDeliveryPerRow == SchedSpec => []SchedulesTypeOK
<1>1. SchedIInv => SchedulesTypeOK
    BY DEF SchedIInv
<1> QED
    BY <1>1, SchedIInvHolds, PTL

\* All prompts of one occurrence go to one session, whichever saves fail and
\* wherever the broker goes down (recordPendingSession).
THEOREM OccurrenceKeepsItsSession == SchedSpec => []PromptsOneSession
<1>1. SchedIInv => PromptsOneSession
    BY DEF SchedIInv
<1> QED
    BY <1>1, SchedIInvHolds, PTL

\* One process hands over a prompt once for each arming of its row
\* (recordOutcome keeps in memory what it could not save).
THEOREM NoSecondSend == SchedSpec => SendsOncePerArming
<1>1. SchedIInv /\ [SchedNext]_schedVars =>
         [\A j \in jobs : HandOver(j) => <<j.row, j.arm>> \notin sent]_schedVars
    <2> SUFFICES ASSUME SchedIInv, NEW j \in jobs, HandOver(j)
                 PROVE  <<j.row, j.arm>> \notin sent
        OBVIOUS
    <2>1. j.phase = "sending"
        BY DEF HandOver
    <2>2. JobFits(j, mem[j.row], sent)
        BY DEF SchedIInv, JobsFit
    <2> QED
        BY <2>1, <2>2 DEF JobFits
<1> QED
    BY <1>1, SchedIInvHolds, PTL DEF SchedSpec, SendsOncePerArming

\* A cancel that was acknowledged is final (cancel, remove).
THEOREM CancelIsFinal == SchedSpec => CanceledNeverStarts
<1>1. SchedIInv /\ SchedIInv' /\ [SchedNext]_schedVars =>
         [\A r \in dropped : r \in inFlight' => r \in inFlight]_schedVars
    <2> SUFFICES ASSUME SchedIInv', [SchedNext]_schedVars, NEW r \in dropped, r \in inFlight'
                 PROVE  r \in inFlight
        OBVIOUS
    <2>1. PICK j \in jobs' : r = j.row
        BY DEF SchedIInv, SchedulesTypeOK
    <2>2. r \notin dropped'
        BY <2>1 DEF SchedIInv, JobsFit
    <2>3. dropped \subseteq dropped'
        BY DEF SchedNext, schedVars, runVars, budget, TimePasses, Crash, Restart, Reconcile,
               CreateSession, FailToSend, HandOver, Settle, Create, Delete, Apply,
               RequestArrives
    <2> QED
        BY <2>2, <2>3
<1> QED
    BY <1>1, SchedIInvHolds, PTL DEF SchedSpec, CanceledNeverStarts

=============================================================================
