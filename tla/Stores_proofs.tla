--------------------------- MODULE Stores_proofs ----------------------------
(***************************************************************************)
(* What the two stores promise that a client relies on when it sends       *)
(* something again or from two devices: the protocol journal               *)
(* (PromptJournal) and the shared drafts (SharedDrafts).                   *)
(***************************************************************************)
EXTENDS PromptJournal, SharedDrafts, TLAPS

-----------------------------------------------------------------------------
(***************************************************************************)
(* What PromptJournal promises for any number of prompts, any capacity and *)
(* any bounds on faults and restarts.  None of it is inductive: it rests   *)
(* on a running handler's record being in flight in memory and in the file *)
(* (Agreed), and on what memory and file keep of a prompt as long as its   *)
(* record cannot have been lost (Remembered): that it was handed over,     *)
(* that its verdict is out, or that a restart cut its handler off.         *)
(***************************************************************************)

\* The handler of a prompt and its record agree.
Agreed(p) ==
    /\ job[p] # "idle" => journal[p] = "flight" /\ saved[p] = "flight"
    /\ job[p] = "sent" => handed[p] > 0

\* A prompt was told to be accepted, or to have failed, or will be by a record.
Judged(p) == {"ack", "nack"} \cap ({journal[p], saved[p]} \cup told[p]) # {}

\* What holds of a prompt as long as its record cannot have been lost.
Remembered(p) ==
    /\ handed[p] <= 1
    /\ handed[p] > 0 => journal[p] # "none" /\ saved[p] # "none"
    /\ job[p] = "claimed" => handed[p] = 0
    /\ Judged(p) => /\ job[p] = "idle" /\ journal[p] \in Terminal
                    /\ saved[p] \in Terminal \cup {"flight"}
    /\ p \in cutOff => journal[p] = "unknown" /\ saved[p] = "unknown"

AllAgreed     == \A p \in Prompts : Agreed(p)
AllRemembered == "load" \notin failed => \A p \in Prompts \ retired : Remembered(p)

JournalInv ==
    /\ JournalTypeOK
    /\ AllAgreed
    /\ AllRemembered
    /\ OneVerdict
    /\ CutOffIsUnknown
    /\ PendingIsWorkedOn

-----------------------------------------------------------------------------
\* Room drops only what has ended.
LEMMA RoomDropsEnded ==
    ASSUME NEW records, NEW gone \in Room(records)
    PROVE  gone \subseteq Droppable(records)
BY DEF Room

\* The invariant holds at the start.
LEMMA JournalInvInit == JournalInit => JournalInv
BY JournalAssumption DEF JournalInit, JournalInv, JournalTypeOK, AllAgreed, Agreed,
   AllRemembered, Remembered,
   Judged, OneVerdict, CutOffIsUnknown, PendingIsWorkedOn, NoRecords, States, Terminal, Answers, Writes

\* The housekeeping drops only what has ended.
LEMMA ClaimPruneFailsKeeps ==
    ASSUME JournalInv, NEW p \in Prompts, ClaimPruneFails(p)
    PROVE  JournalInv'
BY DEF ClaimPruneFails, WriteFails, Answer, Droppable, Without,
   JournalInv, JournalTypeOK, AllAgreed, Agreed, AllRemembered, Remembered,
   Judged, OneVerdict, CutOffIsUnknown, PendingIsWorkedOn,
   States, Terminal, Answers, Writes

\* A known prompt's record is not touched.
LEMMA ClaimKnownKeeps ==
    ASSUME JournalInv, NEW p \in Prompts, ClaimKnown(p)
    PROVE  JournalInv'
BY DEF ClaimKnown, NoBadWrite, Answer, Droppable, Without, Pruned,
   JournalInv, JournalTypeOK, AllAgreed, Agreed, AllRemembered, Remembered,
   Judged, OneVerdict, CutOffIsUnknown, PendingIsWorkedOn,
   States, Terminal, Answers, Writes

\* Nor is any, when there is no room.
LEMMA ClaimFullKeeps ==
    ASSUME JournalInv, NEW p \in Prompts, ClaimFull(p)
    PROVE  JournalInv'
BY DEF ClaimFull, NoBadWrite, Answer, Droppable, Without, Pruned,
   JournalInv, JournalTypeOK, AllAgreed, Agreed, AllRemembered, Remembered,
   Judged, OneVerdict, CutOffIsUnknown, PendingIsWorkedOn,
   States, Terminal, Answers, Writes

\* A new prompt has not been handed over before.
LEMMA ClaimNewKeeps ==
    ASSUME JournalInv, NEW p \in Prompts, ClaimNew(p)
    PROVE  JournalInv'
BY RoomDropsEnded DEF ClaimNew, NoBadWrite, Droppable, Without, Pruned,
   JournalInv, JournalTypeOK, AllAgreed, Agreed, AllRemembered, Remembered,
   Judged, OneVerdict, CutOffIsUnknown, PendingIsWorkedOn,
   States, Terminal, Answers, Writes

\* A claim whose save failed is in flight in memory, and its prompt has no
\* handler and has not been handed over.
LEMMA ClaimFailsKeeps ==
    ASSUME JournalInv, NEW p \in Prompts, ClaimFails(p)
    PROVE  JournalInv'
<1>1. PICK old \in SUBSET Droppable(journal) :
        \E gone \in Room(Pruned(old).memory) :
            /\ Pruned(old).memory[p] = "none"
            /\ WriteFails("claim")
            /\ journal' = [Without(Pruned(old).memory, gone) EXCEPT ![p] = "flight"]
            /\ saved' \in {Pruned(old).file, journal'}
            /\ retired' = retired \cup old \cup gone
            /\ Answer(p, "full")
            /\ UNCHANGED <<job, handed, cutOff, stopsLeft>>
    BY DEF ClaimFails
<1>2. PICK gone \in Room(Pruned(old).memory) :
            /\ Pruned(old).memory[p] = "none"
            /\ WriteFails("claim")
            /\ journal' = [Without(Pruned(old).memory, gone) EXCEPT ![p] = "flight"]
            /\ saved' \in {Pruned(old).file, journal'}
            /\ retired' = retired \cup old \cup gone
            /\ Answer(p, "full")
            /\ UNCHANGED <<job, handed, cutOff, stopsLeft>>
    BY <1>1
<1>3. \A q \in Prompts : q \in old \cup gone => journal[q] \in Terminal
    BY RoomDropsEnded DEF Droppable, Pruned, Without, Terminal
<1>4. \A q \in Prompts : journal'[q] =
          IF q = p THEN "flight" ELSE IF q \in old \cup gone THEN "none" ELSE journal[q]
    BY <1>2 DEF Pruned, Without
<1>5. \A q \in Prompts : q \notin old \cup gone => saved'[q] \in {saved[q], journal[q], journal'[q]}
    BY <1>2, <1>4 DEF Pruned, Without
<1>6. job[p] = "idle" /\ journal[p] \in {"none"} \cup Terminal
    BY <1>2 DEF JournalInv, JournalTypeOK, AllAgreed, Agreed, Pruned, Without, Droppable, Terminal
<1>7. JournalTypeOK'
  <2>1. Pruned(old).file \in [Prompts -> States]
      BY DEF JournalInv, JournalTypeOK, Pruned, Without, States
  <2>2. journal' \in [Prompts -> States]
      BY <1>2 DEF JournalInv, JournalTypeOK, Pruned, Without, States
  <2>3. saved' \in [Prompts -> States]
      BY <1>2, <2>1, <2>2
  <2>4. told' \in [Prompts -> SUBSET Answers]
      BY <1>2 DEF JournalInv, JournalTypeOK, Answer, Answers
  <2>5. retired' \subseteq Prompts /\ failed' \subseteq Writes /\ badWritesLeft' \in Nat
      BY <1>2 DEF JournalInv, JournalTypeOK, WriteFails, Writes, Droppable, Room
  <2> QED
      BY <1>2, <2>2, <2>3, <2>4, <2>5 DEF JournalInv, JournalTypeOK
<1>8. AllAgreed'
    BY <1>2, <1>3, <1>4, <1>5, <1>6 DEF JournalInv, JournalTypeOK, AllAgreed, Agreed, Terminal
<1>9. ASSUME NEW q \in Prompts, NEW verdict \in {"ack", "nack"},
             verdict \in {journal'[q], saved'[q]} \cup told'[q]
      PROVE  verdict \in {journal[q], saved[q]} \cup told[q]
  <2>1. CASE verdict = journal'[q]
      BY <1>4, <2>1
  <2>2. CASE verdict = saved'[q]
    <3>1. saved'[q] \in {saved[q], journal[q], journal'[q], "none"}
        BY <1>2, <1>4 DEF Pruned, Without
    <3> QED
        BY <1>4, <2>2, <3>1
  <2>3. CASE verdict \in told'[q]
      BY <1>2, <2>3 DEF Answer, JournalInv, JournalTypeOK
  <2> QED
      BY <1>9, <2>1, <2>2, <2>3
<1>10. AllRemembered' /\ OneVerdict' /\ CutOffIsUnknown'
  <2>1. ASSUME "load" \notin failed', NEW q \in Prompts, q \notin retired'
        PROVE  /\ "load" \notin failed /\ q \notin retired /\ Remembered(q)
               /\ q \notin old \cup gone
      BY <1>2, <2>1 DEF JournalInv, AllRemembered, WriteFails
  <2>2. ASSUME "load" \notin failed', NEW q \in Prompts, q \notin retired'
        PROVE  Judged(q)' => Judged(q)
      BY <1>9, <2>2 DEF Judged
  <2>3. p \in retired' \/ "load" \in failed' \/ (~Judged(p) /\ handed[p] = 0 /\ p \notin cutOff)
    <3>1. ASSUME "load" \notin failed', p \notin retired'
          PROVE  ~Judged(p) /\ handed[p] = 0 /\ p \notin cutOff
      <4>1. journal[p] = "none" /\ Remembered(p) /\ handed[p] \in Nat
          BY <1>2, <2>1, <3>1 DEF Pruned, Without, JournalInv, JournalTypeOK
      <4> QED
          BY <4>1 DEF Remembered, Terminal
    <3> QED
        BY <3>1
  <2>4. ASSUME "load" \notin failed', NEW q \in Prompts, q \notin retired'
        PROVE  Remembered(q)'
    <3>1. Remembered(q) /\ (Judged(q)' => Judged(q)) /\ q \notin old \cup gone
        BY <2>1, <2>2, <2>4
    <3>2. CASE q = p
        BY <1>2, <1>4, <1>6, <2>3, <2>4, <3>1, <3>2 DEF Remembered
    <3>3. CASE q # p
      <4>1. journal'[q] = journal[q] /\ saved'[q] \in {saved[q], journal[q]}
          BY <1>4, <1>5, <3>1, <3>3
      <4> QED
          BY <1>2, <3>1, <4>1 DEF Remembered, Terminal
    <3> QED
        BY <3>2, <3>3
  <2>5. AllRemembered'
      BY <2>4 DEF AllRemembered
  <2>6. OneVerdict'
    <3>1. ASSUME "load" \notin failed', NEW q \in Prompts, q \notin retired'
          PROVE  ~({"ack", "nack"} \subseteq {journal'[q], saved'[q]} \cup told'[q])
      <4>1. ~({"ack", "nack"} \subseteq {journal[q], saved[q]} \cup told[q])
          BY <2>1, <3>1 DEF JournalInv, OneVerdict
      <4> QED
          BY <1>9, <3>1, <4>1
    <3> QED
        BY <3>1 DEF OneVerdict
  <2>7. CutOffIsUnknown'
    <3>1. ASSUME failed' \cap {"load", "prune"} = {}, NEW q \in cutOff', q \notin retired'
          PROVE  told'[q] \subseteq {"unknown"}
      <4>1. failed \cap {"load", "prune"} = {} /\ q \in cutOff \ retired /\ q \in Prompts
          BY <1>2, <3>1 DEF WriteFails, JournalInv, JournalTypeOK
      <4>2. q # p
          BY <2>3, <3>1, <4>1
      <4>3. told'[q] = told[q]
          BY <1>2, <4>1, <4>2 DEF Answer, JournalInv, JournalTypeOK
      <4> QED
          BY <4>1, <4>3 DEF JournalInv, CutOffIsUnknown
    <3> QED
        BY <3>1 DEF CutOffIsUnknown
  <2> QED
      BY <2>5, <2>6, <2>7
<1>11. PendingIsWorkedOn'
    BY <1>2 DEF PendingIsWorkedOn, WriteFails
<1> QED
    BY <1>7, <1>8, <1>10, <1>11 DEF JournalInv

\* The record is in the file before the agent has the prompt.
LEMMA HandOverKeeps ==
    ASSUME JournalInv, NEW p \in Prompts, HandOver(p)
    PROVE  JournalInv'
BY DEF HandOver, NoBadWrite,
   JournalInv, JournalTypeOK, AllAgreed, Agreed, AllRemembered, Remembered,
   Judged, OneVerdict, CutOffIsUnknown, PendingIsWorkedOn,
   States, Terminal, Answers, Writes

\* A handler gives the first verdict, and memory and file then have a record.
LEMMA FinishKeeps ==
    ASSUME JournalInv, NEW p \in Prompts, NEW fails \in BOOLEAN, Finish(p, fails)
    PROVE  JournalInv'
<1>1. PICK result \in Results(p) :
        /\ Answer(p, result)
        /\ job' = [job EXCEPT ![p] = "idle"]
        /\ journal' = [journal EXCEPT ![p] = result]
        /\ saved' = IF fails THEN saved ELSE journal'
        /\ IF fails THEN WriteFails("complete") ELSE NoBadWrite
        /\ UNCHANGED <<handed, retired, cutOff, stopsLeft>>
    BY DEF Finish
<1>2. /\ job[p] # "idle" /\ result \in {"ack", "nack"}
    BY DEF Results
<1>3. JournalTypeOK'
  <2>1. journal' \in [Prompts -> States]
      BY <1>1, <1>2 DEF JournalInv, JournalTypeOK, States, Terminal
  <2>2. saved' \in [Prompts -> States]
      BY <1>1, <2>1 DEF JournalInv, JournalTypeOK
  <2>3. told' \in [Prompts -> SUBSET Answers]
      BY <1>1, <1>2 DEF JournalInv, JournalTypeOK, Answer, Answers, Terminal
  <2>4. WriteFails("complete") \/ NoBadWrite
      BY <1>1
  <2>5. failed' \subseteq Writes /\ badWritesLeft' \in Nat
    <3>1. CASE WriteFails("complete")
        BY <3>1 DEF JournalInv, JournalTypeOK, WriteFails, Writes
    <3>2. CASE NoBadWrite
        BY <3>2 DEF JournalInv, JournalTypeOK, NoBadWrite
    <3> QED
        BY <2>4, <3>1, <3>2
  <2> QED
      BY <1>1, <2>1, <2>2, <2>3, <2>5 DEF JournalInv, JournalTypeOK
<1>4. AllAgreed'
    BY <1>1, <1>2 DEF JournalInv, JournalTypeOK, AllAgreed, Agreed
<1>5. ASSUME "load" \notin failed', NEW q \in Prompts, q \notin retired'
      PROVE  Remembered(q) /\ Remembered(q)' /\ (q = p => ~Judged(p))
  <2>1. Remembered(q)
      BY <1>1, <1>5 DEF JournalInv, AllRemembered, WriteFails, NoBadWrite
  <2>2. CASE q = p
    <3>1. ~Judged(p) /\ p \notin cutOff
        BY <1>2, <2>1, <2>2 DEF Remembered, JournalInv, AllAgreed, Agreed
    <3>2. /\ job'[p] = "idle" /\ journal'[p] = result
          /\ saved'[p] \in {"flight", result}
        BY <1>1, <1>2 DEF JournalInv, JournalTypeOK, AllAgreed, Agreed
    <3> QED
        BY <1>1, <1>2, <2>1, <2>2, <3>1, <3>2 DEF Remembered, Terminal
  <2>3. CASE q # p
    <3>1. /\ job'[q] = job[q] /\ journal'[q] = journal[q]
          /\ saved'[q] \in {saved[q], journal[q]} /\ told'[q] = told[q]
        BY <1>1, <2>3 DEF JournalInv, JournalTypeOK, Answer
    <3>2. Judged(q)' => Judged(q)
        BY <3>1 DEF Judged
    <3> QED
        BY <1>1, <2>1, <2>3, <3>1, <3>2 DEF Remembered, Terminal
  <2> QED
      BY <2>1, <2>2, <2>3
<1>6. AllRemembered' /\ OneVerdict' /\ CutOffIsUnknown'
  <2>1. AllRemembered'
      BY <1>5 DEF AllRemembered
  <2>2. OneVerdict'
    <3>1. ASSUME "load" \notin failed', NEW q \in Prompts, q \notin retired'
          PROVE  ~({"ack", "nack"} \subseteq {journal'[q], saved'[q]} \cup told'[q])
      <4>1. CASE q = p
        <5>1. journal'[p] = result /\ saved'[p] \in {"flight", result}
            BY <1>1, <1>2 DEF JournalInv, JournalTypeOK, AllAgreed, Agreed
        <5>2. told'[p] = told[p] \cup {result}
            BY <1>1 DEF JournalInv, JournalTypeOK, Answer
        <5>3. "ack" \notin told[p] /\ "nack" \notin told[p]
            BY <1>5, <3>1, <4>1 DEF Judged
        <5> QED
            BY <1>2, <4>1, <5>1, <5>2, <5>3
      <4>2. CASE q # p
        <5>1. /\ journal'[q] = journal[q] /\ told'[q] = told[q]
              /\ saved'[q] \in {saved[q], journal[q]}
            BY <1>1, <4>2 DEF JournalInv, JournalTypeOK, Answer
        <5>2. "load" \notin failed /\ q \notin retired
            BY <1>1, <3>1 DEF WriteFails, NoBadWrite
        <5> QED
            BY <5>1, <5>2 DEF JournalInv, OneVerdict
      <4> QED
          BY <4>1, <4>2
    <3> QED
        BY <3>1 DEF OneVerdict
  <2>3. CutOffIsUnknown'
    <3>1. ASSUME failed' \cap {"load", "prune"} = {}, NEW q \in cutOff', q \notin retired'
          PROVE  told'[q] \subseteq {"unknown"}
      <4>1. failed \cap {"load", "prune"} = {} /\ q \in cutOff \ retired /\ q \in Prompts
          BY <1>1, <3>1 DEF WriteFails, NoBadWrite, JournalInv, JournalTypeOK
      <4>2. q # p
          BY <1>2, <4>1 DEF JournalInv, AllAgreed, Agreed, AllRemembered, Remembered
      <4>3. told'[q] = told[q]
          BY <1>1, <4>1, <4>2 DEF Answer, JournalInv, JournalTypeOK
      <4> QED
          BY <4>1, <4>3 DEF JournalInv, CutOffIsUnknown
    <3> QED
        BY <3>1 DEF CutOffIsUnknown
  <2> QED
      BY <2>1, <2>2, <2>3
<1>7. PendingIsWorkedOn'
    BY <1>1, <1>2 DEF JournalInv, JournalTypeOK, PendingIsWorkedOn, WriteFails, NoBadWrite
<1> QED
    BY <1>3, <1>4, <1>5, <1>6, <1>7 DEF JournalInv

\* The file is saved with all records.
LEMMA TicketSavedKeeps ==
    ASSUME JournalInv, TicketSaved
    PROVE  JournalInv'
BY DEF TicketSaved, NoBadWrite, Droppable, Without,
   JournalInv, JournalTypeOK, AllAgreed, Agreed, AllRemembered, Remembered,
   Judged, OneVerdict, CutOffIsUnknown, PendingIsWorkedOn,
   States, Terminal, Answers, Writes

\* What was in flight becomes unknown, and nothing is lost.
LEMMA RestartLoadsKeeps ==
    ASSUME JournalInv, RestartLoads
    PROVE  JournalInv'
BY DEF RestartLoads, Stopped, NoBadWrite, Droppable, Loaded, Recovered,
   JournalInv, JournalTypeOK, AllAgreed, Agreed, AllRemembered, Remembered,
   Judged, OneVerdict, CutOffIsUnknown, PendingIsWorkedOn,
   States, Terminal, Answers, Writes

\* Without records nothing is promised of a prompt.
LEMMA RestartQuarantinesKeeps ==
    ASSUME JournalInv, RestartQuarantines
    PROVE  JournalInv'
BY DEF RestartQuarantines, Stopped, WriteFails, NoRecords, Droppable, Loaded, Recovered,
   JournalInv, JournalTypeOK, AllAgreed, Agreed, AllRemembered, Remembered,
   Judged, OneVerdict, CutOffIsUnknown, PendingIsWorkedOn,
   States, Terminal, Answers, Writes

\* Every step keeps the invariant.
LEMMA JournalInvStep == JournalInv /\ [JournalNext]_journalVars => JournalInv'
<1> SUFFICES ASSUME JournalInv, [JournalNext]_journalVars PROVE JournalInv'
    OBVIOUS
<1>1. CASE UNCHANGED journalVars
    BY <1>1 DEF journalVars, JournalInv, JournalTypeOK, AllAgreed, Agreed, AllRemembered,
       Remembered, Judged, OneVerdict, CutOffIsUnknown, PendingIsWorkedOn
<1>2. CASE JournalNext
    BY <1>2, ClaimPruneFailsKeeps, ClaimKnownKeeps, ClaimFullKeeps, ClaimNewKeeps, ClaimFailsKeeps,
       HandOverKeeps, FinishKeeps, TicketSavedKeeps,
       RestartLoadsKeeps, RestartQuarantinesKeeps DEF JournalNext
<1> QED
    BY <1>1, <1>2

\* The invariant holds in every state of every behaviour.
LEMMA JournalInvHolds == JournalSpec => []JournalInv
BY JournalInvInit, JournalInvStep, PTL DEF JournalSpec

-----------------------------------------------------------------------------
\* A prompt is handed to the agent once, however often it is sent, unless its
\* record was dropped or a start threw the journal away (protocol-journal.ts).
THEOREM PromptsAreHandedOnce == JournalSpec => []HandedOnce
<1>1. JournalInv => HandedOnce
    BY DEF JournalInv, AllRemembered, Remembered, HandedOnce
<1> QED
    BY <1>1, JournalInvHolds, PTL

\* Nobody is told that a prompt was accepted of which anybody is told that it
\* failed, whatever write failed and whatever restarts came between.
THEOREM VerdictsAgree == JournalSpec => []OneVerdict
<1>1. JournalInv => OneVerdict
    BY DEF JournalInv
<1> QED
    BY <1>1, JournalInvHolds, PTL

\* Whoever asks about a prompt whose handler a restart cut off is told that
\* nobody knows whether it ran (load makes in-flight records so).
THEOREM InterruptedIsUnknown == JournalSpec => []CutOffIsUnknown
<1>1. JournalInv => CutOffIsUnknown
    BY DEF JournalInv
<1> QED
    BY <1>1, JournalInvHolds, PTL

\* As long as no save of a claim has failed, a prompt that is answered with
\* "pending" has a handler at work.
THEOREM PendingHasAHandler == JournalSpec => []PendingIsWorkedOn
<1>1. JournalInv => PendingIsWorkedOn
    BY DEF JournalInv
<1> QED
    BY <1>1, JournalInvHolds, PTL

-----------------------------------------------------------------------------
(***************************************************************************)
(* What SharedDrafts promises for any devices and texts, any block size    *)
(* and any bounds.  Two facts carry it: every revision that was ever       *)
(* issued is below the next one and covered by the clock's file            *)
(* (ClockCovers), and nothing that was shown is newer than the record or   *)
(* the file, while there is one (NothingNewerShown).                       *)
(***************************************************************************)

\* Revisions are numbers.
DraftTypes ==
    /\ record.rev \in Nat /\ shard.rev \in Nat
    /\ next \in Nat \ {0} /\ reserved \in Nat /\ clock \in Nat
    /\ \A a \in issued : a.rev \in Nat

\* Revisions below the next one, the next one within reach of the reservation,
\* and the reservation in the file.
ClockCovers ==
    /\ \A a \in issued : a.rev < next
    /\ shard.rev < next
    /\ next <= reserved + 1 /\ reserved <= clock

\* What the store, the file and the devices have was issued.
AllIssued ==
    /\ record.rev > 0 => Draft(record) \in issued
    /\ shard.rev > 0 => Draft(shard) \in issued
    /\ (record.rev = 0 => record = NoRecord) /\ (shard.rev = 0 => shard = NoRecord)
    /\ shown \subseteq issued

\* A device has what it was shown, and bases its frames on that or on nothing.
DevicesHaveShown ==
    /\ held \in [Devices -> shown \cup {NoDraft}]
    /\ \A f \in frames : f.seen \in shown \cup {NoDraft} /\ f.base \in {0, f.seen.rev}

\* The file and the record are not behind what was shown.
NothingNewerShown ==
    /\ record.rev > 0 => record.rev <= shard.rev /\ \A a \in shown : a.rev <= record.rev
    /\ shard.rev > 0 => \A a \in shown : a.rev <= shard.rev
    /\ shard.rev = 0 /\ ~dropped => shown = {}

DraftsInv ==
    /\ DraftTypes /\ ClockCovers /\ AllIssued /\ DevicesHaveShown /\ NothingNewerShown
    /\ RevisionNamesOneText /\ CacheIsCurrent

-----------------------------------------------------------------------------
\* The absent record and the absent draft.
LEMMA Absent ==
    /\ NoRecord.rev = 0 /\ NoRecord.text = Empty /\ NoDraft.rev = 0 /\ Draft(NoRecord) = NoDraft
    /\ \A r : Draft(r).rev = r.rev
BY DEF NoRecord, NoDraft, Draft

\* The invariant holds at the start.
LEMMA DraftsInvInit == DraftsInit => DraftsInv
<1>1. Block \in Nat \ {0}
    BY DraftsAssumption
<1> SUFFICES ASSUME DraftsInit PROVE DraftsInv
    OBVIOUS
<1>2. DraftTypes /\ ClockCovers
    BY <1>1, Absent DEF DraftsInit, DraftTypes, ClockCovers
<1>3. AllIssued /\ NothingNewerShown /\ CacheIsCurrent /\ RevisionNamesOneText
    BY Absent
       DEF DraftsInit, AllIssued, NothingNewerShown, CacheIsCurrent, RevisionNamesOneText
<1>4. DevicesHaveShown
    BY DEF DraftsInit, DevicesHaveShown
<1> QED
    BY <1>2, <1>3, <1>4 DEF DraftsInv

\* A device sends what is based on what it has.
LEMMA SendFrameKeeps ==
    ASSUME DraftsInv, NEW d \in Devices, NEW kind, NEW text,
           NEW base \in {0, held[d].rev}, NEW id, SendFrame(d, kind, text, base, id),
           UNCHANGED <<storeVars, cache, held, shown, dropped>>
    PROVE  DraftsInv'
<1>1. /\ UNCHANGED <<record, shard, cache, next, reserved, clock, issued, held, shown, dropped>>
      /\ frames' = frames \cup {[kind |-> kind, text |-> text, base |-> base, id |-> id,
                                  seen |-> held[d]]}
    BY DEF SendFrame, storeVars
<1>2. DevicesHaveShown'
    BY <1>1 DEF DraftsInv, DevicesHaveShown
<1>3. DraftTypes'
    BY <1>1 DEF DraftsInv, DraftTypes, SendFrame
<1> QED
    BY <1>1, <1>2, <1>3 
       DEF DraftsInv, ClockCovers, AllIssued, NothingNewerShown, RevisionNamesOneText,
           CacheIsCurrent

\* A device takes what it was shown.
LEMMA DeliverKeeps ==
    ASSUME DraftsInv, NEW d \in Devices, Deliver(d)
    PROVE  DraftsInv'
<1>1. PICK draft \in shown : held' = [held EXCEPT ![d] = draft]
    BY DEF Deliver
<1>2. UNCHANGED <<record, shard, cache, next, reserved, clock, issued, frames, shown, dropped>>
    BY DEF Deliver, storeVars
<1>3. DraftTypes'
    BY <1>1, <1>2 DEF DraftsInv, DraftTypes, AllIssued
<1>4. DevicesHaveShown'
    BY <1>1, <1>2 DEF DraftsInv, DraftTypes, DevicesHaveShown
<1> QED
    BY <1>2, <1>3, <1>4 
       DEF DraftsInv, ClockCovers, AllIssued, NothingNewerShown, RevisionNamesOneText,
           CacheIsCurrent

-----------------------------------------------------------------------------
\* What is known of the clock, without the records.
LEMMA ClockFacts ==
    ASSUME DraftsInv
    PROVE  /\ Block \in Nat \ {0} /\ next \in Nat \ {0} /\ reserved \in Nat /\ clock \in Nat
           /\ next <= reserved + 1 /\ reserved <= clock
<1>1. Block \in Nat \ {0}
    BY DraftsAssumption
<1> QED
    BY <1>1 DEF DraftsInv, DraftTypes, ClockCovers

\* What handing out a revision does to the clock.
LEMMA AllocatedCovers ==
    ASSUME DraftsInv, Allocated
    PROVE  /\ next' = next + 1 /\ next' \in Nat \ {0} /\ reserved' \in Nat /\ clock' \in Nat
           /\ next' <= reserved' + 1 /\ reserved' <= clock'
BY ClockFacts DEF Allocated, NeedsBlock, NextBlock

\* The next revision has not been issued.
LEMMA NewRevisionIsFresh ==
    ASSUME DraftsInv
    PROVE  next \in Nat \ {0} /\ \A a \in issued : a.rev # next
BY DEF DraftsInv, DraftTypes, ClockCovers

\* The writer is shown the record: no more than an attaching device would be.
LEMMA NotAppliedKeeps ==
    ASSUME DraftsInv, NotApplied, record.rev > 0,
           UNCHANGED <<held, dropped>>, frames' \subseteq frames
    PROVE  DraftsInv'
BY DEF NotApplied, Show, storeVars, Draft, DraftsInv, DraftTypes, ClockCovers, AllIssued,
   DevicesHaveShown,
   NothingNewerShown, RevisionNamesOneText, CacheIsCurrent

\* An accepted text gets a revision nothing had before.
LEMMA AppliedKeeps ==
    ASSUME DraftsInv, NEW text, NEW id, Applied(text, id),
           UNCHANGED <<held, dropped>>, frames' \subseteq frames
    PROVE  DraftsInv'
<1>1. /\ record' = [text |-> text, rev |-> next, id |-> id] /\ shard' = record'
      /\ cache' = [text |-> text, rev |-> next]
      /\ shown' = shown \cup {cache'} /\ issued' = issued \cup {cache'}
    BY DEF Applied, Revised, Draft, Show
<1>2. Allocated
    BY DEF Applied
<1>3. DraftTypes' /\ ClockCovers'
    BY <1>1, <1>2, AllocatedCovers DEF DraftsInv, DraftTypes, ClockCovers
<1>4. AllIssued' /\ NothingNewerShown'
    BY <1>1 DEF DraftsInv, DraftTypes, ClockCovers, AllIssued, NothingNewerShown, Draft
<1>5. DevicesHaveShown'
    BY <1>1 DEF DraftsInv, DevicesHaveShown
<1>6. RevisionNamesOneText'
    BY <1>1, NewRevisionIsFresh DEF DraftsInv, RevisionNamesOneText
<1>7. CacheIsCurrent'
    BY <1>1 DEF CacheIsCurrent, Draft
<1> QED
    BY <1>3, <1>4, <1>5, <1>6, <1>7 DEF DraftsInv

\* A reservation that failed covers no less than before.
LEMMA NoClockKeeps ==
    ASSUME DraftsInv, NoClock, UNCHANGED <<held, dropped>>, frames' \subseteq frames
    PROVE  DraftsInv'
<1>1. UNCHANGED <<record, shard, cache, next, reserved, shown, issued>>
    BY DEF NoClock
<1>2. clock' \in Nat /\ reserved' <= clock'
  <2>1. CASE clock' = clock
      BY <1>1, <2>1 DEF DraftsInv, DraftTypes, ClockCovers
  <2>2. CASE clock' = NextBlock
      BY <1>1, <2>2, ClockFacts DEF NoClock, NeedsBlock, NextBlock
  <2> QED
      BY <2>1, <2>2 DEF NoClock
<1> QED
    BY <1>1, <1>2 DEF DraftsInv, DraftTypes, ClockCovers, AllIssued, DevicesHaveShown,
   NothingNewerShown, RevisionNamesOneText, CacheIsCurrent

\* A write that failed spends its revision, whatever is in the file now.
LEMMA NoShardKeeps ==
    ASSUME DraftsInv, NEW text, NEW id, NoShard(text, id),
           UNCHANGED <<held, dropped>>, frames' \subseteq frames
    PROVE  DraftsInv'
<1> DEFINE new == [text |-> text, rev |-> next, id |-> id]
<1>1. /\ shard' \in {shard, new} /\ issued' = issued \cup {Draft(new)}
      /\ Draft(new) = [text |-> text, rev |-> next]
      /\ UNCHANGED <<record, cache, shown>>
    BY DEF NoShard, Revised, Draft
<1>2. Allocated
    BY DEF NoShard
<1>3. new.rev = next /\ Draft(new).rev = next
    BY <1>1
<1>4. DraftTypes'
    BY <1>1, <1>2, <1>3, AllocatedCovers DEF DraftsInv, DraftTypes
<1>5. ClockCovers'
    BY <1>1, <1>2, <1>3, AllocatedCovers DEF DraftsInv, DraftTypes, ClockCovers
<1>6. AllIssued'
  <2>1. shard' = new => shard'.rev # 0 /\ Draft(shard') \in issued'
      BY <1>1, <1>3, ClockFacts
  <2> QED
      BY <1>1, <2>1 DEF DraftsInv, AllIssued
<1>7. DevicesHaveShown'
    BY <1>1 DEF DraftsInv, DevicesHaveShown
<1>8. NothingNewerShown'
  <2>1. CASE shard' = shard
      BY <1>1, <2>1 DEF DraftsInv, NothingNewerShown
  <2>2. CASE shard' = new
    <3>1. \A a \in shown : a.rev <= next
        BY DEF DraftsInv, DraftTypes, ClockCovers, AllIssued
    <3>2. record.rev > 0 => record.rev <= next
        BY DEF DraftsInv, DraftTypes, ClockCovers, NothingNewerShown
    <3> QED
        BY <1>1, <1>3, <2>2, <3>1, <3>2, NewRevisionIsFresh DEF DraftsInv, NothingNewerShown
  <2> QED
      BY <1>1, <2>1, <2>2
<1>9. RevisionNamesOneText'
    BY <1>1, NewRevisionIsFresh DEF DraftsInv, RevisionNamesOneText
<1>10. CacheIsCurrent'
    BY <1>1 DEF DraftsInv, CacheIsCurrent
<1> QED
    BY <1>4, <1>5, <1>6, <1>7, <1>8, <1>9, <1>10 DEF DraftsInv

-----------------------------------------------------------------------------
\* Every outcome of a write keeps the invariant.
LEMMA SetDraftKeeps ==
    ASSUME DraftsInv, NEW text, NEW id, NEW base,
           SetDraft(text, id, base),
           UNCHANGED <<held, dropped>>, frames' \subseteq frames
    PROVE  DraftsInv'
<1>1. CASE Duplicate(id) \/ StaleBase(base, text)
    BY <1>1, NotAppliedKeeps DEF SetDraft, Duplicate, StaleBase
<1>2. CASE ~(Duplicate(id) \/ StaleBase(base, text))
    BY <1>2, AppliedKeeps, NoClockKeeps, NoShardKeeps DEF SetDraft
<1> QED
    BY <1>1, <1>2

\* A draft frame.
LEMMA TakeDraftKeeps ==
    ASSUME DraftsInv, NEW f \in frames, TakeDraft(f)
    PROVE  DraftsInv'
BY SetDraftKeeps DEF TakeDraft, deviceVars, DraftsInv, DraftTypes

\* A prompt.
LEMMA TakePromptKeeps ==
    ASSUME DraftsInv, NEW f \in frames, TakePrompt(f)
    PROVE  DraftsInv'
<1>1. CASE SetDraft(Empty, 0, record.rev)
    BY <1>1, SetDraftKeeps DEF TakePrompt
<1>2. CASE NoFault /\ UNCHANGED <<storeVars, cache, shown>>
    BY <1>2 DEF TakePrompt, storeVars, DraftsInv, DraftTypes, ClockCovers, AllIssued,
       DevicesHaveShown,
   NothingNewerShown, RevisionNamesOneText, CacheIsCurrent
<1> QED
    BY <1>1, <1>2 DEF TakePrompt

\* Retention takes a record, and with it what was shown of it.
LEMMA OtherSessionKeeps ==
    ASSUME DraftsInv, OtherSession
    PROVE  DraftsInv'
<1>1. Allocated /\ UNCHANGED <<cache, issued, held, frames, shown>>
    BY DEF OtherSession, deviceVars
<1>2. \/ UNCHANGED <<record, shard, dropped>>
      \/ record' = NoRecord /\ dropped' = TRUE /\ (shard' = NoRecord \/ shard' = shard)
    BY DEF OtherSession, Dropped
<1>3. NoRecord.rev = 0
    BY DEF NoRecord
<1>4. /\ record' \in {record, NoRecord} /\ shard' \in {shard, NoRecord}
      /\ record' = record => shard' = shard \/ record = NoRecord
      /\ record' = record \/ dropped'
      /\ dropped => dropped'
    BY <1>2
<1>5. DraftTypes' /\ ClockCovers'
  <2>1. record'.rev \in Nat /\ shard'.rev \in Nat
      BY <1>3, <1>4 DEF DraftsInv, DraftTypes
  <2>2. shard'.rev < next'
      BY <1>1, <1>3, <1>4, AllocatedCovers, ClockFacts DEF DraftsInv, DraftTypes, ClockCovers
  <2>3. \A a \in issued : a.rev < next'
      BY <1>1, AllocatedCovers, ClockFacts DEF DraftsInv, DraftTypes, ClockCovers
  <2> QED
      BY <1>1, <2>1, <2>2, <2>3, AllocatedCovers DEF DraftsInv, DraftTypes, ClockCovers
<1>6. AllIssued' /\ DevicesHaveShown'
    BY <1>1, <1>3, <1>4 DEF DraftsInv, AllIssued, DevicesHaveShown
<1>7. NothingNewerShown'
    BY <1>1, <1>2, <1>3 DEF DraftsInv, NothingNewerShown
<1>8. RevisionNamesOneText' /\ CacheIsCurrent'
    BY <1>1, <1>3, <1>4 DEF DraftsInv, RevisionNamesOneText, CacheIsCurrent
<1> QED
    BY <1>5, <1>6, <1>7, <1>8 DEF DraftsInv

\* A new owner shows what the store has.
LEMMA OwnerRebuiltKeeps ==
    ASSUME DraftsInv, OwnerRebuilt
    PROVE  DraftsInv'
BY DEF OwnerRebuilt, Snapshot, Draft, storeVars, deviceVars, DraftsInv, DraftTypes,
   ClockCovers, AllIssued, DevicesHaveShown,
   NothingNewerShown, RevisionNamesOneText, CacheIsCurrent

\* The clock's file covers what was issued; the block's rest is given up.
LEMMA RestartKeeps ==
    ASSUME DraftsInv, Restart
    PROVE  DraftsInv'
<1>1. /\ reserved' = ClockFromFile /\ next' = reserved' + 1
      /\ cache' = Draft(record') /\ shown' = shown \cup Snapshot(cache')
      /\ UNCHANGED <<clock, issued, held, frames>>
    BY DEF Restart, deviceVars
<1>2. \/ record' = shard /\ UNCHANGED <<shard, dropped>>
      \/ record' = NoRecord /\ dropped' = TRUE /\ (shard' = NoRecord \/ shard' = shard)
    BY DEF Restart, Dropped
<1>3. NoRecord.rev = 0 /\ Draft(record').rev = record'.rev
    BY DEF NoRecord, Draft
<1>4. record' \in {shard, NoRecord} /\ shard' \in {shard, NoRecord}
    BY <1>2
<1>5. DraftTypes' /\ ClockCovers'
  <2>1. shard.rev \in Nat /\ shard.rev < next
      BY DEF DraftsInv, DraftTypes, ClockCovers
  <2>2. reserved' = clock
      BY <1>1, <2>1, ClockFacts DEF ClockFromFile
  <2>3. record'.rev \in Nat /\ shard'.rev \in Nat /\ shard'.rev <= shard.rev
      BY <1>3, <1>4, <2>1
  <2>4. shard'.rev < next'
      BY <1>1, <2>1, <2>2, <2>3, ClockFacts
  <2>5. \A a \in issued : a.rev \in Nat /\ a.rev < next
      BY DEF DraftsInv, DraftTypes, ClockCovers
  <2>6. \A a \in issued : a.rev < next'
      BY <1>1, <2>2, <2>5, ClockFacts
  <2> QED
      BY <1>1, <2>2, <2>3, <2>4, <2>5, <2>6, ClockFacts DEF DraftTypes, ClockCovers
<1>6. AllIssued' /\ DevicesHaveShown' /\ NothingNewerShown'
  <2>1. CASE record' = shard /\ UNCHANGED <<shard, dropped>>
    <3>1. shown' = IF shard.rev > 0 THEN shown \cup {Draft(shard)} ELSE shown
        BY <1>1, <1>3, <2>1 DEF Snapshot, Draft
    <3>2. shard.rev = 0 => shard = NoRecord
        BY DEF DraftsInv, AllIssued
    <3>3. AllIssued'
        BY <1>1, <2>1, <3>1, <3>2 DEF DraftsInv, AllIssued
    <3>4. DevicesHaveShown'
        BY <1>1, <3>1 DEF DraftsInv, DevicesHaveShown
    <3>5. NothingNewerShown'
        BY <1>1, <1>3, <2>1, <3>1 DEF DraftsInv, DraftTypes, NothingNewerShown
    <3> QED
        BY <3>3, <3>4, <3>5
  <2>2. CASE record' = NoRecord /\ dropped' = TRUE /\ (shard' = NoRecord \/ shard' = shard)
    <3>1. shown' = shown
        BY <1>1, <1>3, <2>2 DEF Snapshot
    <3> QED
        BY <1>1, <1>3, <2>2, <3>1 DEF DraftsInv, AllIssued, DevicesHaveShown, NothingNewerShown
  <2> QED
      BY <1>2, <2>1, <2>2
<1>7. RevisionNamesOneText' /\ CacheIsCurrent'
    BY <1>1 DEF DraftsInv, RevisionNamesOneText, CacheIsCurrent
<1> QED
    BY <1>5, <1>6, <1>7 DEF DraftsInv

\* Every step keeps the invariant.
LEMMA DraftsInvStep == DraftsInv /\ [DraftsNext]_draftVars => DraftsInv'
<1> SUFFICES ASSUME DraftsInv, [DraftsNext]_draftVars PROVE DraftsInv'
    OBVIOUS
<1>1. CASE UNCHANGED draftVars
    BY <1>1 DEF draftVars, storeVars, deviceVars, DraftsInv, DraftTypes, ClockCovers, AllIssued,
       DevicesHaveShown, NothingNewerShown, RevisionNamesOneText, CacheIsCurrent
<1>2. ASSUME NEW d \in Devices, NEW text, SendDraft(d, text) PROVE DraftsInv'
    BY <1>2, SendFrameKeeps DEF SendDraft
<1>3. ASSUME NEW d \in Devices, NEW text, SendPrompt(d, text) PROVE DraftsInv'
    BY <1>3, SendFrameKeeps DEF SendPrompt
<1> QED
    BY <1>1, <1>2, <1>3, DeliverKeeps, TakeDraftKeeps, TakePromptKeeps, OtherSessionKeeps,
       OwnerRebuiltKeeps, RestartKeeps DEF DraftsNext

\* The invariant holds in every state of every behaviour.
LEMMA DraftsInvHolds == DraftsSpec => []DraftsInv
BY DraftsInvInit, DraftsInvStep, PTL DEF DraftsSpec

-----------------------------------------------------------------------------
\* No revision is given to two texts, over failed writes and restarts
\* (allocateRevision and loadRevisionClock).
THEOREM RevisionsAreUnique == DraftsSpec => []RevisionNamesOneText
<1>1. DraftsInv => RevisionNamesOneText
    BY DEF DraftsInv
<1> QED
    BY <1>1, DraftsInvHolds, PTL

\* What an owner fans out is the store's record (setDraft, and hydration).
THEOREM OwnersAreCurrent == DraftsSpec => []CacheIsCurrent
<1>1. DraftsInv => CacheIsCurrent
    BY DEF DraftsInv
<1> QED
    BY <1>1, DraftsInvHolds, PTL

\* What a device was shown is in the session's file, unless retention took it.
THEOREM ShownSurvives == DraftsSpec => []ShownIsDurable
<1>1. DraftsInv => ShownIsDurable
    BY DEF DraftsInv, DraftTypes, NothingNewerShown, ShownIsDurable
<1> QED
    BY <1>1, DraftsInvHolds, PTL

-----------------------------------------------------------------------------
\* A device whose frame is based on the record's revision, or a newer one, has
\* seen just that record.
LEMMA BaseMeansSeen ==
    ASSUME DraftsInv, NEW f \in frames, record.rev > 0, f.base >= record.rev
    PROVE  f.seen = Draft(record)
<1>1. f.base = f.seen.rev /\ f.seen \in shown
  <2>1. record.rev \in Nat
      BY DEF DraftsInv, DraftTypes
  <2>2. f.base # 0
      BY <2>1
  <2>3. f.base = f.seen.rev
      BY <2>2 DEF DraftsInv, DevicesHaveShown
  <2> QED
      BY <2>2, <2>3, Absent DEF DraftsInv, DevicesHaveShown
<1>2. f.seen.rev = record.rev
    BY <1>1 DEF DraftsInv, DraftTypes, NothingNewerShown, AllIssued
<1>3. Draft(record).rev = record.rev
    BY Absent
<1> QED
    BY <1>1, <1>2, <1>3 DEF DraftsInv, AllIssued, RevisionNamesOneText

\* A draft is replaced or cleared only by a device it had reached, or that had
\* typed the same text (write and clearDraftAfterPrompt).
LEMMA StepReplacesSeen ==
    ASSUME DraftsInv, NEW f \in frames, TakeDraft(f) \/ TakePrompt(f),
           record.text \notin {Empty, record'.text}
    PROVE  \/ f.seen = Draft(record)
           \/ f.id # 0 /\ f.id = record.id
           \/ f.text = record.text
<1>1. record.rev \in Nat /\ record.rev > 0
    BY Absent DEF DraftsInv, DraftTypes, AllIssued
<1>2. record' # record
    OBVIOUS
<1>3. CASE TakeDraft(f)
  <2>1. ~StaleBase(f.base, f.text)
      BY <1>2, <1>3 DEF TakeDraft, SetDraft, NotApplied, storeVars
  <2>2. f.base \in Nat
    <3>1. f.seen.rev \in Nat
        BY Absent DEF DraftsInv, DraftTypes, DevicesHaveShown, AllIssued
    <3> QED
        BY <3>1 DEF DraftsInv, DevicesHaveShown
  <2>3. f.base >= record.rev \/ f.text = record.text
      BY <1>1, <2>1, <2>2 DEF StaleBase
  <2> QED
      BY <1>1, <2>3, BaseMeansSeen
<1>4. CASE TakePrompt(f)
  <2>1. Owned(f)
      BY <1>2, <1>4 DEF TakePrompt, storeVars
  <2>2. CASE f.base = record.rev
    <3>1. f.base >= record.rev
        BY <1>1, <2>2
    <3> QED
        BY <1>1, <3>1, BaseMeansSeen
  <2> QED
      BY <2>1, <2>2 DEF Owned
<1> QED
    BY <1>3, <1>4

THEOREM NothingUnseenIsReplaced == DraftsSpec => ReplacedOnlyIfSeen
<1>1. DraftsInv /\ [DraftsNext]_draftVars =>
        \A f \in frames :
            (TakeDraft(f) \/ TakePrompt(f)) /\ record.text \notin {Empty, record'.text} =>
                \/ f.seen = Draft(record)
                \/ f.id # 0 /\ f.id = record.id
                \/ f.text = record.text
    BY StepReplacesSeen
<1> QED
    BY <1>1, DraftsInvHolds, PTL DEF DraftsSpec, ReplacedOnlyIfSeen
=============================================================================
