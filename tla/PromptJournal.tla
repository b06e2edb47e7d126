---------------------------- MODULE PromptJournal ----------------------------
(***************************************************************************)
(* How a prompt that is sent again is not run again: the idempotency part  *)
(* of the protocol journal (broker/src/sessions/protocol-journal.ts) and   *)
(* the handling of a prompt around it (runtime.ts,                         *)
(* handleManagedClientMessage).  A client that has seen no answer sends    *)
(* the same prompt again, over any socket, whenever it likes.  The journal *)
(* is a map in memory and one file, which is replaced as a whole.          *)
(***************************************************************************)
EXTENDS Naturals, FiniteSets

CONSTANTS Prompts,      \* client message ids of one sender and session
          Capacity,     \* maxIdempotencyEntries
          MaxBadWrites, \* bound: writes of the file that fail
          MaxStops,     \* bound: restarts of the broker
          MaxHanded     \* bound: times one prompt is handed over

ASSUME JournalAssumption ==
    /\ Capacity \in Nat \ {0} /\ MaxBadWrites \in Nat
    /\ MaxStops \in Nat /\ MaxHanded \in Nat

VARIABLES journal,   \* the records in memory
          saved,     \* the records in the file
          job,       \* per prompt: where its handler is
          handed,    \* history: how often each prompt was handed to the agent
          told,      \* history: the answers each prompt got, of one whose
                     \* handler a restart cut off those since then
          retired,   \* history: prompts whose record was dropped for age or room
          cutOff,    \* history: prompts whose handler a restart cut off
          failed,    \* history: the kinds of writes that have failed
          badWritesLeft, stopsLeft

journalVars == <<journal, saved, job, handed, told, retired, cutOff,
                 failed, badWritesLeft, stopsLeft>>

Terminal == {"ack", "nack", "unknown"}      \* results a record can end with
States   == {"none", "flight"} \cup Terminal
Answers  == {"pending", "full"} \cup Terminal
Writes   == {"prune", "claim", "complete", "load"}

NoRecords == [p \in Prompts |-> "none"]

JournalInit ==
    /\ journal = NoRecords /\ saved = NoRecords
    /\ job = [p \in Prompts |-> "idle"]
    /\ handed = [p \in Prompts |-> 0]
    /\ told = [p \in Prompts |-> {}] /\ retired = {} /\ cutOff = {}
    /\ failed = {} /\ badWritesLeft = MaxBadWrites /\ stopsLeft = MaxStops

Answer(p, a) == told' = [told EXCEPT ![p] = @ \cup {a}]

WriteFails(kind) ==
    /\ badWritesLeft > 0
    /\ badWritesLeft' = badWritesLeft - 1
    /\ failed' = failed \cup {kind}

NoBadWrite == UNCHANGED <<failed, badWritesLeft>>

\* Records that may be dropped: only what has ended.  Which of them are past
\* the retention, and which is the oldest, the clock decides.
Droppable(records) == {p \in Prompts : records[p] \in Terminal}
Without(records, gone) == [p \in Prompts |-> IF p \in gone THEN "none" ELSE records[p]]
Count(records) == Cardinality({p \in Prompts : records[p] # "none"})

\* makeIdempotencyRoom: the sets of records it may drop, none when every record
\* is still in flight.
Room(records) ==
    IF Count(records) < Capacity THEN {{}}
    ELSE {gone \in SUBSET Droppable(records) :
             Cardinality(gone) = Count(records) + 1 - Capacity}

-----------------------------------------------------------------------------
(* claim, called as the first thing a prompt's handler does.               *)

\* The housekeeping drops what is old (tickets too, which share the file) and
\* its save fails before the prompt has been looked up.
ClaimPruneFails(p) ==
    \E old \in SUBSET Droppable(journal) :
        /\ WriteFails("prune")
        /\ journal' = Without(journal, old)
        /\ retired' = retired \cup old
        /\ Answer(p, "full")
        /\ UNCHANGED <<saved, job, handed, cutOff, stopsLeft>>

\* What the housekeeping leaves in memory and in the file.
Pruned(old) ==
    [memory |-> Without(journal, old),
     file   |-> IF old = {} THEN saved ELSE Without(journal, old)]

\* The prompt is known: its result again, or "pending".  A request that gives
\* its id to something else is told of the conflict, and not of the prompt.
ClaimKnown(p) ==
    \E old \in SUBSET Droppable(journal) :
        LET now == Pruned(old) IN
        /\ now.memory[p] # "none"
        /\ journal' = now.memory /\ saved' = now.file
        /\ retired' = retired \cup old
        /\ \/ Answer(p, IF now.memory[p] = "flight" THEN "pending" ELSE now.memory[p])
           \/ UNCHANGED told
        /\ NoBadWrite
        /\ UNCHANGED <<job, handed, cutOff, stopsLeft>>

\* Every record is in flight and there is no room for another.
ClaimFull(p) ==
    \E old \in SUBSET Droppable(journal) :
        LET now == Pruned(old) IN
        /\ now.memory[p] = "none" /\ Room(now.memory) = {}
        /\ journal' = now.memory /\ saved' = now.file
        /\ retired' = retired \cup old
        /\ Answer(p, "full")
        /\ NoBadWrite
        /\ UNCHANGED <<job, handed, cutOff, stopsLeft>>

\* Mutant: a claim is written to the file only with its result.
ClaimUnsaved(p) ==
    \E old \in SUBSET Droppable(journal) :
        LET now == Pruned(old) IN
        \E gone \in Room(now.memory) :
            /\ now.memory[p] = "none"
            /\ journal' = [Without(now.memory, gone) EXCEPT ![p] = "flight"]
            /\ saved' = now.file
            /\ job' = [job EXCEPT ![p] = "claimed"]
            /\ retired' = retired \cup old \cup gone
            /\ NoBadWrite
            /\ UNCHANGED <<handed, told, cutOff, stopsLeft>>

\* A new prompt is in flight in the file before anything is done with it.
ClaimNew(p) ==
    \E old \in SUBSET Droppable(journal) :
        LET kept == Pruned(old).memory IN
        \E gone \in Room(kept) :
            /\ kept[p] = "none"
            /\ journal' = [Without(kept, gone) EXCEPT ![p] = "flight"]
            /\ saved' = journal'
            /\ job' = [job EXCEPT ![p] = "claimed"]
            /\ retired' = retired \cup old \cup gone
            /\ NoBadWrite
            /\ UNCHANGED <<handed, told, cutOff, stopsLeft>>

\* The save of the claim fails, before or after the file was replaced: the
\* prompt is refused, and stays in flight in memory.
ClaimFails(p) ==
    \E old \in SUBSET Droppable(journal) :
        LET now == Pruned(old) IN
        \E gone \in Room(now.memory) :
            /\ now.memory[p] = "none"
            /\ WriteFails("claim")
            /\ journal' = [Without(now.memory, gone) EXCEPT ![p] = "flight"]
            /\ saved' \in {now.file, journal'}
            /\ retired' = retired \cup old \cup gone
            /\ Answer(p, "full")
            /\ UNCHANGED <<job, handed, cutOff, stopsLeft>>

\* A ticket is issued or received: the same file, pruned and saved as a whole.
TicketSaved ==
    \E old \in SUBSET Droppable(journal) :
        /\ journal' = Without(journal, old) /\ saved' = journal'
        /\ retired' = retired \cup old
        /\ NoBadWrite
        /\ UNCHANGED <<job, handed, told, cutOff, stopsLeft>>

-----------------------------------------------------------------------------
(* The rest of the handler.                                                *)

\* The request passes its checks and sendPrompt is called.
HandOver(p) ==
    /\ job[p] = "claimed" /\ handed[p] < MaxHanded
    /\ job' = [job EXCEPT ![p] = "sent"]
    /\ handed' = [handed EXCEPT ![p] = @ + 1]
    /\ NoBadWrite
    /\ UNCHANGED <<journal, saved, told, retired, cutOff, stopsLeft>>

\* The results a handler can end with now: a nack when a check, sendPrompt or
\* what comes after it threw, an ack otherwise.  Neither says what the agent
\* did: a connection may resolve although its command was refused, and reject
\* although its request arrived.
Results(p) ==
    IF job[p] = "claimed" THEN {"nack"}
    ELSE IF job[p] = "sent" THEN {"ack", "nack"}
    ELSE {}

\* Mutant: the record takes its result only once that has been saved.
SavedFirst(p, fails) ==
    \E result \in Results(p) :
        /\ Answer(p, result)
        /\ job' = [job EXCEPT ![p] = "idle"]
        /\ saved' = IF fails THEN saved ELSE [journal EXCEPT ![p] = result]
        /\ journal' = IF fails THEN journal ELSE saved'
        /\ IF fails THEN WriteFails("complete") ELSE NoBadWrite
        /\ UNCHANGED <<handed, retired, cutOff, stopsLeft>>

\* The answer, then complete: its save may fail, or the broker go down before
\* it, and only memory has the result.
Finish(p, fails) ==
    \E result \in Results(p) :
        /\ Answer(p, result)
        /\ job' = [job EXCEPT ![p] = "idle"]
        /\ journal' = [journal EXCEPT ![p] = result]
        /\ saved' = IF fails THEN saved ELSE journal'
        /\ IF fails THEN WriteFails("complete") ELSE NoBadWrite
        /\ UNCHANGED <<handed, retired, cutOff, stopsLeft>>

-----------------------------------------------------------------------------
(* load, at the start of the broker.                                       *)

\* Mutants: the claims of the last process are dropped; are taken for failed.
ClaimsDropped(state) == IF state = "flight" THEN "none" ELSE state
ClaimsFailed(state)  == IF state = "flight" THEN "nack" ELSE state

\* What the process that went down was doing can have had any outcome.
Recovered(state) == IF state = "flight" THEN "unknown" ELSE state

Loaded(old) == [p \in Prompts |-> IF p \in old THEN "none" ELSE Recovered(saved[p])]

Stopped ==
    /\ stopsLeft > 0
    /\ stopsLeft' = stopsLeft - 1
    /\ job' = [p \in Prompts |-> "idle"]
    /\ cutOff' = cutOff \cup {p \in Prompts : job[p] # "idle"}
    /\ told' = [p \in Prompts |-> IF job[p] = "idle" THEN told[p] ELSE {}]
    /\ UNCHANGED handed

RestartLoads ==
    \E old \in SUBSET Droppable(saved) :
        /\ Stopped
        /\ journal' = Loaded(old) /\ saved' = journal'
        /\ retired' = retired \cup old
        /\ NoBadWrite

\* The save of what was recovered fails: the file is moved away, if that still
\* works, and memory starts empty.
RestartQuarantines ==
    \E old \in SUBSET Droppable(saved) :
        /\ Stopped
        /\ WriteFails("load")
        /\ journal' = NoRecords
        /\ saved' \in {NoRecords, saved, Loaded(old)}
        /\ retired' = retired \cup old

JournalNext ==
    \/ \E p \in Prompts :
        \/ ClaimPruneFails(p) \/ ClaimKnown(p) \/ ClaimFull(p) \/ ClaimNew(p) \/ ClaimFails(p)
        \/ HandOver(p)
        \/ \E fails \in BOOLEAN : Finish(p, fails)
    \/ TicketSaved \/ RestartLoads \/ RestartQuarantines

JournalSpec == JournalInit /\ [][JournalNext]_journalVars

-----------------------------------------------------------------------------
JournalTypeOK ==
    /\ journal \in [Prompts -> States] /\ saved \in [Prompts -> States]
    /\ job \in [Prompts -> {"idle", "claimed", "sent"}]
    /\ handed \in [Prompts -> Nat]
    /\ told \in [Prompts -> SUBSET Answers]
    /\ retired \subseteq Prompts /\ cutOff \subseteq Prompts /\ failed \subseteq Writes
    /\ badWritesLeft \in Nat /\ stopsLeft \in Nat

\* However often a prompt is sent and whatever write fails or restart comes
\* between, the agent gets it once, as long as its record was not dropped for
\* age or room and no start has thrown the journal away.
HandedOnce ==
    "load" \notin failed => \A p \in Prompts \ retired : handed[p] <= 1

\* Whatever save fails and whatever restart comes between, nobody who asks
\* about a prompt is told that it was accepted when somebody was told, or will
\* be, that it failed: not by its handler, by a record in memory or in the
\* file, nor by what a start makes of one.  "unknown" may follow either.
OneVerdict ==
    "load" \notin failed =>
        \A p \in Prompts \ retired :
            ~({"ack", "nack"} \subseteq {journal[p], saved[p]} \cup told[p])

\* Of a prompt whose handler a restart cut off nobody can know whether it ran.
\* Every later answer says so: it is not taken for new, nor called pending,
\* accepted or refused, which would have the client give the text back to be
\* sent under another id.  The housekeeping's failing save answers "full".
CutOffIsUnknown ==
    failed \cap {"load", "prune"} = {} =>
        \A p \in cutOff \ retired : told[p] \subseteq {"unknown"}

\* "pending" is answered only for a prompt a handler of this process works on,
\* unless the save of a claim has failed.
PendingIsWorkedOn ==
    "claim" \notin failed => \A p \in Prompts : journal[p] = "flight" => job[p] # "idle"

-----------------------------------------------------------------------------
(* Without the exceptions, as the code's comments have it.                 *)

\* "Never dispatch it again under the same id" (protocol-journal.ts:263-264).
NeverDispatchedAgain == \A p \in Prompts \ retired : handed[p] <= 1

\* "the original is running" (session_outbox.dart, markStillInFlight).
OriginalIsRunning == \A p \in Prompts : journal[p] = "flight" => job[p] # "idle"
=============================================================================
