-------------------------- MODULE Exclusion_proofs --------------------------
(***************************************************************************)
(* What the two ways of taking turns promise: the lock that the commands of *)
(* an installation take (InstallationLock), and the order that the frames of *)
(* a client socket are handled in (ClientHandoff).                         *)
(***************************************************************************)
EXTENDS InstallationLock, ClientHandoff, WellFoundedInduction, TLAPS

-----------------------------------------------------------------------------
(***************************************************************************)
(* What InstallationLock promises for any number of processes and of       *)
(* attempts.  Both invariants need that a command which may create the     *)
(* lock has its nonce, so that its record is not the absent one; with that *)
(* each of them is inductive.                                              *)
(***************************************************************************)

Steps == {"idle", "read", "judge", "move", "create", "holding", "unlink", "gone"}

LockTypes ==
    /\ pc \in [Processes -> Steps]
    /\ nonce \in [Processes -> Nat]
    /\ nonces \in Nat /\ moved \in BOOLEAN

\* A command has its nonce from its first step on.
Numbered == \A p \in Processes : pc[p] \notin {"idle", "gone"} => nonce[p] > 0

Basics == LockTypes /\ Numbered

-----------------------------------------------------------------------------
\* The record of a command that runs is never mistaken for no lock, nor for
\* the record of another process.
LEMMA RecordsDiffer ==
    ASSUME NEW p \in Processes, NEW q \in Processes, nonce[p] > 0
    PROVE  Mine(p) # NoLock /\ (Mine(p) = Mine(q) => p = q)
BY DEF Mine, NoLock

\* Types and nonces are right at the start.
LEMMA BasicsInit == LockInit => Basics
<1> SUFFICES ASSUME LockInit PROVE Basics
    OBVIOUS
<1>1. pc \in [Processes -> Steps] /\ nonce \in [Processes -> Nat]
    BY DEF LockInit, Steps
<1>2. nonces \in Nat /\ moved \in BOOLEAN
    BY DEF LockInit
<1>3. Numbered
    BY DEF LockInit, Numbered
<1> QED
    BY <1>1, <1>2, <1>3 DEF Basics, LockTypes

\* Every file system call keeps them so.
LEMMA BasicsStep == Basics /\ [LockNext]_lockVars => Basics'
<1> SUFFICES ASSUME Basics, [LockNext]_lockVars PROVE Basics'
    OBVIOUS
<1> USE DEF Basics, LockTypes, Numbered, Steps, Goto
<1>1. CASE UNCHANGED lockVars
    BY <1>1 DEF lockVars, NoLock
<1>2. ASSUME NEW p \in Processes, Exit(p) PROVE Basics'
    BY <1>2 DEF Exit, NoLock
<1>3. ASSUME NEW p \in Processes, LookForLock(p) PROVE Basics'
    BY <1>3 DEF LookForLock, NoLock
<1>4. ASSUME NEW p \in Processes, ReadRecord(p) PROVE Basics'
    BY <1>4 DEF ReadRecord, NoLock
<1>5. ASSUME NEW p \in Processes, Judge(p) PROVE Basics'
    BY <1>5 DEF Judge, NoLock
<1>6. ASSUME NEW p \in Processes, MoveAside(p) PROVE Basics'
    BY <1>6 DEF MoveAside, NoLock
<1>7. ASSUME NEW p \in Processes, CreateLock(p) PROVE Basics'
    BY <1>7 DEF CreateLock, NoLock, Mine
<1>8. ASSUME NEW p \in Processes, CheckOwner(p) PROVE Basics'
    BY <1>8 DEF CheckOwner, NoLock
<1>9. ASSUME NEW p \in Processes, Unlink(p) PROVE Basics'
    BY <1>9 DEF Unlink, NoLock
<1> QED
    BY <1>1, <1>2, <1>3, <1>4, <1>5, <1>6, <1>7, <1>8, <1>9 DEF LockNext

-----------------------------------------------------------------------------
\* While no lock was moved aside every step keeps the holder in the file: the
\* exclusive creation finds no holder, and a release removes its own record.
LEMMA OneHolderStep ==
    Basics /\ OneHolderUntilMoved /\ [LockNext]_lockVars => OneHolderUntilMoved'
<1> SUFFICES ASSUME Basics, OneHolderUntilMoved, [LockNext]_lockVars, ~moved'
             PROVE  \A q \in Holders' : lock' = Mine(q)'
    BY DEF OneHolderUntilMoved
<1> USE DEF Basics, LockTypes, Holders, Mine, Goto
<1>1. CASE UNCHANGED lockVars
    BY <1>1 DEF lockVars, OneHolderUntilMoved
<1>2. ASSUME NEW p \in Processes, Exit(p) PROVE \A q \in Holders' : lock' = Mine(q)'
    BY <1>2 DEF Exit, OneHolderUntilMoved
<1>3. ASSUME NEW p \in Processes, LookForLock(p) PROVE \A q \in Holders' : lock' = Mine(q)'
    BY <1>3 DEF LookForLock, OneHolderUntilMoved
<1>4. ASSUME NEW p \in Processes, ReadRecord(p) PROVE \A q \in Holders' : lock' = Mine(q)'
    BY <1>4 DEF ReadRecord, OneHolderUntilMoved
<1>5. ASSUME NEW p \in Processes, Judge(p) PROVE \A q \in Holders' : lock' = Mine(q)'
    BY <1>5 DEF Judge, OneHolderUntilMoved
<1>6. ASSUME NEW p \in Processes, MoveAside(p) PROVE \A q \in Holders' : lock' = Mine(q)'
    BY <1>6 DEF MoveAside, OneHolderUntilMoved
<1>7. ASSUME NEW p \in Processes, CreateLock(p) PROVE \A q \in Holders' : lock' = Mine(q)'
    <2>1. ~moved
        BY <1>7 DEF CreateLock
    <2>2. CASE lock # NoLock
        BY <1>7, <2>1, <2>2 DEF CreateLock, OneHolderUntilMoved
    <2>3. CASE lock = NoLock
        <3>1. \A q \in Processes : pc[q] \notin {"holding", "unlink"}
            BY <2>1, <2>3, RecordsDiffer DEF OneHolderUntilMoved, Numbered
        <3> QED
            BY <1>7, <2>3, <3>1 DEF CreateLock
    <2> QED
        BY <2>2, <2>3
<1>8. ASSUME NEW p \in Processes, CheckOwner(p) PROVE \A q \in Holders' : lock' = Mine(q)'
    BY <1>8 DEF CheckOwner, OneHolderUntilMoved
<1>9. ASSUME NEW p \in Processes, Unlink(p) PROVE \A q \in Holders' : lock' = Mine(q)'
    <2>1. \A q \in Holders : q = p
        BY <1>9, RecordsDiffer DEF Unlink, OneHolderUntilMoved, Numbered
    <2> QED
        BY <1>9, <2>1 DEF Unlink
<1> QED
    BY <1>1, <1>2, <1>3, <1>4, <1>5, <1>6, <1>7, <1>8, <1>9 DEF LockNext

\* As long as no process has moved a lock aside, one command at most may change
\* the installation, and the lock file names it: acquire and release of
\* installation-lock.ts exclude each other whatever dies in between.
THEOREM HolderIsInTheFile == LockSpec => []OneHolderUntilMoved
<1>1. LockInit => OneHolderUntilMoved
    BY DEF LockInit, OneHolderUntilMoved, Holders
<1> QED
    BY <1>1, BasicsInit, BasicsStep, OneHolderStep, PTL DEF LockSpec

\* The one cross-command mutation lock excludes, as its comment says, until a
\* stale lock is recovered: only the recovery can break it.
THEOREM OnlyRecoveryBreaksExclusion == LockSpec => [](~moved => OneHolder)
<1>1. Basics /\ OneHolderUntilMoved => (~moved => OneHolder)
    BY RecordsDiffer DEF Basics, Numbered, OneHolderUntilMoved, OneHolder, Holders
<1> QED
    BY <1>1, BasicsInit, BasicsStep, HolderIsInTheFile, PTL DEF LockSpec

-----------------------------------------------------------------------------
\* No step leaves a record behind that names neither a command which will
\* remove it nor a process that died.
LEMMA LeftBehindStep ==
    Basics /\ NoLockLeftBehind /\ [LockNext]_lockVars => NoLockLeftBehind'
<1> SUFFICES ASSUME Basics, NoLockLeftBehind, [LockNext]_lockVars
             PROVE  NoLockLeftBehind'
    OBVIOUS
<1> USE DEF Basics, LockTypes, NoLockLeftBehind, Holders, Mine, Goto
<1>1. CASE UNCHANGED lockVars
    BY <1>1 DEF lockVars, NoLock
<1>2. ASSUME NEW p \in Processes, Exit(p) PROVE NoLockLeftBehind'
    BY <1>2 DEF Exit, NoLock
<1>3. ASSUME NEW p \in Processes, LookForLock(p) PROVE NoLockLeftBehind'
    BY <1>3 DEF LookForLock, NoLock
<1>4. ASSUME NEW p \in Processes, ReadRecord(p) PROVE NoLockLeftBehind'
    BY <1>4 DEF ReadRecord, NoLock
<1>5. ASSUME NEW p \in Processes, Judge(p) PROVE NoLockLeftBehind'
    BY <1>5 DEF Judge, NoLock
<1>6. ASSUME NEW p \in Processes, MoveAside(p) PROVE NoLockLeftBehind'
    BY <1>6 DEF MoveAside, NoLock
<1>7. ASSUME NEW p \in Processes, CreateLock(p) PROVE NoLockLeftBehind'
    BY <1>7 DEF CreateLock, NoLock
<1>8. ASSUME NEW p \in Processes, CheckOwner(p) PROVE NoLockLeftBehind'
    BY <1>8 DEF CheckOwner, NoLock
<1>9. ASSUME NEW p \in Processes, Unlink(p) PROVE NoLockLeftBehind'
    BY <1>9 DEF Unlink, NoLock
<1> QED
    BY <1>1, <1>2, <1>3, <1>4, <1>5, <1>6, <1>7, <1>8, <1>9 DEF LockNext

\* A lock file outlives its command only when the process of the command died
\* in the middle of it: release always accepts the record acquire wrote.
THEOREM LocksAreReleased == LockSpec => []NoLockLeftBehind
<1>1. LockInit => NoLockLeftBehind
    BY DEF LockInit, NoLockLeftBehind
<1> QED
    BY <1>1, BasicsInit, BasicsStep, LeftBehindStep, PTL DEF LockSpec

-----------------------------------------------------------------------------
(***************************************************************************)
(* What ClientHandoff promises for any number of frames.  That a handoff   *)
(* runs alone is not inductive: it needs that an accepted handoff is the   *)
(* barrier every later frame waits for.  That prompts keep their order     *)
(* needs that each prompt waits for the one before it, and that a prompt   *)
(* which has begun has none before it that is still active.                *)
(***************************************************************************)

PhaseNames == {"new", "waiting", "running", "done", "failed", "refused"}

HandoffTypes ==
    /\ arrived \in Nat /\ handoffBarrier \in Nat /\ sendChain \in Nat
    /\ kind \in [Frames -> Kinds]
    /\ phase \in [Frames -> PhaseNames]
    /\ waitsFor \in [Frames -> SUBSET Nat]
    /\ \A i \in Frames : i > arrived <=> phase[i] = "new"

\* An accepted handoff is the last barrier; it found no work, and what came
\* after it waits for it.
BarrierHolds ==
    \A h \in Active : kind[h] = "handoff" =>
        /\ handoffBarrier = h
        /\ \A i \in Active : i = h \/ (phase[i] = "waiting" /\ h \in waitsFor[i])

Prompts == {i \in Frames : i <= arrived /\ kind[i] = "prompt"}

\* sendChain is the last prompt.
ChainIsLast ==
    \A i \in Prompts : i <= sendChain /\ sendChain \in Prompts

\* A prompt waits for the one before it.
Chained ==
    \A i, j \in Prompts : i < j => \E p \in Prompts : i <= p /\ p < j /\ p \in waitsFor[j]

\* A prompt that has begun has no active one before it.
BegunInOrder ==
    \A i, j \in Prompts : i < j /\ phase[j] # "waiting" => i \notin Active

HandoffIInv == HandoffTypes /\ BarrierHolds /\ ChainIsLast /\ Chained /\ BegunInOrder

-----------------------------------------------------------------------------
\* Before the first frame nothing is active and no prompt has arrived.
LEMMA HandoffIInvInit == HandoffInit => HandoffIInv
<1> SUFFICES ASSUME HandoffInit PROVE HandoffIInv
    OBVIOUS
<1> USE DEF HandoffInit, Frames
<1>1. HandoffTypes
    BY DEF HandoffTypes, Kinds, PhaseNames
<1>2. Active = {}
    BY DEF Active
<1>3. Prompts = {}
    BY DEF Prompts
<1> QED
    BY <1>1, <1>2, <1>3
    DEF HandoffIInv, BarrierHolds, ChainIsLast, Chained, BegunInOrder

\* A frame that is accepted was not known before, and all others stay as they were.
LEMMA AcceptFacts ==
    ASSUME HandoffTypes, NEW i \in Frames, i = arrived + 1,
           NEW k \in Kinds, NEW promises \in SUBSET Nat, Accept(i, k, promises)
    PROVE  /\ arrived' = i /\ i \notin Active /\ Active' = Active \cup {i}
           /\ kind'[i] = k /\ phase'[i] = "waiting" /\ waitsFor'[i] = promises
           /\ \A j \in Frames : j # i => /\ kind'[j] = kind[j] /\ phase'[j] = phase[j]
                                         /\ waitsFor'[j] = waitsFor[j]
           /\ Prompts' = IF k = "prompt" THEN Prompts \cup {i} ELSE Prompts
           /\ i \notin Prompts
           /\ \A j \in Prompts \cup Active : j < i
<1> USE DEF HandoffTypes, Accept, Frames
<1>1. /\ arrived' = i /\ kind'[i] = k /\ phase'[i] = "waiting" /\ waitsFor'[i] = promises
      /\ \A j \in Frames : j # i => /\ kind'[j] = kind[j] /\ phase'[j] = phase[j]
                                    /\ waitsFor'[j] = waitsFor[j]
    OBVIOUS
<1>2. i \notin Active /\ Active' = Active \cup {i}
    BY <1>1 DEF Active
<1>3. Prompts' = IF k = "prompt" THEN Prompts \cup {i} ELSE Prompts
    BY <1>1 DEF Prompts
<1>4. i \notin Prompts /\ \A j \in Prompts \cup Active : j < i
    BY DEF Prompts, Active
<1> QED
    BY <1>1, <1>2, <1>3, <1>4

\* The types survive an acceptance.
LEMMA AcceptTypes ==
    ASSUME HandoffTypes, NEW i \in Frames, i = arrived + 1,
           NEW k \in Kinds, NEW promises \in SUBSET Nat, Accept(i, k, promises),
           handoffBarrier' \in Nat, sendChain' \in Nat
    PROVE  HandoffTypes'
BY DEF HandoffTypes, Accept, Frames, PhaseNames

\* A frame that waits for the last handoff keeps the barrier.
LEMMA AcceptBarrier ==
    ASSUME HandoffTypes, BarrierHolds, NEW i \in Frames, i = arrived + 1,
           NEW k \in Kinds \ {"handoff"}, NEW promises \in SUBSET Nat,
           Accept(i, k, promises), handoffBarrier \in promises, UNCHANGED handoffBarrier
    PROVE  BarrierHolds'
BY AcceptFacts DEF BarrierHolds, Active

\* A frame that is no prompt leaves the order of the prompts alone.
LEMMA AcceptOther ==
    ASSUME HandoffTypes, ChainIsLast, Chained, BegunInOrder,
           NEW i \in Frames, i = arrived + 1, NEW k \in Kinds \ {"prompt"},
           NEW promises \in SUBSET Nat, Accept(i, k, promises), UNCHANGED sendChain
    PROVE  ChainIsLast' /\ Chained' /\ BegunInOrder'
<1>1. Prompts' = Prompts /\ Prompts \subseteq Frames /\ i \notin Prompts
    BY AcceptFacts DEF Prompts
<1>2. \A j \in Prompts : phase'[j] = phase[j] /\ waitsFor'[j] = waitsFor[j]
                           /\ (j \in Active' <=> j \in Active)
    BY <1>1, AcceptFacts
<1>3. ChainIsLast'
    BY <1>1 DEF ChainIsLast
<1>4. Chained'
    BY <1>1, <1>2 DEF Chained
<1>5. BegunInOrder'
    BY <1>1, <1>2 DEF BegunInOrder
<1> QED
    BY <1>3, <1>4, <1>5

\* A prompt that waits for sendChain joins the order at its end.
LEMMA AcceptChained ==
    ASSUME HandoffTypes, ChainIsLast, Chained, BegunInOrder,
           NEW i \in Frames, i = arrived + 1,
           NEW promises \in SUBSET Nat, Accept(i, "prompt", promises),
           sendChain \in promises, sendChain' = i
    PROVE  ChainIsLast' /\ Chained' /\ BegunInOrder'
<1> "prompt" \in Kinds
    BY DEF Kinds
<1>1. /\ Prompts' = Prompts \cup {i} /\ i \notin Prompts
      /\ \A j \in Prompts : j \in Nat /\ j < i /\ j \in Frames
      /\ i \in Nat /\ phase'[i] = "waiting" /\ waitsFor'[i] = promises
    BY AcceptFacts DEF Prompts, Frames
<1>2. \A j \in Prompts : phase'[j] = phase[j] /\ waitsFor'[j] = waitsFor[j]
                           /\ (j \in Active' <=> j \in Active)
    BY <1>1, AcceptFacts
<1>3. ChainIsLast'
    BY <1>1 DEF ChainIsLast
<1>4. ASSUME NEW a \in Prompts', NEW b \in Prompts', a < b
      PROVE  \E p \in Prompts' : a <= p /\ p < b /\ p \in waitsFor'[b]
    <2>1. a \in Prompts
        BY <1>1, <1>4
    <2>2. CASE b = i
        BY <1>1, <2>1, <2>2 DEF ChainIsLast
    <2>3. CASE b \in Prompts
        BY <1>1, <1>2, <1>4, <2>1, <2>3 DEF Chained
    <2> QED
        BY <1>1, <2>2, <2>3
<1>5. ASSUME NEW a \in Prompts', NEW b \in Prompts', a < b, phase'[b] # "waiting"
      PROVE  a \notin Active'
    BY <1>1, <1>2, <1>5 DEF BegunInOrder
<1> QED
    BY <1>3, <1>4, <1>5 DEF Chained, BegunInOrder

-----------------------------------------------------------------------------
\* What an accepted task waits for has been settled when it runs: the handoff
\* before it, and every prompt before a prompt.
LEMMA StartKeeps ==
    ASSUME HandoffIInv, NEW i \in Frames, Start(i)
    PROVE  HandoffIInv'
<1> USE DEF HandoffIInv
<1>1. /\ phase[i] = "waiting" /\ phase' = [phase EXCEPT ![i] = "running"]
      /\ UNCHANGED <<arrived, kind, waitsFor, handoffBarrier, sendChain>>
      /\ Active' = Active /\ Prompts' = Prompts /\ i \in Active
    BY DEF Start, HandoffTypes, Active, Prompts
<1>2. \A p \in waitsFor[i] : p \in Frames => p \notin Active
    BY DEF Start, Settled, Active, Frames
<1>3. HandoffTypes'
    BY <1>1 DEF HandoffTypes, PhaseNames, Frames
<1>4. BarrierHolds'
    <2> SUFFICES ASSUME NEW h \in Active, kind[h] = "handoff"
                 PROVE  /\ handoffBarrier = h
                        /\ \A j \in Active : j = h \/ (phase'[j] = "waiting" /\ h \in waitsFor[j])
        BY <1>1 DEF BarrierHolds
    <2>1. i = h
        BY <1>1, <1>2 DEF BarrierHolds, Active
    <2> QED
        BY <1>1, <2>1 DEF BarrierHolds, HandoffTypes
<1>5. ChainIsLast' /\ Chained'
    BY <1>1 DEF ChainIsLast, Chained
<1>6. BegunInOrder'
    <2> SUFFICES ASSUME NEW a \in Prompts, NEW b \in Prompts, a < b, phase'[b] # "waiting"
                 PROVE  a \notin Active
        BY <1>1 DEF BegunInOrder
    <2>1. CASE b # i
        BY <1>1, <2>1 DEF BegunInOrder, Prompts, HandoffTypes
    <2>2. CASE b = i
        <3>1. PICK p \in Prompts : a <= p /\ p < b /\ p \in waitsFor[b]
            BY DEF Chained
        <3>2. p \in Frames /\ a \in Frames /\ p \notin Active
            BY <1>2, <2>2, <3>1 DEF Prompts
        <3>3. CASE a = p
            BY <3>2, <3>3
        <3>4. CASE a < p
            BY <3>1, <3>2, <3>4 DEF BegunInOrder, Active
        <3> QED
            BY <3>1, <3>2, <3>3, <3>4 DEF Frames
    <2> QED
        BY <2>1, <2>2
<1> QED
    BY <1>3, <1>4, <1>5, <1>6

\* A task that ends, well or not, is active no more; nothing else changes.
LEMMA FinishKeeps ==
    ASSUME HandoffIInv, NEW i \in Frames, Finish(i)
    PROVE  HandoffIInv'
<1> USE DEF HandoffIInv
<1>1. PICK outcome \in {"done", "failed"} : phase' = [phase EXCEPT ![i] = outcome]
    BY DEF Finish
<1>2. /\ phase[i] = "running" /\ Active' = Active \ {i} /\ Prompts' = Prompts
      /\ UNCHANGED <<arrived, kind, waitsFor, handoffBarrier, sendChain>>
    BY <1>1 DEF Finish, HandoffTypes, Active, Prompts
<1>3. HandoffTypes'
    BY <1>1, <1>2 DEF HandoffTypes, PhaseNames, Frames
<1>4. BarrierHolds'
    BY <1>1, <1>2 DEF BarrierHolds, HandoffTypes, Active
<1>5. ChainIsLast' /\ Chained'
    BY <1>2 DEF ChainIsLast, Chained
<1>6. BegunInOrder'
    BY <1>1, <1>2 DEF BegunInOrder, HandoffTypes, Prompts
<1> QED
    BY <1>3, <1>4, <1>5, <1>6

\* A handoff that is refused is known, and never active.
LEMMA RefuseKeeps ==
    ASSUME HandoffIInv, NEW i \in Frames, RefuseHandoff(i)
    PROVE  HandoffIInv'
<1> USE DEF HandoffIInv
<1>1. /\ Active' = Active /\ Prompts' = Prompts /\ i \notin Active /\ i \notin Prompts
      /\ UNCHANGED <<waitsFor, handoffBarrier, sendChain>>
      /\ \A j \in Frames : j # i => kind'[j] = kind[j] /\ phase'[j] = phase[j]
    BY DEF RefuseHandoff, HandoffTypes, Active, Prompts, Frames
<1>2. Active \subseteq Frames /\ Prompts \subseteq Frames
    BY DEF Active, Prompts
<1>3. HandoffTypes'
    BY DEF RefuseHandoff, HandoffTypes, PhaseNames, Kinds, Frames
<1>4. BarrierHolds'
    BY <1>1, <1>2 DEF BarrierHolds
<1>5. ChainIsLast' /\ Chained'
    BY <1>1 DEF ChainIsLast, Chained
<1>6. BegunInOrder'
    BY <1>1, <1>2 DEF BegunInOrder
<1> QED
    BY <1>3, <1>4, <1>5, <1>6

\* Every step of the socket keeps the invariant.
LEMMA HandoffIInvStep == HandoffIInv /\ [HandoffNext]_handoffVars => HandoffIInv'
<1> SUFFICES ASSUME HandoffIInv, [HandoffNext]_handoffVars PROVE HandoffIInv'
    OBVIOUS
<1> USE DEF HandoffIInv
<1>0. {"plain", "prompt", "handoff"} \subseteq Kinds
      /\ handoffBarrier \in Nat /\ sendChain \in Nat /\ Active \subseteq Nat
      /\ \A i \in Frames : i \in Nat
    BY DEF Kinds, HandoffTypes, Active, Frames
<1>1. CASE UNCHANGED handoffVars
    BY <1>1 DEF handoffVars, HandoffTypes, BarrierHolds, ChainIsLast, Chained, BegunInOrder,
                Active, Prompts
<1>2. ASSUME NEW i \in Frames, AcceptPlain(i) PROVE HandoffIInv'
    BY <1>0, <1>2, AcceptTypes, AcceptBarrier, AcceptOther DEF AcceptPlain
<1>3. ASSUME NEW i \in Frames, AcceptPrompt(i) PROVE HandoffIInv'
    BY <1>0, <1>3, AcceptTypes, AcceptBarrier, AcceptChained DEF AcceptPrompt
<1>4. ASSUME NEW i \in Frames, AcceptHandoff(i) PROVE HandoffIInv'
    <2>1. i = arrived + 1 /\ Active = {} /\ Accept(i, "handoff", {})
          /\ handoffBarrier' = i /\ UNCHANGED sendChain
        BY <1>4 DEF AcceptHandoff
    <2>2. HandoffTypes'
        BY <1>0, <2>1, AcceptTypes
    <2>3. BarrierHolds'
        BY <1>0, <2>1, AcceptFacts DEF BarrierHolds
    <2>4. ChainIsLast' /\ Chained' /\ BegunInOrder'
        BY <1>0, <2>1, AcceptOther
    <2> QED
        BY <2>2, <2>3, <2>4
<1>5. ASSUME NEW i \in Frames, RefuseHandoff(i) PROVE HandoffIInv'
    BY <1>5, RefuseKeeps
<1>6. ASSUME NEW i \in Frames, Start(i) PROVE HandoffIInv'
    BY <1>6, StartKeeps
<1>7. ASSUME NEW i \in Frames, Finish(i) PROVE HandoffIInv'
    BY <1>7, FinishKeeps
<1> QED
    BY <1>1, <1>2, <1>3, <1>4, <1>5, <1>6, <1>7 DEF HandoffNext

\* The invariant holds in every reachable state.
LEMMA HandoffInvariant == HandoffSpec => []HandoffIInv
BY HandoffIInvInit, HandoffIInvStep, PTL DEF HandoffSpec

-----------------------------------------------------------------------------
\* While a handoff of the session to another owner runs, no other frame of the
\* socket does that comes to the sequencer (ClientHandoffSequencer.run).
THEOREM HandoffIsExclusive == HandoffSpec => []HandoffRunsAlone
<1>1. HandoffIInv => HandoffRunsAlone
    BY DEF HandoffIInv, BarrierHolds, HandoffRunsAlone, Running, Active
<1> QED
    BY <1>1, HandoffInvariant, PTL

\* Prompts run one at a time and in the order they were sent, and none passes
\* a handoff accepted before it (sendChain and handoffBarrier).
THEOREM PromptsKeepTheirOrder == HandoffSpec => []PromptsInOrder
<1>1. ASSUME HandoffIInv PROVE PromptsInOrder
    <2> SUFFICES ASSUME NEW i \in Frames, NEW j \in Frames, i < j, kind[i] # "plain",
                        kind[j] = "prompt", i \in Active
                 PROVE  ~Running(j)
        BY DEF PromptsInOrder
    <2> USE <1>1 DEF HandoffIInv
    <2>1. CASE kind[i] = "handoff"
        BY <2>1 DEF BarrierHolds, Running, Active, Frames
    <2>2. CASE kind[i] = "prompt"
        <3>1. ASSUME Running(j) PROVE FALSE
            <4>1. j \in Prompts
                BY <3>1 DEF Running, HandoffTypes, Prompts, Frames
            <4>2. i \in Prompts
                BY <2>2 DEF HandoffTypes, Prompts, Frames, Active
            <4> QED
                BY <3>1, <4>1, <4>2 DEF BegunInOrder, Running
        <3> QED
            BY <3>1
    <2> QED
        BY <2>1, <2>2 DEF HandoffTypes, Kinds
<1> QED
    BY <1>1, HandoffInvariant, PTL

-----------------------------------------------------------------------------
(* No frame waits for a later one.                                         *)

\* What a frame may wait for: a frame that was accepted and not refused.
Answered == Settled \cup Active

\* The barrier and the chain name such frames, and a frame waits for such frames
\* before it only.
WaitsBackward ==
    /\ handoffBarrier \in Answered /\ sendChain \in Answered
    /\ \A i \in Active : \A j \in waitsFor[i] : j \in Answered /\ j < i

WaitsInv == HandoffIInv /\ WaitsBackward

\* While work is under way, a handler runs or a frame may start.
SomeFrameGoesOn == Active # {} => \E i \in Active : Running(i) \/ waitsFor[i] \subseteq Settled

\* A set of frames has a first one.
LEMMA FirstFrame ==
    ASSUME NEW S \in SUBSET Frames, S # {}
    PROVE  \E i \in S : \A j \in S : ~(j < i)
<1>1. S \subseteq Nat
    BY DEF Frames
<1>2. PICK i \in S : \A j \in S : <<j, i>> \notin OpToRel(<, Nat)
    BY <1>1, NatLessThanWellFounded, WFMin
<1>3. ASSUME NEW j \in S, j < i PROVE FALSE
    <2>1. i \in Nat /\ j \in Nat
        BY <1>1
    <2>2. <<j, i>> \in OpToRel(<, Nat)
        BY <1>3, <2>1 DEF OpToRel
    <2> QED
        BY <1>2, <2>2
<1> QED
    BY <1>3

LEMMA WaitsInit == HandoffInit => WaitsInv
<1> SUFFICES ASSUME HandoffInit PROVE WaitsInv
    OBVIOUS
<1>1. Active = {}
    BY DEF HandoffInit, Active
<1> QED
    BY <1>1, HandoffIInvInit DEF HandoffInit, WaitsInv, WaitsBackward, Answered, Settled

\* A frame that is accepted waits for frames that were there.
LEMMA AcceptWaits ==
    ASSUME WaitsInv, NEW i \in Frames, i = arrived + 1,
           NEW k \in Kinds, NEW promises \in SUBSET Nat, Accept(i, k, promises),
           promises \subseteq Answered,
           handoffBarrier' \in {handoffBarrier, i}, sendChain' \in {sendChain, i}
    PROVE  WaitsBackward'
<1>1. /\ i \notin Active /\ Active' = Active \cup {i} /\ phase'[i] = "waiting"
      /\ waitsFor'[i] = promises
      /\ \A j \in Frames : j # i => phase'[j] = phase[j] /\ waitsFor'[j] = waitsFor[j]
      /\ \A j \in Active : j < i
    BY AcceptFacts DEF WaitsInv, HandoffIInv
<1>2. phase[i] = "new" /\ i \in Nat /\ i > 0
    BY DEF WaitsInv, HandoffIInv, HandoffTypes, Frames
<1>3. Settled' = Settled
    BY <1>1, <1>2 DEF Settled
<1>4. \A j \in Answered : j < i
    <2>1. \A j \in Settled : j < i
        BY <1>2 DEF Settled, WaitsInv, HandoffIInv, HandoffTypes, Frames
    <2> QED
        BY <1>1, <2>1 DEF Answered
<1>5. Answered' = Answered \cup {i}
    BY <1>1, <1>3 DEF Answered
<1>6. \A j \in Active : j \in Frames /\ j # i
    BY <1>1 DEF Active
<1> QED
    BY <1>1, <1>4, <1>5, <1>6 DEF WaitsInv, WaitsBackward

\* A frame that starts, ends or is refused leaves what can be waited for.
LEMMA OtherWaits ==
    ASSUME WaitsInv, NEW i \in Frames, RefuseHandoff(i) \/ Start(i) \/ Finish(i)
    PROVE  WaitsBackward'
<1>1. HandoffTypes
    BY DEF WaitsInv, HandoffIInv
<1>2. UNCHANGED <<waitsFor, handoffBarrier, sendChain>>
    BY DEF RefuseHandoff, Start, Finish
<1>3. CASE RefuseHandoff(i)
    <2>1. phase[i] = "new"
        BY <1>1, <1>3 DEF RefuseHandoff, HandoffTypes, Frames
    <2>2. Active' = Active /\ Settled' = Settled
        BY <1>1, <1>3, <2>1 DEF RefuseHandoff, HandoffTypes, Active, Settled
    <2> QED
        BY <1>2, <2>2 DEF WaitsInv, WaitsBackward, Answered
<1>4. CASE Start(i)
    <2>1. Active' = Active /\ Settled' = Settled
        BY <1>1, <1>4 DEF Start, HandoffTypes, Active, Settled
    <2> QED
        BY <1>2, <2>1 DEF WaitsInv, WaitsBackward, Answered
<1>5. CASE Finish(i)
    <2>1. Active' \subseteq Active /\ Answered \subseteq Answered'
        BY <1>1, <1>5 DEF Finish, HandoffTypes, Active, Settled, Answered
    <2> QED
        BY <1>2, <2>1 DEF WaitsInv, WaitsBackward
<1> QED
    BY <1>3, <1>4, <1>5

LEMMA WaitsStep == WaitsInv /\ [HandoffNext]_handoffVars => WaitsInv'
<1> SUFFICES ASSUME WaitsInv, [HandoffNext]_handoffVars PROVE WaitsBackward'
    BY HandoffIInvStep DEF WaitsInv
<1>1. handoffBarrier \in Answered /\ sendChain \in Answered /\ Active \subseteq Answered
    BY DEF WaitsInv, WaitsBackward, Answered
<1>2. Answered \subseteq Nat
    BY DEF Answered, Settled, Active, Frames
<1>3. CASE UNCHANGED handoffVars
    BY <1>3 DEF WaitsInv, WaitsBackward, Answered, Settled, Active, handoffVars
<1>4. ASSUME NEW i \in Frames, AcceptPlain(i) PROVE WaitsBackward'
    BY <1>1, <1>2, <1>4, AcceptWaits DEF AcceptPlain, Kinds
<1>5. ASSUME NEW i \in Frames, AcceptPrompt(i) PROVE WaitsBackward'
    BY <1>1, <1>2, <1>5, AcceptWaits DEF AcceptPrompt, Kinds
<1>6. ASSUME NEW i \in Frames, AcceptHandoff(i) PROVE WaitsBackward'
    BY <1>1, <1>2, <1>6, AcceptWaits DEF AcceptHandoff, Kinds
<1> QED
    BY <1>3, <1>4, <1>5, <1>6, OtherWaits DEF HandoffNext

\* The frames of a socket never wait for each other: while any is under way, a
\* handler runs or a task has all its promises settled (ClientHandoffSequencer).
THEOREM FramesNeverDeadlock == HandoffSpec => []SomeFrameGoesOn
<1>1. ASSUME WaitsInv, Active # {}
      PROVE  \E i \in Active : Running(i) \/ waitsFor[i] \subseteq Settled
    <2>1. PICK i \in Active : \A j \in Active : ~(j < i)
        BY <1>1, FirstFrame DEF Active
    <2>2. waitsFor[i] \subseteq Settled
        BY <1>1, <2>1 DEF WaitsInv, WaitsBackward, Answered
    <2> QED
        BY <2>2
<1>2. WaitsInv => SomeFrameGoesOn
    BY <1>1 DEF SomeFrameGoesOn
<1> QED
    BY <1>2, WaitsInit, WaitsStep, PTL DEF HandoffSpec
=============================================================================
