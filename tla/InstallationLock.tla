--------------------------- MODULE InstallationLock ---------------------------
(***************************************************************************)
(* The installation mutation lock                                          *)
(* (broker/src/installation/installation-lock.ts): a file that names a     *)
(* process, taken by setup, repair, upgrade and uninstall.  Every file     *)
(* system call is a step of its own.  A process goes away for good: it     *)
(* ends between commands, or it dies in the middle of one.                 *)
(***************************************************************************)
EXTENDS Integers, FiniteSets

CONSTANTS Processes,   \* pids; the host gives none of them out twice
          MaxNonce     \* bound: how often the lock is asked for

ASSUME LockAssumption == MaxNonce \in Nat

VARIABLES pc,       \* per process: where its command is; "gone" when it runs no more
          seen,     \* per process: the pid in the record it read
          nonce,    \* per process: the nonce of the record it writes
          lock,     \* the record in installation.lock
          nonces,   \* nonces handed out
          moved     \* history: a lock was moved aside

lockVars == <<pc, seen, nonce, lock, nonces, moved>>

NoLock == [pid |-> 0, nonce |-> 0]
Mine(p) == [pid |-> p, nonce |-> nonce[p]]
Alive(q) == q \in Processes /\ pc[q] # "gone"
Goto(p, step) == pc' = [pc EXCEPT ![p] = step]

LockInit ==
    /\ pc = [p \in Processes |-> "idle"]
    /\ seen = [p \in Processes |-> 0]
    /\ nonce = [p \in Processes |-> 0]
    /\ lock = NoLock /\ nonces = 0 /\ moved = FALSE

Exit(p) ==
    /\ Alive(p)
    /\ Goto(p, "gone")
    /\ UNCHANGED <<seen, nonce, lock, nonces, moved>>

-----------------------------------------------------------------------------
(* acquireInstallationLock.                                                *)

\* existsSync.
LookForLock(p) ==
    /\ pc[p] = "idle" /\ nonces < MaxNonce
    /\ Goto(p, IF lock = NoLock THEN "create" ELSE "read")
    /\ nonces' = nonces + 1
    /\ nonce' = [nonce EXCEPT ![p] = nonces + 1]
    /\ UNCHANGED <<seen, lock, moved>>

\* parseRecord: a file that has vanished cannot be inspected, and the command fails.
ReadRecord(p) ==
    /\ pc[p] = "read"
    /\ Goto(p, IF lock = NoLock THEN "idle" ELSE "judge")
    /\ seen' = [seen EXCEPT ![p] = lock.pid]
    /\ UNCHANGED <<nonce, lock, nonces, moved>>

\* processAlive of the pid that was read: busy, or stale.
Judge(p) ==
    /\ pc[p] = "judge"
    /\ Goto(p, IF Alive(seen[p]) THEN "idle" ELSE "move")
    /\ UNCHANGED <<seen, nonce, lock, nonces, moved>>

\* renameSync moves what the path names now; without a file it throws.
MoveAside(p) ==
    /\ pc[p] = "move"
    /\ Goto(p, IF lock = NoLock THEN "idle" ELSE "create")
    /\ lock' = NoLock
    /\ moved' = (moved \/ lock # NoLock)
    /\ UNCHANGED <<seen, nonce, nonces>>

\* Mutant: a plain write replaces what another process has created meanwhile.
WriteLock(p) ==
    /\ pc[p] = "create"
    /\ Goto(p, "holding") /\ lock' = Mine(p)
    /\ UNCHANGED <<seen, nonce, nonces, moved>>

\* createOwnerOnlyFileExclusive: the link exists already, or it is ours.
CreateLock(p) ==
    /\ pc[p] = "create"
    /\ IF lock # NoLock
       THEN Goto(p, "idle") /\ UNCHANGED lock
       ELSE Goto(p, "holding") /\ lock' = Mine(p)
    /\ UNCHANGED <<seen, nonce, nonces, moved>>

-----------------------------------------------------------------------------
(* release.                                                                *)

\* Mutant: the record the command wrote itself is not accepted (one of the
\* commands is missing in the list parseRecord knows).
CheckOwnerUnknown(p) ==
    /\ pc[p] = "holding"
    /\ \/ Goto(p, IF lock = Mine(p) THEN "unlink" ELSE "idle")
       \/ Goto(p, "idle")
    /\ UNCHANGED <<seen, nonce, lock, nonces, moved>>

\* A lock that is gone or names another owner is left alone.
CheckOwner(p) ==
    /\ pc[p] = "holding"
    /\ Goto(p, IF lock = Mine(p) THEN "unlink" ELSE "idle")
    /\ UNCHANGED <<seen, nonce, lock, nonces, moved>>

\* unlinkSync removes what the path names now.
Unlink(p) ==
    /\ pc[p] = "unlink"
    /\ Goto(p, "idle")
    /\ lock' = NoLock
    /\ UNCHANGED <<seen, nonce, nonces, moved>>

LockNext ==
    \E p \in Processes :
        \/ Exit(p) \/ LookForLock(p) \/ ReadRecord(p) \/ Judge(p) \/ MoveAside(p)
        \/ CreateLock(p) \/ CheckOwner(p) \/ Unlink(p)

LockSpec == LockInit /\ [][LockNext]_lockVars

-----------------------------------------------------------------------------
\* The commands that may change the installation now.
Holders == {p \in Processes : pc[p] \in {"holding", "unlink"}}

\* "The one cross-command mutation lock" (installation-lock.ts:90).
OneHolder == \A p, q \in Holders : p = q

\* As long as no process has moved a lock aside, one command at most may
\* change the installation, and the file says which.
OneHolderUntilMoved == ~moved => \A p \in Holders : lock = Mine(p)

\* A lock outlives its command only when the process of the command died: no
\* command leaves a file that a later one would find busy
\* (installation-lock.ts:80-82 tells how one did).
NoLockLeftBehind ==
    lock # NoLock => \E p \in Processes :
        lock.pid = p /\ (pc[p] = "gone" \/ (p \in Holders /\ lock = Mine(p)))
=============================================================================
