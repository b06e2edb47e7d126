----------------------------- MODULE SharedDrafts -----------------------------
(***************************************************************************)
(* The shared unsent draft of one session: the durable store               *)
(* (broker/src/sessions/draft-store.ts), the value its owner caches and    *)
(* fans out (hub.ts, ManagedConn), and the devices, which write drafts and *)
(* send prompts on top of the last revision that reached them.  A device's *)
(* frames are handled at any later time and in any order, drafts also      *)
(* again.  Frames without a base revision (legacy clients) are left out:   *)
(* for them the last writer wins.                                          *)
(***************************************************************************)
EXTENDS Integers

CONSTANTS Devices,
          Texts,         \* what users type
          Block,         \* REVISION_RESERVATION_BLOCK
          MaxFrames,     \* bound: frames the devices send
          MaxRevision,   \* bound: revisions handed out
          MaxFaults,     \* bound: writes and deletions that fail
          MaxRestarts    \* bound: restarts of the broker

Empty == "empty"    \* the empty text

ASSUME DraftsAssumption ==
    /\ Block \in Nat \ {0} /\ Empty \notin Texts
    /\ MaxFrames \in Nat /\ MaxRevision \in Nat /\ MaxFaults \in Nat /\ MaxRestarts \in Nat

VARIABLES record,     \* the session's record in the store
          shard,      \* its file
          cache,      \* ManagedConn.draft: revision and text
          next,       \* nextRevision; the clock is shared by all sessions
          reserved,   \* reservedThrough
          clock,      \* reservedThrough in revision-clock.json
          held,       \* per device: the last revision that reached it
          latest,     \* per device: the update id of its latest draft
          frames,     \* frames on their way, or to be sent again
          shown,      \* history: what was sent to the devices
          issued,     \* history: revisions and texts that became a record or a file
          dropped,    \* history: retention has dropped the record
          framesSent, faultsLeft, restartsLeft

storeVars   == <<record, shard, next, reserved, clock, issued>>
deviceVars  == <<held, latest, frames, framesSent>>
draftVars   == <<storeVars, cache, deviceVars, shown, dropped, faultsLeft, restartsLeft>>

NoDraft  == [text |-> Empty, rev |-> 0]
NoRecord == [text |-> Empty, rev |-> 0, id |-> 0]
Draft(r)  == [text |-> r.text, rev |-> r.rev]

\* A pristine directory: the first block is claimed at once.
DraftsInit ==
    /\ record = NoRecord /\ shard = NoRecord /\ cache = NoDraft
    /\ next = 1 /\ reserved = Block /\ clock = Block
    /\ held = [d \in Devices |-> NoDraft]
    /\ latest = [d \in Devices |-> 0]
    /\ frames = {} /\ shown = {} /\ issued = {} /\ dropped = FALSE
    /\ framesSent = 0 /\ faultsLeft = MaxFaults /\ restartsLeft = MaxRestarts

Fault   == faultsLeft > 0 /\ faultsLeft' = faultsLeft - 1
NoFault == UNCHANGED faultsLeft

-----------------------------------------------------------------------------
(* The devices.  A device whose row is gone bases its next one on 0.       *)

SendFrame(d, kind, text, base, id) ==
    /\ framesSent < MaxFrames
    /\ framesSent' = framesSent + 1
    /\ frames' = frames \cup {[kind |-> kind, text |-> text, base |-> base, id |-> id,
                               seen |-> held[d]]}

SendDraft(d, text) ==
    \E base \in {0, held[d].rev} :
        /\ SendFrame(d, "draft", text, base, framesSent + 1)
        /\ latest' = [latest EXCEPT ![d] = framesSent + 1]
        /\ UNCHANGED <<storeVars, cache, held, shown, dropped, faultsLeft, restartsLeft>>

\* A prompt names the draft write that is not acknowledged yet, if any.
SendPrompt(d, text) ==
    \E base \in {0, held[d].rev}, id \in {0, latest[d]} :
        /\ SendFrame(d, "prompt", text, base, id)
        /\ UNCHANGED <<storeVars, cache, held, latest, shown, dropped, faultsLeft, restartsLeft>>

\* A draft frame reaches a device: only a newer revision counts.
Deliver(d) ==
    \E draft \in shown :
        /\ draft.rev > held[d].rev
        /\ held' = [held EXCEPT ![d] = draft]
        /\ UNCHANGED <<storeVars, cache, latest, frames, shown, dropped, framesSent,
                       faultsLeft, restartsLeft>>

-----------------------------------------------------------------------------
(* SharedDraftStore.write and ManagedConn.setDraft.                        *)

Duplicate(id) == record.rev > 0 /\ id # 0 /\ id = record.id

\* Mutant: off by one.
StaleBaseByTwo(base, text) == record.rev > 0 /\ base + 1 < record.rev /\ text # record.text

StaleBase(base, text) == record.rev > 0 /\ base < record.rev /\ text # record.text

Show(draft) == shown' = shown \cup {draft}

\* The revisions of this block are used up: the next block is made durable
\* before one of them is handed out.
NeedsBlock == next > reserved
NextBlock  == next + Block - 1

Allocated ==
    /\ next <= MaxRevision
    /\ next' = next + 1
    /\ IF NeedsBlock THEN reserved' = NextBlock /\ clock' = NextBlock
                     ELSE UNCHANGED <<reserved, clock>>

Revised(text, id) == [text |-> text, rev |-> next, id |-> id]

\* Nothing changes; the writer is shown the record there is.
NotApplied ==
    /\ cache' = Draft(record)
    /\ Show(cache')
    /\ NoFault
    /\ UNCHANGED storeVars

Applied(text, id) ==
    /\ Allocated
    /\ shard' = Revised(text, id) /\ record' = shard' /\ cache' = Draft(shard')
    /\ Show(cache') /\ issued' = issued \cup {cache'}
    /\ NoFault

\* The clock's write fails, before or after the file was replaced.
NoClock ==
    /\ NeedsBlock /\ Fault
    /\ clock' \in {clock, NextBlock}
    /\ UNCHANGED <<record, shard, cache, next, reserved, shown, issued>>

\* Mutant: the record is visible before it is durable.
NoShardAfterRecord(text, id) ==
    /\ Allocated /\ Fault
    /\ record' = Revised(text, id) /\ cache' = Draft(record') /\ Show(cache')
    /\ issued' = issued \cup {cache'}
    /\ UNCHANGED shard

\* Mutant: the cache moves although the store has refused.
NoShardMovesCache(text, id) ==
    /\ Allocated /\ Fault
    /\ shard' \in {shard, Revised(text, id)}
    /\ issued' = issued \cup {Draft(Revised(text, id))}
    /\ cache' = Draft(Revised(text, id))
    /\ UNCHANGED <<record, shown>>

\* The file's write fails, before or after it was replaced: the revision is
\* spent, and neither the store nor the cache moves.
NoShard(text, id) ==
    /\ Allocated /\ Fault
    /\ shard' \in {shard, Revised(text, id)}
    /\ issued' = issued \cup {Draft(Revised(text, id))}
    /\ UNCHANGED <<record, cache, shown>>

SetDraft(text, id, base) ==
    IF Duplicate(id) \/ StaleBase(base, text)
    THEN NotApplied
    ELSE Applied(text, id) \/ NoClock \/ NoShard(text, id)

TakeDraft(f) ==
    /\ f.kind = "draft"
    /\ SetDraft(f.text, f.id, f.base)
    /\ UNCHANGED <<deviceVars, dropped, restartsLeft>>

\* clearDraftAfterPrompt: the shared draft is the one this prompt was made from.
Owned(f) ==
    \/ f.base = record.rev
    \/ f.id # 0 /\ f.id = record.id
    \/ f.text = record.text

\* A prompt was accepted: its draft is cleared, over the revision there is.
TakePrompt(f) ==
    /\ f.kind = "prompt"
    /\ IF Owned(f) /\ ~(record.rev = 0 /\ cache.text = Empty)
       THEN SetDraft(Empty, 0, record.rev)
       ELSE NoFault /\ UNCHANGED <<storeVars, cache, shown>>
    /\ frames' = frames \ {f}
    /\ UNCHANGED <<held, latest, framesSent, dropped, restartsLeft>>

-----------------------------------------------------------------------------
(* The other sessions, retention, owners and restarts.                     *)

\* prune drops the record, for its age or to make room; the file may resist.
Dropped ==
    /\ record' = NoRecord /\ dropped' = TRUE
    /\ \/ shard' = NoRecord /\ NoFault
       \/ UNCHANGED shard /\ Fault

\* A write of another session takes a revision of the same clock, and prunes.
OtherSession ==
    /\ Allocated
    /\ \/ UNCHANGED <<record, shard, dropped>> /\ NoFault
       \/ record.rev > 0 /\ Dropped
    /\ UNCHANGED <<cache, issued, deviceVars, shown, restartsLeft>>

\* What a device that attaches is shown; tombstones too.
Snapshot(draft) == IF draft.rev > 0 THEN {draft} ELSE {}

\* The session's owner is evicted, and a new one hydrates from the store.
OwnerRebuilt ==
    /\ cache' = Draft(record)
    /\ shown' = shown \cup Snapshot(cache')
    /\ UNCHANGED <<storeVars, deviceVars, dropped, faultsLeft, restartsLeft>>

\* Mutant: the clock goes on after the newest record that is left.
ClockFromRecords == shard.rev

\* loadRevisionClock: what is left of the block is given up.
ClockFromFile == IF clock > shard.rev THEN clock ELSE shard.rev

\* load, and the pruning at its end.
Restart ==
    /\ restartsLeft > 0 /\ restartsLeft' = restartsLeft - 1
    /\ reserved' = ClockFromFile /\ next' = reserved' + 1
    /\ \/ record' = shard /\ UNCHANGED <<shard, dropped>> /\ NoFault
       \/ shard.rev > 0 /\ Dropped
    /\ cache' = Draft(record') /\ shown' = shown \cup Snapshot(cache')
    /\ UNCHANGED <<clock, issued, deviceVars>>

DraftsNext ==
    \/ \E d \in Devices :
        \/ \E text \in Texts \cup {Empty} : SendDraft(d, text)
        \/ \E text \in Texts : SendPrompt(d, text)
        \/ Deliver(d)
    \/ \E f \in frames : TakeDraft(f) \/ TakePrompt(f)
    \/ OtherSession \/ OwnerRebuilt \/ Restart

DraftsSpec == DraftsInit /\ [][DraftsNext]_draftVars

-----------------------------------------------------------------------------
\* A revision stands for one text, over all failed writes and restarts: a
\* device that ignores what is not newer than what it has misses nothing.
RevisionNamesOneText == \A a, b \in issued : a.rev = b.rev => a = b

\* As long as the store has a record, its owner fans out just that.
CacheIsCurrent == record.rev > 0 => cache = Draft(record)

\* What a device was shown, a restart does not take back, unless retention did.
ShownIsDurable == ~dropped => \A draft \in shown : draft.rev <= shard.rev

\* A draft that is replaced or cleared was the very one that had reached the
\* device whose frame did it, or had that device's own text.
ReplacedOnlyIfSeen ==
    [][ \A f \in frames :
            (TakeDraft(f) \/ TakePrompt(f)) /\ record.text \notin {Empty, record'.text} =>
                \/ f.seen = Draft(record)
                \/ f.id # 0 /\ f.id = record.id
                \/ f.text = record.text
      ]_draftVars
=============================================================================
