---------------------------- MODULE ModCommands ----------------------------
(***************************************************************************)
(* What the app sends to a synced terminal, for one session: prompts and   *)
(* Stops are queued by the broker (mod-registry.ts), carried by a poll     *)
(* (mod-socket-server.ts), written to a connection that may be gone, put   *)
(* back when they did not leave, and run by the mod in the terminal        *)
(* (hooks/register.js), whose turns the broker knows of by events only.    *)
(*                                                                         *)
(* As in ModHolds the broker is one thread: Quiet says no woken poll is    *)
(* still to run.  The terminal is a Claude process with the mod in it; it  *)
(* can die and be started again on the same session (--resume), and its    *)
(* mod can be evaluated anew under it (a reload).                          *)
(***************************************************************************)
EXTENDS Integers, Sequences

CONSTANTS
  Conns,        \* connections between the mod and the broker
  NoConn,       \* the mod waits on none
  MaxQueued,    \* the queue's own limit
  MaxCommands,  \* bound: commands sent by the app
  MaxTurns,     \* bound: turns of the session
  MaxGen,       \* bound: registrations of the session
  MaxEvals      \* bound: evaluations of the mod, over all its processes

ASSUME CommandsAssumption ==
  /\ NoConn \notin Conns
  /\ {MaxQueued, MaxCommands, MaxGen, MaxEvals} \subseteq Nat \ {0} /\ MaxTurns \in Nat

Ids   == 1..MaxCommands
Turns == 1..MaxTurns
Evals == 1..MaxEvals
None  == 0

\* A command: words for Claude (a prompt, or a steer, which the mod turns into
\* a prompt when no turn takes it), or a Stop aimed at one turn.
Commands  == [id : Ids, op : {"words", "stop"}, turn : Turns \cup {None}]
NoCommand == [id |-> 0, op |-> "none", turn |-> None]

\* An event the mod reports, and the evaluation that reports it.
Events == [kind : {"turn.start", "turn.complete", "session.end"},
           turn : Turns \cup {None}, ev : Evals]

VARIABLES
  row,        \* the registration: generation, evaluation, current turn, process gone
  gen,        \* the session's generation counter
  queue,      \* commands waiting for a poll
  legs,       \* per connection: the poll on it
  accepted,   \* how many commands the broker took
  aged,       \* commands 1..aged are older than their time to live
  up,         \* the Claude process runs
  ev,         \* the evaluation of the mod that runs in it
  loop,       \* the mod's poll loop
  reg,        \* what the mod takes its registration to be
  ended,      \* the mod saw this session end
  turn,       \* the turn Claude runs
  known,      \* the turn the mod knows of (state.turnId)
  turns,      \* how many turns there were
  events,     \* events the mod has still to send, in order
  stray,      \* events it stopped waiting for, still under way
  recent,     \* ids of the commands this evaluation has run
  sentIn,     \* history: how many turns had begun when a command was taken
  failed,     \* history: commands whose response did not leave
  received,   \* history: the commands the mod was handed, in order
  ran,        \* history: the commands the mod carried out, and in which turn
  closedAt    \* history: the commands taken before the last session.end

brokerVars   == <<row, gen, queue, legs, accepted, aged>>
terminalVars == <<up, ev, loop, reg, ended, turn, known, turns, events, stray, recent>>
historyVars  == <<sentIn, failed, received, ran, closedAt>>
vars == <<brokerVars, terminalVars, historyVars>>

NoRow == [gen |-> 0, ev |-> 0, turn |-> None, dead |-> FALSE]
Free  == [st |-> "free", gen |-> 0, cmd |-> NoCommand, open |-> FALSE, woken |-> FALSE]
Ready == [st |-> "ready", conn |-> NoConn, turn |-> None]
Off   == [Ready EXCEPT !.st = "off"]

Init ==
  /\ row = NoRow /\ gen = 0
  /\ queue = <<>>
  /\ legs = [c \in Conns |-> Free]
  /\ accepted = 0 /\ aged = 0
  /\ up = TRUE /\ ev = 1
  /\ loop = Ready
  /\ reg = "no id"
  /\ ended = FALSE
  /\ turn = None /\ known = None /\ turns = 0
  /\ events = <<>> /\ stray = {}
  /\ recent = {}
  /\ sentIn = [i \in Ids |-> 0]
  /\ failed = {} /\ received = <<>> /\ ran = <<>> /\ closedAt = 0

-----------------------------------------------------------------------------
(* The broker's side.                                                      *)

Quiet == \A c \in Conns : ~legs[c].woken

\* The checks before every route but register: the row is this process's, and
\* no newer evaluation's.
Speaks(e) == row # NoRow /\ ~row.dead /\ e >= row.ev

\* wakePolls
WakePolls(L) == [c \in Conns |-> [L[c] EXCEPT !.woken = @ \/ L[c].st = "parked"]]

\* Mutant: a new command is put before the ones that wait.
EnqueueAtHead(op, t) ==
  /\ accepted < MaxCommands
  /\ row # NoRow /\ ~row.dead
  /\ Len(queue) < MaxQueued
  /\ accepted' = accepted + 1
  /\ queue' = <<[id |-> accepted + 1, op |-> op, turn |-> t]>> \o queue
  /\ sentIn' = [sentIn EXCEPT ![accepted + 1] = turns]
  /\ legs' = WakePolls(legs)
  /\ UNCHANGED <<row, gen, aged, terminalVars, failed, received, ran, closedAt>>

\* service.send and registry.enqueue, a command not refused: the row is there
\* and its process lives, a Stop finds a turn to stop, the queue has room.
Enqueue(op, t) ==
  /\ accepted < MaxCommands
  /\ row # NoRow /\ ~row.dead
  /\ Len(queue) < MaxQueued
  /\ accepted' = accepted + 1
  /\ queue' = Append(queue, [id |-> accepted + 1, op |-> op, turn |-> t])
  /\ sentIn' = [sentIn EXCEPT ![accepted + 1] = turns]
  /\ legs' = WakePolls(legs)
  /\ UNCHANGED <<row, gen, aged, terminalVars, failed, received, ran, closedAt>>

SendWords == Enqueue("words", None)
SendStop  == row.turn # None /\ Enqueue("stop", row.turn)

\* The time to live of a command, counted from when it was sent, runs out.
Ages ==
  /\ aged < accepted
  /\ aged' = aged + 1
  /\ UNCHANGED <<row, gen, queue, legs, accepted, terminalVars, historyVars>>

\* The loop's poll is answered with nothing to run: the mod is ready again,
\* and when its registration is gone it asks for a new one.
Answered(c, newReg) ==
  IF loop.conn = c THEN loop' = Ready /\ reg' = newReg ELSE UNCHANGED <<loop, reg>>

\* Mutants: a command never grows too old; a command is taken and left there.
FitForEver == DOMAIN queue
AfterPeek(j) == SubSeq(queue, j, Len(queue))

\* pollResponse's turn of the loop on a woken poll, with the registry's
\* dequeue: what is too old is dropped, the next command is taken, and with
\* none the poll parks.
Fit      == {j \in DOMAIN queue : queue[j].id > aged}
After(j) == SubSeq(queue, j + 1, Len(queue))
ResumePoll(c) ==
  /\ legs[c].woken
  /\ \/ /\ ~legs[c].open \/ row = NoRow \/ row.gen # legs[c].gen
        /\ legs' = [legs EXCEPT ![c] = Free]
        /\ Answered(c, "asked")
        /\ UNCHANGED queue
     \/ /\ legs[c].open /\ row # NoRow /\ row.gen = legs[c].gen
        /\ IF Fit = {}
           THEN /\ queue' = <<>>
                /\ legs' = [legs EXCEPT ![c].woken = FALSE]
           ELSE LET j == CHOOSE j \in Fit : \A k \in Fit : j <= k
                IN  /\ queue' = After(j)
                    /\ legs' = [legs EXCEPT ![c].woken = FALSE, ![c].st = "writing",
                                            ![c].cmd = queue[j]]
        /\ UNCHANGED <<loop, reg>>
  /\ UNCHANGED <<row, gen, accepted, aged, up, ev, ended, turn, known, turns, events, stray,
                 recent, historyVars>>

\* The poll's wait is over and there was nothing to say.
WaitEnds(c) ==
  /\ legs[c].st = "parked"
  /\ legs' = [legs EXCEPT ![c] = Free]
  /\ Answered(c, reg)
  /\ UNCHANGED <<row, gen, queue, accepted, aged, up, ev, ended, turn, known, turns, events,
                 stray, recent, historyVars>>

\* respond: every byte left the broker, and is on its way to the mod.
WriteCompletes(c) ==
  /\ legs[c].st = "writing" /\ legs[c].open
  /\ legs' = [legs EXCEPT ![c].st = "sent"]
  /\ UNCHANGED <<row, gen, queue, accepted, aged, terminalVars, historyVars>>

\* Mutant: put back into a queue that is full.
RequeueAlways(cmd) ==
  IF \E j \in DOMAIN queue : queue[j].id = cmd.id THEN queue ELSE <<cmd>> \o queue

\* requeue, at the head, once per id
Requeue(cmd) ==
  IF (\E j \in DOMAIN queue : queue[j].id = cmd.id) \/ Len(queue) >= MaxQueued
  THEN queue ELSE <<cmd>> \o queue

\* Mutant: the command goes back and nobody is told.
WriteFailsQuietly(c) ==
  /\ legs[c].st = "writing"
  /\ queue' = Requeue(legs[c].cmd)
  /\ legs' = [legs EXCEPT ![c] = Free]
  /\ failed' = failed \cup {legs[c].cmd.id}
  /\ Answered(c, reg)
  /\ UNCHANGED <<row, gen, accepted, aged, up, ev, ended, turn, known, turns, events, stray,
                 recent, sentIn, received, ran, closedAt>>

\* They did not: the peer hung up or stopped reading.  The command goes back,
\* and another poll that is parked by now may carry it.
WriteFails(c) ==
  LET cmd == legs[c].cmd
      L   == [legs EXCEPT ![c] = Free]
  IN  /\ legs[c].st = "writing"
      /\ queue' = Requeue(cmd)
      /\ legs' = IF queue' = queue THEN L ELSE WakePolls(L)
      /\ failed' = failed \cup {cmd.id}
      /\ Answered(c, reg)
      /\ UNCHANGED <<row, gen, accepted, aged, up, ev, ended, turn, known, turns, events, stray,
                     recent, sentIn, received, ran, closedAt>>

\* The connection ends under the poll: the mod's request fails, and an idle
\* wait of the broker's finds out when it is next woken.
ConnCloses(c) ==
  /\ legs[c].open
  /\ legs' = [legs EXCEPT ![c] = IF @.st = "sent" THEN Free ELSE [@ EXCEPT !.open = FALSE]]
  /\ Answered(c, reg)
  /\ UNCHANGED <<row, gen, queue, accepted, aged, up, ev, ended, turn, known, turns, events,
                 stray, recent, historyVars>>

\* noteTurnEvent, on the event route
Noted(e) ==
  IF ~Speaks(e.ev)
  THEN UNCHANGED <<row, queue, legs, closedAt>>
  ELSE /\ legs' = WakePolls(legs)
       /\ IF e.kind = "session.end"
          THEN row' = NoRow /\ queue' = <<>> /\ closedAt' = accepted
          ELSE row' = [row EXCEPT !.turn = e.turn] /\ UNCHANGED <<queue, closedAt>>

\* status: a row whose process is gone is dropped, with its queue.
Sweep ==
  /\ row.dead
  /\ row' = NoRow /\ queue' = <<>>
  /\ UNCHANGED <<gen, legs, accepted, aged, terminalVars, historyVars>>

-----------------------------------------------------------------------------
(* The mod's side.                                                         *)

\* report: an event is queued behind the others, if the mod has a session.
Report(kind, t) ==
  events' = IF reg = "no id" THEN events
            ELSE Append(events, [kind |-> kind, turn |-> t, ev |-> ev])

\* sendEvent on the first of them.  It arrives; or it does not; or it takes
\* so long that the mod goes on to the next, and it arrives when it will.
EventArrives ==
  /\ events # <<>>
  /\ Noted(Head(events))
  /\ events' = Tail(events)
  /\ UNCHANGED <<gen, accepted, aged, up, ev, loop, reg, ended, turn, known, turns, stray,
                 recent, sentIn, failed, received, ran>>

EventGivenUp ==
  /\ events # <<>>
  /\ events' = Tail(events)
  /\ \/ UNCHANGED stray
     \/ stray = {} /\ stray' = {Head(events)}
  /\ UNCHANGED <<brokerVars, up, ev, loop, reg, ended, turn, known, turns, recent, historyVars>>

StrayArrives ==
  /\ \E e \in stray : Noted(e)
  /\ stray' = {}
  /\ UNCHANGED <<gen, accepted, aged, up, ev, loop, reg, ended, turn, known, turns, events,
                 recent, sentIn, failed, received, ran>>

\* The hooks: a turn starts, is met again by a mod that was reloaded in it,
\* and completes.
TurnStarts ==
  /\ up /\ turn = None /\ turns < MaxTurns
  /\ turns' = turns + 1
  /\ turn' = turns' /\ known' = turns'
  /\ ended' = FALSE
  /\ Report("turn.start", turns')
  /\ UNCHANGED <<brokerVars, up, ev, loop, reg, stray, recent, historyVars>>

TurnSteps ==
  /\ turn # None /\ known # turn
  /\ known' = turn
  /\ ended' = FALSE
  /\ Report("turn.start", turn)
  /\ UNCHANGED <<brokerVars, up, ev, loop, reg, turn, turns, stray, recent, historyVars>>

TurnCompletes ==
  /\ turn # None
  /\ turn' = None /\ known' = None
  /\ Report("turn.complete", None)
  /\ UNCHANGED <<brokerVars, up, ev, loop, reg, ended, turns, stray, recent, historyVars>>

SessionEnds ==
  /\ up /\ ~ended
  /\ Report("session.end", None)
  /\ reg' = "no id"
  /\ ended' = (reg # "no id")
  /\ UNCHANGED <<brokerVars, up, ev, loop, turn, known, turns, stray, recent, historyVars>>

\* pollOnce takes the session's id, unless it is the one that ended.
LoopMeetsSession ==
  /\ loop = Ready /\ reg = "no id" /\ ~ended
  /\ reg' = "asked"
  /\ UNCHANGED <<brokerVars, up, ev, loop, ended, turn, known, turns, events, stray, recent,
                 historyVars>>

\* registerSession: sent behind every event queued, saying the turn of then.
LoopRegisters ==
  /\ loop = Ready /\ reg = "asked"
  /\ events = <<>>
  /\ loop' = [st |-> "registering", conn |-> NoConn, turn |-> known]
  /\ UNCHANGED <<brokerVars, up, ev, reg, ended, turn, known, turns, events, stray, recent,
                 historyVars>>

\* The register route, and its reply, which may be lost.  The queue stays.
RegisterArrives ==
  /\ loop.st = "registering"
  /\ gen < MaxGen
  /\ gen' = gen + 1
  /\ row' = [gen |-> gen + 1, ev |-> ev, turn |-> loop.turn, dead |-> FALSE]
  /\ legs' = WakePolls(legs)
  /\ loop' = Ready
  /\ reg' \in {reg, IF reg = "asked" THEN "yes" ELSE reg}
  /\ UNCHANGED <<queue, accepted, aged, up, ev, ended, turn, known, turns, events, stray,
                 recent, historyVars>>

\* pollOnce: a poll that arrives parks, or is told that there is no row.
LoopPolls(c) ==
  /\ loop = Ready /\ reg = "yes" /\ ~ended
  /\ legs[c] = Free
  /\ IF Speaks(ev)
     THEN /\ legs' = [legs EXCEPT ![c] = [st |-> "parked", gen |-> row.gen, cmd |-> NoCommand,
                                          open |-> TRUE, woken |-> TRUE]]
          /\ loop' = [st |-> "polling", conn |-> c, turn |-> None]
          /\ UNCHANGED reg
     ELSE reg' = "asked" /\ UNCHANGED <<legs, loop>>
  /\ UNCHANGED <<row, gen, queue, accepted, aged, up, ev, ended, turn, known, turns, events,
                 stray, recent, historyVars>>

\* Mutant: a Stop stops whatever runs.
RunCommandAnyTurn(cmd) ==
  /\ received' = Append(received, cmd.id)
  /\ recent' = recent \cup {cmd.id}
  /\ ran' = IF cmd.id \notin recent /\ (cmd.op = "stop" => turn # None)
            THEN Append(ran, [cmd EXCEPT !.turn = turn]) ELSE ran

\* runCommand, on the command a poll brought: never twice, and a Stop only in
\* the turn it names.
RunCommand(cmd) ==
  /\ received' = Append(received, cmd.id)
  /\ recent' = recent \cup {cmd.id}
  /\ ran' = IF cmd.id \notin recent /\ (cmd.op = "stop" => cmd.turn = known)
            THEN Append(ran, [cmd EXCEPT !.turn = turn]) ELSE ran

\* The reply is read by the loop that asked, or by nobody.
ReadReply(c) ==
  /\ legs[c].st = "sent"
  /\ legs' = [legs EXCEPT ![c] = Free]
  /\ IF loop.conn = c
     THEN RunCommand(legs[c].cmd) /\ loop' = Ready
     ELSE UNCHANGED <<received, recent, ran, loop>>
  /\ UNCHANGED <<row, gen, queue, accepted, aged, up, ev, reg, ended, turn, known, turns,
                 events, stray, sentIn, failed, closedAt>>

\* A new evaluation of the mod knows nothing of the one before.  What that one
\* still waited for is lost with it: its loop, which in the code goes on until
\* the broker tells it that it is superseded, is left out.
Evaluated ==
  /\ ev < MaxEvals
  /\ ev' = ev + 1
  /\ loop' = Ready /\ reg' = "no id" /\ ended' = FALSE
  /\ known' = None /\ events' = <<>> /\ recent' = {}

Reload ==
  /\ up
  /\ Evaluated
  /\ UNCHANGED <<brokerVars, up, turn, turns, stray, historyVars>>

Launch ==
  /\ ~up
  /\ Evaluated
  /\ up' = TRUE
  /\ UNCHANGED <<brokerVars, turn, turns, stray, historyVars>>

\* The process goes, and its connections with it.
Dies ==
  /\ up
  /\ up' = FALSE
  /\ row' = [row EXCEPT !.dead = row # NoRow]
  /\ legs' = [c \in Conns |-> IF legs[c].st = "sent" THEN Free
                                                     ELSE [legs[c] EXCEPT !.open = FALSE]]
  /\ loop' = Off /\ turn' = None /\ known' = None /\ events' = <<>> /\ stray' = {}
  /\ UNCHANGED <<gen, queue, accepted, aged, ev, reg, ended, turns, recent, historyVars>>

-----------------------------------------------------------------------------

AppSends    == SendWords \/ SendStop
BrokerSteps == \E c \in Conns : WaitEnds(c) \/ WriteCompletes(c) \/ WriteFails(c)
Outside     == Ages \/ Sweep \/ Dies \/ Launch \/ Reload \/ \E c \in Conns : ConnCloses(c)
Hooks       == TurnStarts \/ TurnSteps \/ TurnCompletes \/ SessionEnds
ModSends    == \/ EventArrives \/ EventGivenUp \/ StrayArrives
               \/ LoopMeetsSession \/ LoopRegisters \/ RegisterArrives
               \/ \E c \in Conns : LoopPolls(c) \/ ReadReply(c)

Next ==
  \/ Quiet /\ (AppSends \/ BrokerSteps \/ Outside \/ Hooks \/ ModSends)
  \/ \E c \in Conns : ResumePoll(c)

Spec == Init /\ [][Next]_vars

\* The broker's microtasks and clock go on, and a mod whose process runs goes
\* on with its loop.  Nothing is assumed of the app, of turns or the network.
Fairness ==
  /\ SF_vars(Quiet /\ Ages)
  /\ \A c \in Conns : /\ WF_vars(ResumePoll(c))
                      /\ SF_vars(Quiet /\ (WaitEnds(c) \/ LoopPolls(c) \/ ReadReply(c)))
                      /\ SF_vars(Quiet /\ (WriteCompletes(c) \/ WriteFails(c)))

FairSpec == Spec /\ Fairness

-----------------------------------------------------------------------------

CommandsTypeOK ==
  /\ row \in [gen : 0..MaxGen, ev : 0..MaxEvals, turn : Turns \cup {None}, dead : BOOLEAN]
  /\ gen \in 0..MaxGen
  /\ queue \in Seq(Commands) /\ Len(queue) <= MaxQueued
  /\ legs \in [Conns -> [st : {"free", "parked", "writing", "sent"}, gen : 0..MaxGen,
                         cmd : Commands \cup {NoCommand}, open : BOOLEAN, woken : BOOLEAN]]
  /\ \A c \in Conns : legs[c].st \in {"writing", "sent"} <=> legs[c].cmd # NoCommand
  /\ accepted \in 0..MaxCommands /\ aged \in 0..accepted
  /\ up \in BOOLEAN /\ ev \in Evals /\ ended \in BOOLEAN
  /\ loop \in [st : {"ready", "off", "registering", "polling"}, conn : Conns \cup {NoConn},
               turn : Turns \cup {None}]
  /\ reg \in {"no id", "asked", "yes"}
  /\ turn \in Turns \cup {None} /\ known \in {None, turn} /\ turns \in 0..MaxTurns
  /\ events \in Seq(Events) /\ stray \subseteq Events
  /\ recent \subseteq Ids /\ failed \subseteq Ids
  /\ sentIn \in [Ids -> 0..MaxTurns]
  /\ received \in Seq(Ids) /\ closedAt \in 0..MaxCommands
  /\ ran \in Seq(Commands)

\* "A duplicate prompt is the agent running the same words twice"
\* (mod-registry.ts, requeue): whatever is written, put back and read again,
\* and by however many evaluations, the mod carries a command out once.
RunsOnce == \A i, j \in DOMAIN ran : ran[i].id = ran[j].id => i = j

\* A Stop never ends a turn that began after the person pressed it, however
\* late it comes and whatever the broker missed of the turns meanwhile.
StopsNoLaterTurn ==
  \A i \in DOMAIN ran : ran[i].op = "stop" => ran[i].turn \in 1..sentIn[ran[i].id]

\* The mod is handed commands in the order they were sent; one is overtaken
\* only when its own response did not leave.
HandedInOrder ==
  \A i, j \in DOMAIN received : i < j /\ received[i] > received[j] => received[j] \in failed

\* A poll that could carry a command does not sit parked beside it, so what
\* the person sent goes out now and not when the poll's wait is over.
NoPollIdlesBesideACommand ==
  Quiet => \A c \in Conns :
    legs[c].st = "parked" /\ legs[c].open /\ legs[c].gen = row.gen => queue = <<>>

\* While a terminal stays up and registered, what is queued does not stay: it
\* goes out, or it grows too old and is dropped, though writes may fail for ever.
QueueDrains == <>[](up /\ reg = "yes" /\ ~ended) => []<>(queue = <<>>)

\* mod-registry.ts:160-161: queued commands survive a restart of the session
\* id, for a prompt typed meanwhile is still meant for it.  They leave the
\* queue by a poll, by age, or with the session's own end.
QueuedIds == {queue[j].id : j \in DOMAIN queue}
RestartKeepsTheQueue ==
  [][\A i \in QueuedIds \ QueuedIds' :
       i <= aged \/ closedAt' >= i \/ \E c \in Conns : legs'[c].cmd.id = i]_vars

\* mod-registry.ts:222: on session.end the row goes, and queued commands go
\* with it.
EndEmptiesTheQueue == \A i \in QueuedIds : i > closedAt
=============================================================================
