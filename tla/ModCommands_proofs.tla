------------------------- MODULE ModCommands_proofs -------------------------
(***************************************************************************)
(* What ModCommands promises for any number of connections, commands,      *)
(* turns, registrations and evaluations.                                   *)
(*                                                                         *)
(* The argument is about where a command is.  It is in the queue, or in    *)
(* the response of one poll, or with the mod, or gone; it is in one of     *)
(* these places at a time, and it comes back only from a response that did *)
(* not leave.  Few steps move a command at all: Carriage names them, and   *)
(* the invariants about commands are proved for those five kinds of step   *)
(* and not for every action.                                               *)
(***************************************************************************)
EXTENDS ModCommands, SequenceTheorems, WellFoundedInduction, TLAPS

\* The polls whose response carries a command.
Carrying == {c \in Conns : legs[c].cmd # NoCommand}

Received == {received[k] : k \in DOMAIN received}

\* Only what the app sent is anywhere.
SentBefore ==
  /\ \A j \in DOMAIN queue : queue[j].id <= accepted
  /\ \A c \in Carrying : legs[c].cmd.id <= accepted
  /\ \A i \in Received \cup failed : i <= accepted

\* A command is in one place of the queue, or in one response, or was received.
OnePlace ==
  /\ \A j, k \in DOMAIN queue : queue[j].id = queue[k].id => j = k
  /\ \A c, d \in Carrying : legs[c].cmd.id = legs[d].cmd.id => c = d
  /\ \A c \in Carrying : \A j \in DOMAIN queue : queue[j].id # legs[c].cmd.id
  /\ \A j \in DOMAIN queue : queue[j].id \notin Received
  /\ \A c \in Carrying : legs[c].cmd.id \notin Received

\* What was carried out was received.
RanWasReceived == \A i \in DOMAIN ran : ran[i].id \in Received

\* A queued command whose response never failed was sent after every command
\* that is before it, or left the queue, or failed.
FreshAreLast ==
  \A j \in DOMAIN queue : queue[j].id \notin failed =>
    /\ \A k \in DOMAIN queue : k < j => queue[k].id < queue[j].id
    /\ \A c \in Carrying : legs[c].cmd.id < queue[j].id
    /\ \A i \in Received \cup failed : i < queue[j].id

\* So is the one the loop waits for, after what the mod has received.
NextIsLater ==
  \A c \in Carrying : loop.conn = c /\ legs[c].cmd.id \notin failed =>
    \A i \in Received : i < legs[c].cmd.id

\* A Stop names a turn that had begun when it was sent.
StopsNameATurn ==
  /\ \A j \in DOMAIN queue : queue[j].op = "stop" => queue[j].turn \in 1..sentIn[queue[j].id]
  /\ \A c \in Carrying : legs[c].cmd.op = "stop" =>
                           legs[c].cmd.turn \in 1..sentIn[legs[c].cmd.id]

\* Nobody speaks of a turn that has not begun.
TurnsHaveBegun ==
  /\ turn <= turns /\ row.turn <= turns /\ loop.turn <= turns
  /\ \A i \in DOMAIN events : events[i].turn <= turns
  /\ \A e \in stray : e.turn <= turns

\* A poll that waits without a wakeup has nothing to carry.
ParkedOverEmpty ==
  \A c \in Conns :
    legs[c].st = "parked" /\ legs[c].open /\ legs[c].gen = row.gen /\ ~legs[c].woken => queue = <<>>

-----------------------------------------------------------------------------
(* Types.                                                                  *)

Rows == [gen : 0..MaxGen, ev : 0..MaxEvals, turn : Turns \cup {None}, dead : BOOLEAN]
Legs == [st : {"free", "parked", "writing", "sent"}, gen : 0..MaxGen,
         cmd : Commands \cup {NoCommand}, open : BOOLEAN, woken : BOOLEAN]

\* A queue loses its head, or some of its head, and stays a queue.
LEMMA AfterIsAQueue ==
  ASSUME queue \in Seq(Commands), NEW j \in DOMAIN queue
  PROVE  /\ After(j) \in Seq(Commands)
         /\ Len(After(j)) = Len(queue) - j
         /\ DOMAIN After(j) = 1..(Len(queue) - j)
         /\ \A k \in DOMAIN After(j) : After(j)[k] = queue[j + k] /\ j + k \in DOMAIN queue
<1>1. /\ Len(queue) \in Nat /\ j \in 1..Len(queue) /\ j + 1 \in Int /\ Len(queue) \in Int
      /\ \A i \in (j + 1)..Len(queue) : queue[i] \in Commands
  BY ElementOfSeq, LenProperties
<1>2. /\ After(j) \in Seq(Commands)
      /\ Len(After(j)) = IF j + 1 <= Len(queue) THEN Len(queue) - (j + 1) + 1 ELSE 0
      /\ \A i \in 1..(Len(queue) - (j + 1) + 1) : After(j)[i] = queue[j + 1 + i - 1]
  BY <1>1, SubSeqProperties DEF After
<1>3. Len(After(j)) = Len(queue) - j
  BY <1>1, <1>2
<1>4. DOMAIN After(j) = 1..(Len(queue) - j)
  BY <1>2, <1>3, LenProperties
<1>5. ASSUME NEW k \in 1..(Len(queue) - j)
      PROVE  After(j)[k] = queue[j + k] /\ j + k \in DOMAIN queue
  <2>1. k \in 1..(Len(queue) - (j + 1) + 1) /\ j + 1 + k - 1 = j + k
    BY <1>1
  <2>2. j + k \in 1..Len(queue)
    BY <1>1
  <2> QED
    BY <1>1, <1>2, <2>1, <2>2, LenProperties
<1> QED
  BY <1>2, <1>3, <1>4, <1>5

\* A command put back is before all others.
LEMMA RequeueIsAQueue ==
  ASSUME queue \in Seq(Commands), Len(queue) <= MaxQueued, NEW cmd \in Commands
  PROVE  /\ Requeue(cmd) \in Seq(Commands)
         /\ Len(Requeue(cmd)) <= MaxQueued
         /\ \/ Requeue(cmd) = queue
            \/ /\ DOMAIN Requeue(cmd) = 1..(Len(queue) + 1)
               /\ Requeue(cmd)[1] = cmd
               /\ \A k \in 2..(Len(queue) + 1) :
                    Requeue(cmd)[k] = queue[k - 1] /\ k - 1 \in DOMAIN queue
<1>1. MaxQueued \in Nat /\ Len(queue) \in Nat /\ DOMAIN queue = 1..Len(queue)
  BY CommandsAssumption, LenProperties
<1>2. <<cmd>> \in Seq(Commands) /\ Len(<<cmd>>) = 1 /\ <<cmd>>[1] = cmd
  OBVIOUS
<1>3. /\ <<cmd>> \o queue \in Seq(Commands)
      /\ Len(<<cmd>> \o queue) = 1 + Len(queue)
      /\ \A i \in 1..(1 + Len(queue)) :
           (<<cmd>> \o queue)[i] = IF i <= 1 THEN <<cmd>>[i] ELSE queue[i - 1]
  BY <1>2, ConcatProperties
<1>4. DOMAIN (<<cmd>> \o queue) = 1..(Len(queue) + 1)
  BY <1>1, <1>3, LenProperties
<1>5. CASE Requeue(cmd) = queue
  BY <1>5
<1>6. CASE Requeue(cmd) # queue
  <2>1. Requeue(cmd) = <<cmd>> \o queue /\ ~(Len(queue) >= MaxQueued)
    BY <1>6, Zenon DEF Requeue
  <2>2. \A k \in 2..(Len(queue) + 1) :
          (<<cmd>> \o queue)[k] = queue[k - 1] /\ k - 1 \in DOMAIN queue
    BY <1>1, <1>3
  <2>3. (<<cmd>> \o queue)[1] = cmd
    BY <1>1, <1>2, <1>3
  <2>4. Len(<<cmd>> \o queue) <= MaxQueued
    BY <1>1, <1>3, <2>1
  <2> QED
    BY <1>3, <1>4, <2>1, <2>2, <2>3, <2>4, Zenon
<1> QED
  BY <1>5, <1>6

\* What the conditions of a step say of the constants, as numbers.
LEMMA Bounds ==
  /\ MaxQueued \in Nat \ {0} /\ MaxCommands \in Nat \ {0} /\ MaxGen \in Nat \ {0}
  /\ MaxEvals \in Nat \ {0} /\ MaxTurns \in Nat
  /\ 1 \in Evals /\ NoConn \notin Conns
BY CommandsAssumption DEF Evals

\* NoCommand is no command.
LEMMA NoCommandIsNone == NoCommand \notin Commands
BY DEF NoCommand, Commands, Ids

BrokerTypes ==
  /\ row \in Rows /\ gen \in 0..MaxGen
  /\ queue \in Seq(Commands) /\ Len(queue) <= MaxQueued
  /\ accepted \in 0..MaxCommands /\ aged \in 0..accepted

LegTypes ==
  /\ legs \in [Conns -> Legs]
  /\ \A c \in Conns : legs[c].st \in {"writing", "sent"} <=> legs[c].cmd # NoCommand

TerminalTypes ==
  /\ up \in BOOLEAN /\ ev \in Evals /\ ended \in BOOLEAN
  /\ loop \in [st : {"ready", "off", "registering", "polling"}, conn : Conns \cup {NoConn},
               turn : Turns \cup {None}]
  /\ reg \in {"no id", "asked", "yes"}
  /\ turn \in Turns \cup {None} /\ known \in {None, turn} /\ turns \in 0..MaxTurns
  /\ events \in Seq(Events) /\ stray \subseteq Events
  /\ recent \subseteq Ids

HistoryTypes ==
  /\ failed \subseteq Ids /\ sentIn \in [Ids -> 0..MaxTurns]
  /\ received \in Seq(Ids) /\ closedAt \in 0..MaxCommands
  /\ ran \in Seq(Commands)

LEMMA TypeParts ==
  CommandsTypeOK <=> BrokerTypes /\ LegTypes /\ TerminalTypes /\ HistoryTypes
BY Zenon DEF CommandsTypeOK, BrokerTypes, LegTypes, TerminalTypes, HistoryTypes, Rows, Legs

\* Waking polls changes nothing but their wakeups.
LEMMA WakingKeepsTypes ==
  ASSUME LegTypes, NEW L, L \in [Conns -> Legs]
  PROVE  /\ WakePolls(L) \in [Conns -> Legs]
         /\ \A c \in Conns : /\ WakePolls(L)[c].st = L[c].st
                             /\ WakePolls(L)[c].cmd = L[c].cmd
                             /\ WakePolls(L)[c].gen = L[c].gen
                             /\ WakePolls(L)[c].open = L[c].open
                             /\ WakePolls(L)[c].woken = (L[c].woken \/ L[c].st = "parked")
BY DEF WakePolls, Legs

\* The command a poll takes is one that is not too old.
LEMMA FitIsTaken ==
  ASSUME queue \in Seq(Commands), Fit # {}
  PROVE  \E j \in Fit : j = CHOOSE i \in Fit : \A k \in Fit : i <= k
<1>1. Fit \subseteq Nat
  BY LenProperties DEF Fit
<1> DEFINE Less == {ss \in Nat \X Nat : ss[1] < ss[2]}
<1>0. IsWellFoundedOn(Less, Nat)
  BY NatLessThanWellFounded, Zenon DEF OpToRel
<1> HIDE DEF Less
<1>2. PICK j \in Fit : \A k \in Fit : <<k, j>> \notin Less
  BY <1>0, <1>1, WFMin
<1>3. ASSUME NEW k \in Fit PROVE j <= k
  <2>1. <<k, j>> \in Nat \X Nat /\ <<k, j>>[1] = k /\ <<k, j>>[2] = j
    BY <1>1
  <2>2. ~(k < j)
    BY <1>2, <2>1 DEF Less
  <2> QED
    BY <1>1, <2>2
<1> QED
  BY <1>3

-----------------------------------------------------------------------------
\* The broker's records stay what they are, step by step.
LEMMA BrokerTypesStep == CommandsTypeOK /\ [Next]_vars => BrokerTypes'
<1> SUFFICES ASSUME CommandsTypeOK, [Next]_vars PROVE BrokerTypes'
  OBVIOUS
<1>0. BrokerTypes /\ LegTypes /\ TerminalTypes /\ HistoryTypes
  BY TypeParts
<1> USE DEF BrokerTypes
<1>1. ASSUME UNCHANGED <<row, gen, queue, accepted, aged>> PROVE BrokerTypes'
  BY <1>0, <1>1
<1>2. ASSUME NEW op \in {"words", "stop"}, NEW t \in Turns \cup {None}, Enqueue(op, t)
      PROVE  BrokerTypes'
  <2>1. accepted + 1 \in Ids /\ accepted' = accepted + 1 /\ accepted' \in 0..MaxCommands
        /\ aged' = aged /\ aged' \in 0..accepted'
    BY <1>0, <1>2, Bounds DEF Enqueue, Ids
  <2>2. [id |-> accepted + 1, op |-> op, turn |-> t] \in Commands
    BY <2>1 DEF Commands
  <2>3. queue' \in Seq(Commands) /\ Len(queue') = Len(queue) + 1
    BY <1>0, <1>2, <2>2 DEF Enqueue
  <2>4. Len(queue') <= MaxQueued
    BY <1>0, <1>2, <2>3, Bounds, LenProperties DEF Enqueue
  <2> QED
    BY <1>0, <1>2, <2>1, <2>3, <2>4 DEF Enqueue
<1>3. CASE Ages
  BY <1>0, <1>3, Bounds DEF Ages
<1>4. ASSUME NEW c \in Conns, ResumePoll(c) PROVE BrokerTypes'
  <2>1. row' = row /\ gen' = gen /\ accepted' = accepted /\ aged' = aged
    BY <1>4 DEF ResumePoll
  <2>2. queue' = queue \/ queue' = <<>> \/ \E j \in Fit : queue' = After(j)
    <3>1. CASE Fit = {} \/ queue' = queue
      BY <1>4, <3>1 DEF ResumePoll
    <3>2. CASE Fit # {} /\ queue' # queue
      BY <1>0, <1>4, <3>2, FitIsTaken DEF ResumePoll
    <3> QED
      BY <3>1, <3>2
  <2>3. \A j \in Fit : j \in DOMAIN queue
    BY DEF Fit
  <2>4. Len(queue) \in Nat /\ DOMAIN queue = 1..Len(queue)
    BY <1>0, LenProperties
  <2>5. queue' \in Seq(Commands) /\ Len(queue') <= MaxQueued
    <3>1. CASE queue' = queue
      BY <1>0, <3>1
    <3>2. CASE queue' = <<>>
      BY <3>2, Bounds, EmptySeq
    <3>3. ASSUME NEW j \in Fit, queue' = After(j) PROVE queue' \in Seq(Commands) /\ Len(queue') <= MaxQueued
      BY <1>0, <2>3, <2>4, <3>3, AfterIsAQueue, Bounds
    <3> QED
      BY <2>2, <3>1, <3>2, <3>3
  <2> QED
    BY <1>0, <2>1, <2>5
<1>5. ASSUME NEW c \in Conns, WriteFails(c) PROVE BrokerTypes'
  <2>1. legs[c].cmd \in Commands
    BY <1>0, <1>5 DEF WriteFails, LegTypes, Legs
  <2> QED
    BY <1>0, <1>5, <2>1, RequeueIsAQueue DEF WriteFails
<1>6. ASSUME NEW e \in Events, Noted(e), UNCHANGED <<gen, accepted, aged>>
      PROVE  BrokerTypes'
  <2>1. row' \in Rows
    <3>1. row' = row \/ row' = NoRow \/ row' = [row EXCEPT !.turn = e.turn]
      BY <1>6 DEF Noted
    <3>2. NoRow \in Rows
      BY Bounds DEF NoRow, Rows
    <3>3. [row EXCEPT !.turn = e.turn] \in Rows
      BY <1>0, <1>6 DEF Rows, Events
    <3> QED
      BY <1>0, <3>1, <3>2, <3>3
  <2>2. queue' = queue \/ queue' = <<>>
    BY <1>6 DEF Noted
  <2>3. queue' \in Seq(Commands) /\ Len(queue') <= MaxQueued
    <3>1. CASE queue' = queue
      BY <1>0, <3>1
    <3>2. CASE queue' = <<>>
      BY <3>2, Bounds, EmptySeq
    <3> QED
      BY <2>2, <3>1, <3>2
  <2> QED
    BY <1>0, <1>6, <2>1, <2>3
<1>7. CASE Sweep
  BY <1>0, <1>7, Bounds, EmptySeq DEF Sweep, Rows, NoRow
<1>8. CASE RegisterArrives
  <2>0. gen < MaxGen
    BY <1>8 DEF RegisterArrives
  <2>1. gen + 1 \in 0..MaxGen
    BY <1>0, <2>0, Bounds
  <2>5. ev \in Evals
    BY <1>0 DEF TerminalTypes
  <2>3. ev \in 0..MaxEvals
    BY <2>5, Bounds DEF Evals
  <2>4. loop.turn \in Turns \cup {None}
    BY <1>0 DEF TerminalTypes
  <2>2. row' \in Rows /\ gen' \in 0..MaxGen
    BY <1>8, <2>1, <2>3, <2>4 DEF RegisterArrives, Rows
  <2> QED
    BY <1>0, <1>8, <2>2 DEF RegisterArrives
<1>9. CASE Dies
  BY <1>0, <1>9 DEF Dies, Rows
<1>10. CASE AppSends
  BY <1>0, <1>2, <1>10 DEF AppSends, SendWords, SendStop, Rows
<1>11. CASE BrokerSteps
  BY <1>1, <1>5, <1>11 DEF BrokerSteps, WaitEnds, WriteCompletes
<1>12. CASE Outside
  BY <1>1, <1>3, <1>7, <1>9, <1>12 DEF Outside, Launch, Reload, ConnCloses, brokerVars
<1>13. CASE Hooks
  BY <1>1, <1>13 DEF Hooks, TurnStarts, TurnSteps, TurnCompletes, SessionEnds, brokerVars
<1>14. CASE EventArrives
  BY <1>0, <1>6, <1>14, HeadTailProperties DEF EventArrives, TerminalTypes
<1>15. CASE StrayArrives
  BY <1>0, <1>6, <1>15 DEF StrayArrives, TerminalTypes
<1>16. CASE ModSends
  BY <1>1, <1>8, <1>14, <1>15, <1>16
     DEF ModSends, EventGivenUp, LoopMeetsSession, LoopRegisters, LoopPolls, ReadReply, brokerVars
<1>17. CASE UNCHANGED vars
  BY <1>1, <1>17 DEF vars, brokerVars
<1> QED
  BY <1>4, <1>10, <1>11, <1>12, <1>13, <1>16, <1>17 DEF Next

-----------------------------------------------------------------------------
\* One poll's record is replaced, or polls are woken: both leave good records.
LEMMA OneLegChanges ==
  ASSUME LegTypes, NEW c \in Conns, NEW l \in Legs,
         l.st \in {"writing", "sent"} <=> l.cmd # NoCommand,
         legs' = [legs EXCEPT ![c] = l]
  PROVE  LegTypes'
BY DEF LegTypes

LEMMA LegsAreWoken ==
  ASSUME LegTypes, legs' = WakePolls(legs)
  PROVE  LegTypes'
BY WakingKeepsTypes DEF LegTypes

LEMMA FreeIsALeg ==
  Free \in Legs /\ Free.st = "free" /\ Free.cmd = NoCommand /\ Free.gen = 0 /\ ~Free.open /\ ~Free.woken
BY Bounds DEF Free, Legs, NoCommand

\* A poll carries a command exactly while its response is written or under way.
LEMMA LegTypesStep == CommandsTypeOK /\ [Next]_vars => LegTypes'
<1> SUFFICES ASSUME CommandsTypeOK, [Next]_vars PROVE LegTypes'
  OBVIOUS
<1>0. BrokerTypes /\ LegTypes /\ TerminalTypes
  BY TypeParts
<1>1. ASSUME UNCHANGED legs PROVE LegTypes'
  BY <1>0, <1>1 DEF LegTypes
<1>2. ASSUME NEW c \in Conns, legs' = [legs EXCEPT ![c] = Free] PROVE LegTypes'
  BY <1>0, <1>2, FreeIsALeg, OneLegChanges
<1>3. ASSUME NEW c \in Conns, ResumePoll(c) PROVE LegTypes'
  <2>1. CASE legs' = [legs EXCEPT ![c] = Free]
    BY <1>2, <2>1
  <2>2. CASE legs' = [legs EXCEPT ![c].woken = FALSE]
    <3>1. legs' = [legs EXCEPT ![c] = [legs[c] EXCEPT !.woken = FALSE]]
      BY <2>2
    <3>2. [legs[c] EXCEPT !.woken = FALSE] \in Legs
      BY <1>0 DEF LegTypes, Legs
    <3> QED
      BY <1>0, <3>1, <3>2, OneLegChanges DEF LegTypes, Legs
  <2>3. ASSUME NEW j \in Fit,
               legs' = [legs EXCEPT ![c].woken = FALSE, ![c].st = "writing", ![c].cmd = queue[j]]
        PROVE  LegTypes'
    <3> DEFINE l == [legs[c] EXCEPT !.woken = FALSE, !.st = "writing", !.cmd = queue[j]]
    <3>1. queue[j] \in Commands /\ queue[j] # NoCommand
      BY <1>0, NoCommandIsNone DEF BrokerTypes, Fit
    <3>2. legs' = [legs EXCEPT ![c] = l]
      BY <1>0, <2>3 DEF LegTypes
    <3>3. l \in Legs /\ l.st = "writing" /\ l.cmd = queue[j]
      BY <1>0, <3>1 DEF LegTypes, Legs
    <3> QED
      BY <1>0, <3>1, <3>2, <3>3, OneLegChanges
  <2>4. CASE ~(legs' = [legs EXCEPT ![c] = Free]) /\ ~(legs' = [legs EXCEPT ![c].woken = FALSE])
    <3>1. Fit # {}
      BY <1>3, <2>4 DEF ResumePoll
    <3>2. PICK j \in Fit : j = CHOOSE i \in Fit : \A k \in Fit : i <= k
      BY <1>0, <3>1, FitIsTaken DEF BrokerTypes
    <3>3. legs' = [legs EXCEPT ![c].woken = FALSE, ![c].st = "writing", ![c].cmd = queue[j]]
      BY <1>3, <2>4, <3>1, <3>2 DEF ResumePoll
    <3> QED
      BY <2>3, <3>3
  <2> QED
    BY <2>1, <2>2, <2>4
<1>4. ASSUME NEW c \in Conns, WriteCompletes(c) PROVE LegTypes'
  <2>1. legs' = [legs EXCEPT ![c] = [legs[c] EXCEPT !.st = "sent"]]
    BY <1>4 DEF WriteCompletes
  <2>2. [legs[c] EXCEPT !.st = "sent"] \in Legs /\ legs[c].cmd # NoCommand
    BY <1>0, <1>4 DEF LegTypes, Legs, WriteCompletes
  <2> QED
    BY <1>0, <2>1, <2>2, OneLegChanges DEF LegTypes, Legs
<1>5. ASSUME NEW c \in Conns, WriteFails(c) PROVE LegTypes'
  <2> DEFINE L == [legs EXCEPT ![c] = Free]
  <2>1. /\ L \in [Conns -> Legs]
        /\ \A d \in Conns : L[d].st \in {"writing", "sent"} <=> L[d].cmd # NoCommand
    BY <1>0, FreeIsALeg DEF LegTypes
  <2>2. legs' = L \/ legs' = WakePolls(L)
    BY <1>5 DEF WriteFails
  <2> HIDE DEF L
  <2> QED
    BY <1>0, <2>1, <2>2, WakingKeepsTypes DEF LegTypes
<1>6. ASSUME NEW c \in Conns, ConnCloses(c) PROVE LegTypes'
  <2>1. CASE legs[c].st = "sent"
    <3>1. legs' = [legs EXCEPT ![c] = Free]
      BY <1>0, <1>6, <2>1 DEF ConnCloses, LegTypes
    <3> QED
      BY <1>2, <3>1
  <2>2. CASE legs[c].st # "sent"
    <3>1. legs' = [legs EXCEPT ![c] = [legs[c] EXCEPT !.open = FALSE]]
      BY <1>0, <1>6, <2>2 DEF ConnCloses, LegTypes
    <3>2. [legs[c] EXCEPT !.open = FALSE] \in Legs
      BY <1>0 DEF LegTypes, Legs
    <3> QED
      BY <1>0, <3>1, <3>2, OneLegChanges DEF LegTypes, Legs
  <2> QED
    BY <2>1, <2>2
<1>7. ASSUME NEW e, Noted(e) PROVE LegTypes'
  BY <1>0, <1>1, <1>7, LegsAreWoken DEF Noted
<1>8. ASSUME NEW c \in Conns, LoopPolls(c) PROVE LegTypes'
  <2>1. CASE UNCHANGED legs
    BY <1>1, <2>1
  <2>2. CASE ~UNCHANGED legs
    <3> DEFINE l == [st |-> "parked", gen |-> row.gen, cmd |-> NoCommand,
                     open |-> TRUE, woken |-> TRUE]
    <3>1. legs' = [legs EXCEPT ![c] = l]
      BY <1>8, <2>2 DEF LoopPolls
    <3>2. l \in Legs
      BY <1>0 DEF BrokerTypes, Rows, Legs
    <3> QED
      BY <1>0, <3>1, <3>2, OneLegChanges
  <2> QED
    BY <2>1, <2>2
<1>9. CASE Dies
  <2>1. \A c \in Conns : legs'[c] = IF legs[c].st = "sent" THEN Free
                                    ELSE [legs[c] EXCEPT !.open = FALSE]
    BY <1>9 DEF Dies
  <2>2. ASSUME NEW c \in Conns
        PROVE  /\ [legs[c] EXCEPT !.open = FALSE] \in Legs
               /\ [legs[c] EXCEPT !.open = FALSE].st = legs[c].st
               /\ [legs[c] EXCEPT !.open = FALSE].cmd = legs[c].cmd
    BY <1>0 DEF LegTypes, Legs
  <2>3. legs' \in [Conns -> Legs]
    BY <1>9, <2>2, FreeIsALeg DEF Dies
  <2> QED
    BY <1>0, <2>1, <2>2, <2>3, FreeIsALeg DEF LegTypes
<1>10. CASE AppSends
  BY <1>0, <1>10, LegsAreWoken DEF AppSends, SendWords, SendStop, Enqueue
<1>11. CASE BrokerSteps
  BY <1>2, <1>4, <1>5, <1>11 DEF BrokerSteps, WaitEnds
<1>12. CASE Outside
  BY <1>1, <1>6, <1>9, <1>12 DEF Outside, Ages, Sweep, Launch, Reload, brokerVars
<1>13. CASE Hooks
  BY <1>1, <1>13 DEF Hooks, TurnStarts, TurnSteps, TurnCompletes, SessionEnds, brokerVars
<1>14. CASE EventArrives \/ StrayArrives
  BY <1>7, <1>14 DEF EventArrives, StrayArrives
<1>15. CASE ModSends
  BY <1>0, <1>1, <1>2, <1>8, <1>14, <1>15, LegsAreWoken
     DEF ModSends, EventGivenUp, LoopMeetsSession, LoopRegisters, RegisterArrives, ReadReply,
         brokerVars
<1>16. CASE UNCHANGED vars
  BY <1>1, <1>16 DEF vars, brokerVars
<1> QED
  BY <1>3, <1>10, <1>11, <1>12, <1>13, <1>15, <1>16 DEF Next

-----------------------------------------------------------------------------
\* The mod's own state keeps its types; what it knows of is the turn that runs.
LEMMA TerminalTypesStep == CommandsTypeOK /\ [Next]_vars => TerminalTypes'
<1> SUFFICES ASSUME CommandsTypeOK, [Next]_vars PROVE TerminalTypes'
  OBVIOUS
<1>0. LegTypes /\ TerminalTypes /\ 1 \in Nat
  BY TypeParts
<1> DEFINE Loops == [st : {"ready", "off", "registering", "polling"},
                     conn : Conns \cup {NoConn}, turn : Turns \cup {None}]
<1> USE DEF TerminalTypes
<1>1. ASSUME UNCHANGED terminalVars PROVE TerminalTypes'
  BY <1>0, <1>1 DEF terminalVars
<1>2. Ready \in Loops /\ Off \in Loops
  BY DEF Ready, Off
<1>3. ASSUME NEW c \in Conns, NEW r \in {"no id", "asked", "yes"}, Answered(c, r),
             UNCHANGED <<up, ev, ended, turn, known, turns, events, stray, recent>>
      PROVE  TerminalTypes'
  BY <1>0, <1>2, <1>3 DEF Answered
<1>4. ASSUME NEW c \in Conns, ResumePoll(c) PROVE TerminalTypes'
  BY <1>0, <1>3, <1>4 DEF ResumePoll, Answered
<1>5. ASSUME NEW kind \in {"turn.start", "turn.complete", "session.end"},
             NEW t \in Turns \cup {None}, Report(kind, t)
      PROVE  events' \in Seq(Events)
  <2>1. [kind |-> kind, turn |-> t, ev |-> ev] \in Events
    BY <1>0 DEF Events
  <2>2. events \in Seq(Events)
    BY <1>0
  <2>3. CASE reg = "no id"
    BY <1>5, <2>2, <2>3 DEF Report
  <2>4. CASE reg # "no id"
    <3>1. events' = Append(events, [kind |-> kind, turn |-> t, ev |-> ev])
      BY <1>5, <2>4 DEF Report
    <3> QED
      BY <2>1, <2>2, <3>1
  <2> QED
    BY <2>3, <2>4
<1>6. CASE TurnStarts
  <2>1. turns' \in Turns /\ turns' \in 0..MaxTurns
    <3>1. turns' = turns + 1 /\ turns < MaxTurns
      BY <1>6 DEF TurnStarts
    <3>2. turns \in 0..MaxTurns
      BY <1>0
    <3> QED
      BY <3>1, <3>2, Bounds DEF Turns
  <2>2. events' \in Seq(Events)
    BY <1>5, <2>1, <1>6, Zenon DEF TurnStarts
  <2> QED
    BY <1>0, <1>6, <2>1, <2>2 DEF TurnStarts
<1>7. CASE TurnSteps
  <2>1. events' \in Seq(Events)
    BY <1>0, <1>5, <1>7 DEF TurnSteps
  <2> QED
    BY <1>0, <1>7, <2>1 DEF TurnSteps
<1>8. CASE TurnCompletes
  <2>1. events' \in Seq(Events)
    BY <1>5, <1>8 DEF TurnCompletes
  <2> QED
    BY <1>0, <1>8, <2>1 DEF TurnCompletes
<1>9. CASE SessionEnds
  <2>1. events' \in Seq(Events)
    BY <1>5, <1>9 DEF SessionEnds
  <2> QED
    BY <1>0, <1>9, <2>1 DEF SessionEnds
<1>10. ASSUME NEW c \in Conns, LoopPolls(c) PROVE TerminalTypes'
  <2>1. [st |-> "polling", conn |-> c, turn |-> None] \in Loops
    OBVIOUS
  <2> QED
    BY <1>0, <1>10, <2>1 DEF LoopPolls
<1>11. ASSUME NEW c \in Conns, ReadReply(c) PROVE TerminalTypes'
  <2>1. legs[c].cmd.id \in Ids
    BY <1>0, <1>11 DEF ReadReply, LegTypes, Legs, Commands
  <2> QED
    BY <1>0, <1>2, <1>11, <2>1 DEF ReadReply, RunCommand
<1>12. ASSUME Evaluated, turn' = turn, turns' = turns, stray' = stray, up' \in BOOLEAN
       PROVE  TerminalTypes'
  <2>1. ev + 1 \in Evals
    <3>1. ev < MaxEvals
      BY <1>12 DEF Evaluated
    <3>2. ev \in Evals
      BY <1>0
    <3> QED
      BY <3>1, <3>2, Bounds DEF Evals
  <2> QED
    BY <1>0, <1>2, <1>12, <2>1, EmptySeq DEF Evaluated
<1>13. CASE Dies
  BY <1>0, <1>2, <1>13, EmptySeq DEF Dies
<1>14. ASSUME events # <<>>, events' = Tail(events), stray' = stray \/ stray' = {Head(events)},
              UNCHANGED <<up, ev, loop, reg, ended, turn, known, turns, recent>>
       PROVE  TerminalTypes'
  <2>1. Head(events) \in Events /\ Tail(events) \in Seq(Events)
    BY <1>0, <1>14, HeadTailProperties
  <2> QED
    BY <1>0, <1>14, <2>1
<1>15. CASE StrayArrives
  BY <1>0, <1>15 DEF StrayArrives
<1>16. CASE LoopMeetsSession
  BY <1>0, <1>16 DEF LoopMeetsSession
<1>17. CASE LoopRegisters
  <2>1. [st |-> "registering", conn |-> NoConn, turn |-> known] \in Loops
    BY <1>0
  <2> QED
    BY <1>0, <1>17, <2>1 DEF LoopRegisters
<1>18. CASE RegisterArrives
  BY <1>0, <1>2, <1>18 DEF RegisterArrives
<1>19. CASE AppSends
  BY <1>1, <1>19 DEF AppSends, SendWords, SendStop, Enqueue
<1>20. CASE BrokerSteps
  BY <1>0, <1>1, <1>3, <1>20 DEF BrokerSteps, WaitEnds, WriteCompletes, WriteFails
<1>21. CASE Outside
  BY <1>0, <1>1, <1>3, <1>12, <1>13, <1>21 DEF Outside, Ages, Sweep, Launch, Reload, ConnCloses
<1>22. CASE Hooks
  BY <1>6, <1>7, <1>8, <1>9, <1>22 DEF Hooks
<1>23. CASE EventArrives \/ EventGivenUp
  BY <1>14, <1>23 DEF EventArrives, EventGivenUp
<1>24. CASE ModSends
  BY <1>10, <1>11, <1>15, <1>16, <1>17, <1>18, <1>23, <1>24 DEF ModSends
<1>25. CASE UNCHANGED vars
  BY <1>1, <1>25 DEF vars
<1> QED
  BY <1>4, <1>19, <1>20, <1>21, <1>22, <1>24, <1>25 DEF Next

-----------------------------------------------------------------------------
(* The kinds of step, as far as commands go.                               *)

\* The polls other than c carry what they carried.
OthersCarryOn(c) == \A d \in Conns \ {c} : legs'[d].cmd = legs[d].cmd

\* Commands may be lost, and none is moved.
NothingMoves ==
  /\ queue' = queue \/ queue' = <<>>
  /\ \A c \in Conns : legs'[c].cmd = legs[c].cmd \/ legs'[c].cmd = NoCommand
  /\ \A c \in Conns : loop'.conn = c => loop.conn = c \/ legs'[c].cmd = NoCommand
  /\ UNCHANGED <<accepted, sentIn, failed, received, ran>>
  /\ closedAt' \in {closedAt, accepted}

\* The app's command is put at the end of the queue.
Queued(op, t) ==
  /\ accepted < MaxCommands
  /\ op = "stop" => t = row.turn /\ t # None
  /\ queue' = Append(queue, [id |-> accepted + 1, op |-> op, turn |-> t])
  /\ accepted' = accepted + 1
  /\ sentIn' = [sentIn EXCEPT ![accepted + 1] = turns]
  /\ \A c \in Conns : legs'[c].cmd = legs[c].cmd
  /\ UNCHANGED <<loop, failed, received, ran, closedAt>>

\* A poll takes one from the queue, and what was before it is dropped.
TakenBy(c, j) ==
  /\ queue' = After(j)
  /\ legs'[c].cmd = queue[j]
  /\ OthersCarryOn(c)
  /\ UNCHANGED <<accepted, sentIn, loop, failed, received, ran, closedAt>>

\* A response that did not leave gives its command back.
PutBack(c) ==
  /\ c \in Carrying
  /\ queue' = Requeue(legs[c].cmd)
  /\ legs'[c].cmd = NoCommand
  /\ OthersCarryOn(c)
  /\ failed' = failed \cup {legs[c].cmd.id}
  /\ loop'.conn \in {loop.conn, NoConn}
  /\ UNCHANGED <<accepted, sentIn, received, ran, closedAt>>

\* The loop reads the response it waits for.
ReadFrom(c) ==
  /\ c \in Carrying /\ loop.conn = c
  /\ RunCommand(legs[c].cmd)
  /\ legs'[c].cmd = NoCommand
  /\ OthersCarryOn(c)
  /\ loop' = Ready
  /\ UNCHANGED <<queue, accepted, sentIn, failed, closedAt>>

Moves ==
  \/ NothingMoves
  \/ \E op \in {"words", "stop"}, t \in Turns \cup {None} : Queued(op, t)
  \/ \E c \in Conns : PutBack(c) \/ ReadFrom(c) \/ \E j \in DOMAIN queue : TakenBy(c, j)

\* Every step of the program is of one of these kinds.
LEMMA Carriage == CommandsTypeOK /\ [Next]_vars => Moves
<1> SUFFICES ASSUME CommandsTypeOK, [Next]_vars PROVE Moves
  OBVIOUS
<1>0. BrokerTypes /\ LegTypes /\ TerminalTypes /\ NoConn \notin Conns /\ Ready.conn = NoConn
  BY TypeParts, Bounds DEF Ready
<1>1. legs \in [Conns -> Legs]
  BY <1>0 DEF LegTypes
<1>2. ASSUME UNCHANGED <<queue, accepted, historyVars>>,
             \A c \in Conns : legs'[c].cmd = legs[c].cmd \/ legs'[c].cmd = NoCommand,
             loop' = loop \/ loop'.conn = NoConn
      PROVE  Moves
  BY <1>0, <1>2 DEF Moves, NothingMoves, historyVars
<1>3. ASSUME UNCHANGED <<legs, queue, accepted, historyVars>>, loop' = loop \/ loop'.conn = NoConn
      PROVE  Moves
  BY <1>2, <1>3
<1>4. ASSUME NEW c \in Conns, legs' = [legs EXCEPT ![c] = Free],
             UNCHANGED <<queue, accepted, historyVars>>, loop' = loop \/ loop'.conn = NoConn
      PROVE  Moves
  BY <1>1, <1>2, <1>4, FreeIsALeg
<1>5. ASSUME NEW op \in {"words", "stop"}, NEW t \in Turns \cup {None}, Enqueue(op, t),
             op = "stop" => t = row.turn /\ t # None
      PROVE  Moves
  <2>1. \A c \in Conns : legs'[c].cmd = legs[c].cmd
    BY <1>0, <1>1, <1>5, WakingKeepsTypes DEF Enqueue
  <2> QED
    BY <1>5, <2>1 DEF Moves, Queued, Enqueue, terminalVars
<1>6. ASSUME NEW c \in Conns, ResumePoll(c) PROVE Moves
  <2>0. loop' = loop \/ loop'.conn = NoConn
    BY <1>0, <1>6 DEF ResumePoll, Answered
  <2>1. UNCHANGED <<accepted, historyVars>>
    BY <1>6 DEF ResumePoll
  <2>2. CASE queue' = queue /\ legs' = [legs EXCEPT ![c] = Free]
    BY <1>4, <2>0, <2>1, <2>2
  <2>3. CASE queue' = <<>> /\ legs' = [legs EXCEPT ![c].woken = FALSE]
    <3>1. \A d \in Conns : legs'[d].cmd = legs[d].cmd
      BY <1>1, <2>3 DEF Legs
    <3> QED
      BY <1>0, <2>0, <2>1, <2>3, <3>1 DEF Moves, NothingMoves, historyVars
  <2>4. CASE ~(queue' = queue /\ legs' = [legs EXCEPT ![c] = Free])
             /\ ~(queue' = <<>> /\ legs' = [legs EXCEPT ![c].woken = FALSE])
    <3>1. Fit # {} /\ loop' = loop
      BY <1>6, <2>4 DEF ResumePoll
    <3>2. PICK j \in Fit : j = CHOOSE i \in Fit : \A k \in Fit : i <= k
      BY <1>0, <3>1, FitIsTaken DEF BrokerTypes
    <3>3. /\ queue' = After(j)
          /\ legs' = [legs EXCEPT ![c].woken = FALSE, ![c].st = "writing", ![c].cmd = queue[j]]
      BY <1>6, <2>4, <3>1, <3>2 DEF ResumePoll
    <3>4. legs'[c].cmd = queue[j] /\ OthersCarryOn(c)
      BY <1>1, <3>3 DEF OthersCarryOn, Legs
    <3>5. TakenBy(c, j) /\ j \in DOMAIN queue
      BY <2>1, <3>1, <3>3, <3>4 DEF TakenBy, Fit, historyVars
    <3> QED
      BY <3>5 DEF Moves
  <2> QED
    BY <2>2, <2>3, <2>4
<1>7. ASSUME NEW c \in Conns, WriteCompletes(c) PROVE Moves
  <2>1. \A d \in Conns : legs'[d].cmd = legs[d].cmd
    BY <1>1, <1>7 DEF WriteCompletes, Legs
  <2> QED
    BY <1>2, <1>7, <2>1 DEF WriteCompletes, terminalVars
<1>8. ASSUME NEW c \in Conns, WriteFails(c) PROVE Moves
  <2> DEFINE L == [legs EXCEPT ![c] = Free]
  <2>1. c \in Carrying
    BY <1>0, <1>8 DEF WriteFails, Carrying, LegTypes
  <2>2. L \in [Conns -> Legs] /\ L[c].cmd = NoCommand /\ \A d \in Conns \ {c} : L[d] = legs[d]
    BY <1>1, FreeIsALeg
  <2>3. legs' = L \/ legs' = WakePolls(L)
    BY <1>8 DEF WriteFails
  <2> HIDE DEF L
  <2>4. legs'[c].cmd = NoCommand /\ OthersCarryOn(c)
    BY <1>0, <2>2, <2>3, WakingKeepsTypes DEF OthersCarryOn
  <2>5. loop'.conn \in {loop.conn, NoConn}
    BY <1>0, <1>8 DEF WriteFails, Answered
  <2>6. PutBack(c)
    BY <1>8, <2>1, <2>4, <2>5 DEF PutBack, WriteFails
  <2> QED
    BY <2>6 DEF Moves
<1>9. ASSUME NEW c \in Conns, ConnCloses(c) PROVE Moves
  <2>1. \A d \in Conns : legs'[d].cmd = legs[d].cmd \/ legs'[d].cmd = NoCommand
    BY <1>1, <1>9, FreeIsALeg DEF ConnCloses, Legs
  <2>2. loop' = loop \/ loop'.conn = NoConn
    BY <1>0, <1>9 DEF ConnCloses, Answered
  <2> QED
    BY <1>2, <1>9, <2>1, <2>2 DEF ConnCloses
<1>10. ASSUME NEW e, Noted(e), UNCHANGED <<accepted, loop, sentIn, failed, received, ran>>
       PROVE  Moves
  <2>1. \A c \in Conns : legs'[c].cmd = legs[c].cmd
    BY <1>0, <1>1, <1>10, WakingKeepsTypes DEF Noted
  <2>2. queue' = queue \/ queue' = <<>>
    BY <1>10 DEF Noted
  <2>3. closedAt' \in {closedAt, accepted}
    BY <1>10 DEF Noted
  <2> QED
    BY <1>10, <2>1, <2>2, <2>3 DEF Moves, NothingMoves
<1>11. CASE Sweep
  BY <1>11 DEF Sweep, Moves, NothingMoves, historyVars, terminalVars
<1>12. CASE Dies
  <2>1. \A c \in Conns : legs'[c].cmd = legs[c].cmd \/ legs'[c].cmd = NoCommand
    BY <1>1, <1>12, FreeIsALeg DEF Dies, Legs
  <2>2. loop'.conn = NoConn
    BY <1>12 DEF Dies, Off, Ready
  <2> QED
    BY <1>2, <1>12, <2>1, <2>2 DEF Dies
<1>13. CASE RegisterArrives
  <2>1. \A c \in Conns : legs'[c].cmd = legs[c].cmd
    BY <1>0, <1>1, <1>13, WakingKeepsTypes DEF RegisterArrives
  <2> QED
    BY <1>0, <1>2, <1>13, <2>1 DEF RegisterArrives
<1>14. ASSUME NEW c \in Conns, LoopPolls(c) PROVE Moves
  <2>1. CASE UNCHANGED <<legs, loop>>
    BY <1>3, <1>14, <2>1 DEF LoopPolls
  <2>2. CASE ~UNCHANGED <<legs, loop>>
    <3>1. /\ legs' = [legs EXCEPT ![c] = [st |-> "parked", gen |-> row.gen, cmd |-> NoCommand,
                                          open |-> TRUE, woken |-> TRUE]]
          /\ loop' = [st |-> "polling", conn |-> c, turn |-> None]
      BY <1>14, <2>2 DEF LoopPolls
    <3>2. \A d \in Conns : legs'[d].cmd = legs[d].cmd \/ legs'[d].cmd = NoCommand
      BY <1>1, <3>1
    <3>3. \A d \in Conns : loop'.conn = d => legs'[d].cmd = NoCommand
      BY <1>1, <3>1
    <3> QED
      BY <1>14, <3>2, <3>3 DEF LoopPolls, Moves, NothingMoves, historyVars
  <2> QED
    BY <2>1, <2>2
<1>15. ASSUME NEW c \in Conns, ReadReply(c) PROVE Moves
  <2>1. legs' = [legs EXCEPT ![c] = Free]
    BY <1>15 DEF ReadReply
  <2>2. CASE loop.conn = c
    <3>1. c \in Carrying /\ legs'[c].cmd = NoCommand /\ OthersCarryOn(c)
      BY <1>0, <1>1, <1>15, <2>1, FreeIsALeg DEF ReadReply, Carrying, LegTypes, OthersCarryOn
    <3>2. ReadFrom(c)
      BY <1>15, <2>2, <3>1 DEF ReadFrom, ReadReply
    <3> QED
      BY <3>2 DEF Moves
  <2>3. CASE loop.conn # c
    BY <1>4, <1>15, <2>1, <2>3 DEF ReadReply, historyVars
  <2> QED
    BY <2>2, <2>3
<1>16. ASSUME Evaluated, UNCHANGED <<brokerVars, historyVars>> PROVE Moves
  BY <1>0, <1>3, <1>16 DEF Evaluated, brokerVars
<1>17. CASE AppSends
  BY <1>0, <1>5, <1>17 DEF AppSends, SendWords, SendStop, BrokerTypes, Rows
<1>18. ASSUME NEW c \in Conns, WaitEnds(c) PROVE Moves
  BY <1>0, <1>4, <1>18 DEF WaitEnds, Answered
<1>19. CASE Outside
  BY <1>3, <1>9, <1>11, <1>12, <1>16, <1>19 DEF Outside, Ages, Launch, Reload, terminalVars
<1>20. CASE Hooks
  BY <1>3, <1>20 DEF Hooks, TurnStarts, TurnSteps, TurnCompletes, SessionEnds, brokerVars
<1>21. CASE EventArrives \/ StrayArrives
  BY <1>10, <1>21 DEF EventArrives, StrayArrives
<1>22. CASE EventGivenUp \/ LoopMeetsSession
  BY <1>3, <1>22 DEF EventGivenUp, LoopMeetsSession, brokerVars
<1>23. CASE LoopRegisters
  BY <1>3, <1>23 DEF LoopRegisters, brokerVars
<1>24. CASE UNCHANGED vars
  BY <1>3, <1>24 DEF vars, brokerVars, terminalVars
<1> QED
  BY <1>6, <1>7, <1>8, <1>13, <1>14, <1>15, <1>17, <1>18, <1>19, <1>20, <1>21, <1>22, <1>23, <1>24
     DEF Next, BrokerSteps, ModSends

-----------------------------------------------------------------------------
(* Types, concluded.                                                       *)

\* The histories name only what there is.
LEMMA HistoryTypesStep == CommandsTypeOK /\ [Next]_vars => HistoryTypes'
<1> SUFFICES ASSUME CommandsTypeOK, [Next]_vars PROVE HistoryTypes'
  OBVIOUS
<1>0. BrokerTypes /\ LegTypes /\ TerminalTypes /\ HistoryTypes
  BY TypeParts
<1>1. Moves
  BY Carriage
<1>2. closedAt' \in {closedAt, accepted} => closedAt' \in 0..MaxCommands
  BY <1>0 DEF HistoryTypes, BrokerTypes
<1>3. ASSUME UNCHANGED <<sentIn, failed, received, ran>>, closedAt' \in {closedAt, accepted}
      PROVE  HistoryTypes'
  BY <1>0, <1>2, <1>3 DEF HistoryTypes
<1>4. ASSUME NEW c \in Carrying PROVE legs[c].cmd \in Commands /\ legs[c].cmd.id \in Ids
  BY <1>0 DEF Carrying, LegTypes, Legs, Commands
<1>5. CASE NothingMoves
  BY <1>3, <1>5 DEF NothingMoves
<1>6. ASSUME NEW op, NEW t, Queued(op, t) PROVE HistoryTypes'
  BY <1>0, <1>6 DEF Queued, HistoryTypes, TerminalTypes
<1>7. ASSUME NEW c \in Conns, PutBack(c) PROVE HistoryTypes'
  BY <1>0, <1>4, <1>7 DEF PutBack, HistoryTypes
<1>8. ASSUME NEW c \in Conns, ReadFrom(c) PROVE HistoryTypes'
  <2>1. received' \in Seq(Ids)
    BY <1>0, <1>4, <1>8 DEF ReadFrom, RunCommand, HistoryTypes
  <2>0. legs[c].cmd \in Commands /\ turn \in Turns \cup {None}
    BY <1>0, <1>4, <1>8 DEF ReadFrom, TerminalTypes
  <2>2. [legs[c].cmd EXCEPT !.turn = turn] \in Commands
    BY <2>0 DEF Commands
  <2>3. ran' = ran \/ ran' = Append(ran, [legs[c].cmd EXCEPT !.turn = turn])
    BY <1>8 DEF ReadFrom, RunCommand
  <2>5. ran \in Seq(Commands)
    BY <1>0 DEF HistoryTypes
  <2>4. ran' \in Seq(Commands)
    BY <2>2, <2>3, <2>5
  <2> QED
    BY <1>0, <1>8, <2>1, <2>4 DEF ReadFrom, HistoryTypes
<1>9. ASSUME NEW c \in Conns, NEW j \in DOMAIN queue, TakenBy(c, j) PROVE HistoryTypes'
  BY <1>3, <1>9 DEF TakenBy
<1> QED
  BY <1>1, <1>5, <1>6, <1>7, <1>8, <1>9 DEF Moves

LEMMA TypesInit == Init => CommandsTypeOK
<1> SUFFICES ASSUME Init PROVE CommandsTypeOK
  OBVIOUS
<1>0. /\ 0 \in 0..MaxGen /\ 0 \in 0..MaxEvals /\ 0 \in 0..MaxCommands /\ 0 \in 0..MaxTurns
      /\ 0 \in 0..0
  BY Bounds
<1>1. BrokerTypes
  <2>1. row \in Rows /\ gen \in 0..MaxGen
    BY <1>0 DEF Init, Rows, NoRow
  <2>2. queue \in Seq(Commands) /\ Len(queue) = 0
    BY EmptySeq DEF Init
  <2>3. accepted \in 0..MaxCommands /\ aged \in 0..accepted
    BY <1>0 DEF Init
  <2> QED
    BY <2>1, <2>2, <2>3, Bounds DEF BrokerTypes
<1>2. LegTypes
  BY FreeIsALeg DEF Init, LegTypes
<1>3. TerminalTypes
  <2>1. events \in Seq(Events)
    BY EmptySeq DEF Init
  <2>2. turns \in 0..MaxTurns /\ ev \in Evals
    BY <1>0, Bounds DEF Init
  <2> QED
    BY <2>1, <2>2 DEF Init, TerminalTypes, Ready
<1>4. HistoryTypes
  <2>1. received \in Seq(Ids) /\ ran \in Seq(Commands)
    BY EmptySeq DEF Init
  <2>2. closedAt \in 0..MaxCommands
    BY <1>0 DEF Init
  <2> QED
    BY <1>0, <2>1, <2>2 DEF Init, HistoryTypes
<1> QED
  BY <1>1, <1>2, <1>3, <1>4, TypeParts

LEMMA TypesStep == CommandsTypeOK /\ [Next]_vars => CommandsTypeOK'
<1> SUFFICES ASSUME CommandsTypeOK, [Next]_vars PROVE CommandsTypeOK'
  OBVIOUS
<1>1. BrokerTypes' /\ LegTypes' /\ TerminalTypes' /\ HistoryTypes'
  BY BrokerTypesStep, LegTypesStep, TerminalTypesStep, HistoryTypesStep
<1> QED
  BY <1>1 DEF CommandsTypeOK, BrokerTypes, LegTypes, TerminalTypes, HistoryTypes, Rows, Legs

\* The queue never outgrows its limit, whatever is put back into it, a poll
\* carries a command exactly while its response is written or under way, and
\* the mod knows of no turn but the one that runs (mod-registry.ts, enqueue and
\* requeue; mod-socket-server.ts, pollResponse; register.js, state.turnId).
THEOREM QueueKeepsItsLimit == Spec => []CommandsTypeOK
<1>1. Init => CommandsTypeOK
  BY TypesInit
<1>2. CommandsTypeOK /\ [Next]_vars => CommandsTypeOK'
  BY TypesStep
<1> QED
  BY <1>1, <1>2, PTL DEF Spec

-----------------------------------------------------------------------------
(* Each command once, and in order.                                        *)

Cargo == /\ SentBefore /\ OnePlace /\ RanWasReceived /\ RunsOnce
         /\ FreshAreLast /\ NextIsLater /\ HandedInOrder

\* What the types say of the places a command can be in.
Placed == /\ queue \in Seq(Commands) /\ Len(queue) \in Nat /\ Len(queue) <= MaxQueued
          /\ DOMAIN queue = 1..Len(queue)
          /\ \A j \in DOMAIN queue : queue[j] \in Commands /\ queue[j].id \in Nat
          /\ \A c \in Carrying : c \in Conns /\ legs[c].cmd \in Commands /\ legs[c].cmd.id \in Nat
          /\ Received \subseteq Nat /\ failed \subseteq Nat /\ accepted \in Nat
          /\ received \in Seq(Nat) /\ ran \in Seq(Commands)

LEMMA TypesPlace == CommandsTypeOK => Placed
<1> SUFFICES ASSUME CommandsTypeOK PROVE Placed
  OBVIOUS
<1>0. BrokerTypes /\ LegTypes /\ HistoryTypes
  BY TypeParts
<1>1. \A i \in Ids : i \in Nat
  BY DEF Ids
<1>2. queue \in Seq(Commands) /\ Len(queue) \in Nat /\ DOMAIN queue = 1..Len(queue)
  BY <1>0, LenProperties DEF BrokerTypes
<1>3. \A cmd \in Commands : cmd.id \in Nat
  BY <1>1 DEF Commands
<1>4. \A j \in DOMAIN queue : queue[j] \in Commands /\ queue[j].id \in Nat
  BY <1>2, <1>3, ElementOfSeq
<1>5. \A c \in Carrying : c \in Conns /\ legs[c].cmd \in Commands /\ legs[c].cmd.id \in Nat
  BY <1>0, <1>3 DEF Carrying, LegTypes, Legs
<1>6. received \in Seq(Nat)
  BY <1>0, <1>1, SeqMonotonic DEF HistoryTypes
<1>7. Received \subseteq Nat
  BY <1>6, ElementOfSeq, LenProperties DEF Received
<1>8. failed \subseteq Nat /\ accepted \in Nat
  BY <1>0, <1>1 DEF HistoryTypes, BrokerTypes
<1> QED
  BY <1>0, <1>2, <1>4, <1>5, <1>6, <1>7, <1>8 DEF Placed, BrokerTypes, HistoryTypes

\* A step that loses commands loses no order.
LEMMA NothingMovesKeeps ==
  ASSUME Placed, Cargo, NothingMoves
  PROVE  Cargo'
<1>1. \A j \in DOMAIN queue' : j \in DOMAIN queue /\ queue'[j] = queue[j]
  BY EmptySeq DEF NothingMoves
<1>2. \A c \in Carrying' : c \in Carrying /\ legs'[c].cmd = legs[c].cmd
  BY DEF NothingMoves, Carrying
<1>3. Received' = Received
  BY DEF NothingMoves, Received
<1>4. \A c \in Carrying' : loop'.conn = c => loop.conn = c
  BY DEF NothingMoves, Carrying
<1>5. UNCHANGED <<accepted, failed, received, ran>>
  BY DEF NothingMoves
<1>6. SentBefore'
  BY <1>1, <1>2, <1>3, <1>5 DEF Cargo, SentBefore
<1>7. OnePlace'
  BY <1>1, <1>2, <1>3 DEF Cargo, OnePlace
<1>8. RanWasReceived' /\ RunsOnce' /\ HandedInOrder'
  BY <1>3, <1>5 DEF Cargo, RanWasReceived, RunsOnce, HandedInOrder
<1>9. FreshAreLast'
  BY <1>1, <1>2, <1>3, <1>5 DEF Cargo, FreshAreLast
<1>10. NextIsLater'
  BY <1>2, <1>3, <1>4, <1>5 DEF Cargo, NextIsLater
<1> QED
  BY <1>6, <1>7, <1>8, <1>9, <1>10 DEF Cargo

\* A new command is the last of all.
LEMMA QueuedKeeps ==
  ASSUME Placed, Cargo, NEW op, NEW t, Queued(op, t)
  PROVE  Cargo'
<1> DEFINE n == Len(queue) + 1
<1>1. /\ DOMAIN queue' = 1..n /\ queue'[n].id = accepted + 1
      /\ \A j \in DOMAIN queue : j \in DOMAIN queue' /\ queue'[j] = queue[j]
      /\ \A j \in DOMAIN queue' : j \in DOMAIN queue \/ j = n
  BY DEF Placed, Queued
<1>2. \A c \in Conns : legs'[c].cmd = legs[c].cmd
  BY DEF Queued
<1>3. /\ Carrying' = Carrying /\ \A c \in Carrying : legs'[c].cmd = legs[c].cmd
  BY <1>2 DEF Carrying
<1>4. Received' = Received /\ accepted' = accepted + 1 /\ accepted \in Nat
  BY DEF Queued, Received, Placed
<1>5. UNCHANGED <<loop, failed, received, ran>>
  BY DEF Queued
<1>6. \A j \in DOMAIN queue : j \in Nat /\ j < n /\ queue[j].id \in Nat /\ queue[j].id < accepted + 1
  BY DEF Placed, Cargo, SentBefore
<1>7. \A c \in Carrying : legs[c].cmd.id \in Nat /\ legs[c].cmd.id < accepted + 1
  BY DEF Placed, Cargo, SentBefore
<1>8. \A i \in Received \cup failed : i \in Nat /\ i < accepted + 1
  BY DEF Placed, Cargo, SentBefore
<1>9. n \in Nat /\ n \notin DOMAIN queue
  BY DEF Placed
<1> HIDE DEF n
<1>10. SentBefore'
  BY <1>1, <1>3, <1>4, <1>5, <1>6, <1>7, <1>8 DEF SentBefore
<1>11. OnePlace'
  <2>1. \A j, k \in DOMAIN queue' : queue'[j].id = queue'[k].id => j = k
    BY <1>1, <1>4, <1>6 DEF Cargo, OnePlace
  <2>2. \A c \in Carrying' : \A j \in DOMAIN queue' : queue'[j].id # legs'[c].cmd.id
    BY <1>1, <1>3, <1>4, <1>7 DEF Cargo, OnePlace
  <2>3. \A j \in DOMAIN queue' : queue'[j].id \notin Received'
    BY <1>1, <1>4, <1>8 DEF Cargo, OnePlace
  <2> QED
    BY <1>3, <1>4, <2>1, <2>2, <2>3 DEF Cargo, OnePlace
<1>12. RanWasReceived' /\ RunsOnce' /\ HandedInOrder'
  BY <1>4, <1>5 DEF Cargo, RanWasReceived, RunsOnce, HandedInOrder
<1>13. FreshAreLast'
  <2> SUFFICES ASSUME NEW j \in DOMAIN queue', queue'[j].id \notin failed
               PROVE  /\ \A k \in DOMAIN queue' : k < j => queue'[k].id < queue'[j].id
                      /\ \A c \in Carrying : legs[c].cmd.id < queue'[j].id
                      /\ \A i \in Received \cup failed : i < queue'[j].id
    BY <1>3, <1>4, <1>5 DEF FreshAreLast
  <2>1. CASE j = n
    BY <1>1, <1>6, <1>7, <1>8, <1>9, <2>1
  <2>2. CASE j # n
    BY <1>1, <1>6, <1>9, <2>2 DEF Cargo, FreshAreLast
  <2> QED
    BY <2>1, <2>2
<1>14. NextIsLater'
  BY <1>3, <1>4, <1>5 DEF Cargo, NextIsLater
<1> QED
  BY <1>10, <1>11, <1>12, <1>13, <1>14 DEF Cargo

\* A poll takes a command that is after what the mod has received, and leaves
\* the ones that are after it.
LEMMA TakenByKeeps ==
  ASSUME Placed, Cargo, NEW c \in Conns, NEW j \in DOMAIN queue, TakenBy(c, j)
  PROVE  Cargo'
<1>1. \A k \in DOMAIN queue' : /\ queue'[k] = queue[j + k] /\ j + k \in DOMAIN queue
                               /\ k \in Nat /\ 0 < k
  BY AfterIsAQueue DEF TakenBy, Placed
<1>2. j \in Nat
  BY DEF Placed
<1>3. \A d \in Carrying' : \/ d = c /\ legs'[d].cmd = queue[j]
                           \/ d # c /\ d \in Carrying /\ legs'[d].cmd = legs[d].cmd
  BY DEF TakenBy, OthersCarryOn, Carrying
<1>4. Received' = Received
  BY DEF TakenBy, Received
<1>5. UNCHANGED <<accepted, loop, failed, received, ran>>
  BY DEF TakenBy
<1>6. SentBefore'
  BY <1>1, <1>3, <1>4, <1>5 DEF Cargo, SentBefore
<1>7. OnePlace'
  <2>1. \A k, m \in DOMAIN queue' : queue'[k].id = queue'[m].id => k = m
    BY <1>1, <1>2 DEF Cargo, OnePlace
  <2>2. \A d, e \in Carrying' : legs'[d].cmd.id = legs'[e].cmd.id => d = e
    BY <1>3 DEF Cargo, OnePlace
  <2>3. \A d \in Carrying' : \A k \in DOMAIN queue' : queue'[k].id # legs'[d].cmd.id
    BY <1>1, <1>2, <1>3 DEF Cargo, OnePlace
  <2>4. \A k \in DOMAIN queue' : queue'[k].id \notin Received'
    BY <1>1, <1>4 DEF Cargo, OnePlace
  <2>5. \A d \in Carrying' : legs'[d].cmd.id \notin Received'
    BY <1>3, <1>4 DEF Cargo, OnePlace
  <2> QED
    BY <2>1, <2>2, <2>3, <2>4, <2>5 DEF OnePlace
<1>8. RanWasReceived' /\ RunsOnce' /\ HandedInOrder'
  BY <1>4, <1>5 DEF Cargo, RanWasReceived, RunsOnce, HandedInOrder
<1>9. FreshAreLast'
  <2> SUFFICES ASSUME NEW k \in DOMAIN queue', queue'[k].id \notin failed
               PROVE  /\ \A m \in DOMAIN queue' : m < k => queue'[m].id < queue'[k].id
                      /\ \A d \in Carrying' : legs'[d].cmd.id < queue'[k].id
                      /\ \A i \in Received \cup failed : i < queue'[k].id
    BY <1>4, <1>5 DEF FreshAreLast
  <2>1. /\ j + k \in DOMAIN queue /\ queue'[k] = queue[j + k] /\ j < j + k
        /\ \A m \in DOMAIN queue : m < j + k => queue[m].id < queue[j + k].id
        /\ \A d \in Carrying : legs[d].cmd.id < queue[j + k].id
        /\ \A i \in Received \cup failed : i < queue[j + k].id
    BY <1>1, <1>2 DEF Cargo, FreshAreLast
  <2>2. \A m \in DOMAIN queue' : m < k => queue'[m].id < queue'[k].id
    BY <1>1, <1>2, <2>1
  <2>3. \A d \in Carrying' : legs'[d].cmd.id < queue'[k].id
    BY <1>3, <2>1
  <2> QED
    BY <2>1, <2>2, <2>3
<1>10. NextIsLater'
  BY <1>3, <1>4, <1>5 DEF Cargo, NextIsLater, FreshAreLast
<1> QED
  BY <1>6, <1>7, <1>8, <1>9, <1>10 DEF Cargo

\* A command put back was sent before every one that was never given back.
LEMMA PutBackKeeps ==
  ASSUME Placed, Cargo, NEW c \in Conns, PutBack(c)
  PROVE  Cargo'
<1> DEFINE cmd == legs[c].cmd
<1>1. c \in Carrying /\ cmd \in Commands /\ cmd.id \in Nat
  BY DEF PutBack, Placed
<1>12. \/ queue' = queue
       \/ /\ DOMAIN queue' = 1..(Len(queue) + 1)
          /\ queue'[1] = cmd
          /\ \A k \in 2..(Len(queue) + 1) : queue'[k] = queue[k - 1] /\ k - 1 \in DOMAIN queue
  BY <1>1, RequeueIsAQueue, Zenon DEF PutBack, Placed
<1>2. ASSUME NEW j \in DOMAIN queue'
      PROVE  \/ j \in DOMAIN queue /\ queue' = queue
             \/ j = 1 /\ queue'[j] = cmd
             \/ /\ queue' # queue
                /\ j \in Nat /\ 1 < j /\ j - 1 \in DOMAIN queue /\ queue'[j] = queue[j - 1]
  <2>1. CASE queue' = queue
    BY <2>1
  <2>2. CASE queue' # queue
    <3>1. j \in 1..(Len(queue) + 1) /\ Len(queue) \in Nat
      BY <1>12, <2>2 DEF Placed
    <3>2. CASE j = 1
      BY <1>12, <2>2, <3>2
    <3>3. CASE j # 1
      <4>1. j \in 2..(Len(queue) + 1) /\ j \in Nat /\ 1 < j
        BY <3>1, <3>3
      <4> QED
        BY <1>12, <2>2, <4>1
    <3> QED
      BY <3>2, <3>3
  <2> QED
    BY <2>1, <2>2
<1>3. \A d \in Carrying' : d # c /\ d \in Carrying /\ legs'[d].cmd = legs[d].cmd
  BY DEF PutBack, OthersCarryOn, Carrying
<1>4. Received' = Received /\ failed' = failed \cup {cmd.id}
  BY DEF PutBack, Received
<1>5. UNCHANGED <<accepted, received, ran>>
  BY DEF PutBack
<1>6. \A j \in DOMAIN queue' : \/ queue'[j] = cmd
                               \/ \E k \in DOMAIN queue : queue'[j] = queue[k]
  BY <1>2
<1>7. SentBefore'
  BY <1>1, <1>3, <1>4, <1>5, <1>6 DEF Cargo, SentBefore
<1>8. OnePlace'
  <2>1. \A j, k \in DOMAIN queue' : queue'[j].id = queue'[k].id => j = k
    <3>1. CASE queue' = queue
      BY <3>1 DEF Cargo, OnePlace
    <3>2. ASSUME queue' # queue, NEW j \in DOMAIN queue', NEW k \in DOMAIN queue',
                 queue'[j].id = queue'[k].id
          PROVE  j = k
      <4>1. \A p \in DOMAIN queue : queue[p].id # cmd.id
        BY <1>1 DEF Cargo, OnePlace
      <4>2. \A p, q \in DOMAIN queue : queue[p].id = queue[q].id => p = q
        BY DEF Cargo, OnePlace
      <4>3. \/ j = 1 /\ queue'[j] = cmd
            \/ j \in Nat /\ j - 1 \in DOMAIN queue /\ queue'[j] = queue[j - 1]
        BY <1>2, <3>2
      <4>4. \/ k = 1 /\ queue'[k] = cmd
            \/ k \in Nat /\ k - 1 \in DOMAIN queue /\ queue'[k] = queue[k - 1]
        BY <1>2, <3>2
      <4> QED
        BY <3>2, <4>1, <4>2, <4>3, <4>4
    <3> QED
      BY <3>1, <3>2
  <2>2. \A d, e \in Carrying' : legs'[d].cmd.id = legs'[e].cmd.id => d = e
    BY <1>3 DEF Cargo, OnePlace
  <2>3. \A d \in Carrying' : \A k \in DOMAIN queue' : queue'[k].id # legs'[d].cmd.id
    BY <1>1, <1>3, <1>6 DEF Cargo, OnePlace
  <2>4. \A k \in DOMAIN queue' : queue'[k].id \notin Received'
    BY <1>1, <1>4, <1>6 DEF Cargo, OnePlace
  <2>5. \A d \in Carrying' : legs'[d].cmd.id \notin Received'
    BY <1>3, <1>4 DEF Cargo, OnePlace
  <2> QED
    BY <2>1, <2>2, <2>3, <2>4, <2>5 DEF OnePlace
<1>9. RanWasReceived' /\ RunsOnce' /\ HandedInOrder'
  BY <1>4, <1>5 DEF Cargo, RanWasReceived, RunsOnce, HandedInOrder
<1>10. FreshAreLast'
  <2> SUFFICES ASSUME NEW j \in DOMAIN queue', queue'[j].id \notin failed'
               PROVE  /\ \A k \in DOMAIN queue' : k < j => queue'[k].id < queue'[j].id
                      /\ \A d \in Carrying' : legs'[d].cmd.id < queue'[j].id
                      /\ \A i \in Received' \cup failed' : i < queue'[j].id
    BY DEF FreshAreLast
  <2>1. queue'[j] # cmd /\ queue'[j].id \notin failed
    BY <1>4
  <2>2. PICK p \in DOMAIN queue :
          /\ queue'[j] = queue[p]
          /\ \/ queue' = queue /\ p = j
             \/ queue' # queue /\ p = j - 1 /\ j \in Nat /\ 1 < j
    BY <1>2, <2>1
  <2>3. /\ \A k \in DOMAIN queue : k < p => queue[k].id < queue[p].id
        /\ \A d \in Carrying : legs[d].cmd.id < queue[p].id
        /\ \A i \in Received \cup failed : i < queue[p].id
    BY <2>1, <2>2 DEF Cargo, FreshAreLast
  <2>4. ASSUME NEW k \in DOMAIN queue', k < j PROVE queue'[k].id < queue'[j].id
    <3>1. CASE queue' = queue
      BY <2>2, <2>3, <2>4, <3>1
    <3>2. CASE queue' # queue
      <4>1. p = j - 1 /\ p \in Nat
        BY <2>2, <3>2 DEF Placed
      <4>2. CASE queue'[k] = cmd
        BY <1>1, <2>2, <2>3, <4>2
      <4>3. CASE k \in Nat /\ k - 1 \in DOMAIN queue /\ queue'[k] = queue[k - 1]
        <5>1. k - 1 < p
          BY <2>2, <2>4, <3>2, <4>1, <4>3
        <5> QED
          BY <2>2, <2>3, <4>3, <5>1
      <4> QED
        BY <1>2, <3>2, <4>2, <4>3
    <3> QED
      BY <3>1, <3>2
  <2> QED
    BY <1>1, <1>3, <1>4, <2>2, <2>3, <2>4
<1>11. NextIsLater'
  <2>1. \A d \in Carrying' : loop'.conn = d => loop.conn = d
    BY <1>3, Bounds DEF PutBack, Carrying
  <2> QED
    BY <1>3, <1>4, <2>1 DEF Cargo, NextIsLater
<1> QED
  BY <1>7, <1>8, <1>9, <1>10, <1>11 DEF Cargo

\* What the mod reads it had not received, and it is after all it had, unless
\* its response failed before.
LEMMA ReadFromKeeps ==
  ASSUME Placed, Cargo, NEW c \in Conns, ReadFrom(c)
  PROVE  Cargo'
<1> DEFINE cmd == legs[c].cmd
           n   == Len(received) + 1
<1>1. c \in Carrying /\ loop.conn = c /\ cmd \in Commands /\ cmd.id \in Nat
  BY DEF ReadFrom, Placed
<1>2. received' = Append(received, cmd.id) /\ Len(received) \in Nat
      /\ DOMAIN received = 1..Len(received)
  BY LenProperties DEF ReadFrom, RunCommand, Placed
<1>3. /\ DOMAIN received' = 1..n /\ received'[n] = cmd.id
      /\ \A i \in DOMAIN received : i \in DOMAIN received' /\ received'[i] = received[i]
      /\ \A i \in DOMAIN received' : i \in DOMAIN received \/ i = n
      /\ n \notin DOMAIN received /\ n \in Nat /\ n \in DOMAIN received'
  BY <1>1, <1>2 DEF Placed
<1> HIDE DEF n
<1>4. Received' = Received \cup {cmd.id}
  BY <1>3 DEF Received
<1>5. \A d \in Carrying' : d # c /\ d \in Carrying /\ legs'[d].cmd = legs[d].cmd
  BY DEF ReadFrom, OthersCarryOn, Carrying
<1>6. UNCHANGED <<queue, accepted, failed>> /\ loop' = Ready
  BY DEF ReadFrom
<1>7. cmd.id \notin Received
  BY <1>1 DEF Cargo, OnePlace
<1>8. SentBefore'
  BY <1>1, <1>4, <1>5, <1>6 DEF Cargo, SentBefore
<1>9. OnePlace'
  BY <1>1, <1>4, <1>5, <1>6 DEF Cargo, OnePlace
<1>10. RanWasReceived' /\ RunsOnce'
  <2> DEFINE r == [cmd EXCEPT !.turn = turn]
             m == Len(ran) + 1
  <2>1. r.id = cmd.id
    BY <1>1 DEF Commands
  <2>2. ran' = ran \/ ran' = Append(ran, r)
    BY DEF ReadFrom, RunCommand
  <2> HIDE DEF r
  <2>3. CASE ran' = ran
    BY <1>4, <2>3 DEF Cargo, RanWasReceived, RunsOnce
  <2>4. CASE ran' = Append(ran, r)
    <3>1. /\ Len(ran) \in Nat /\ DOMAIN ran = 1..Len(ran)
          /\ DOMAIN ran' = 1..m /\ ran'[m] = r
          /\ \A i \in DOMAIN ran : ran'[i] = ran[i]
      BY <2>4, LenProperties DEF Placed
    <3>2. \A i \in DOMAIN ran' : \/ i \in DOMAIN ran /\ ran'[i] = ran[i]
                                 \/ i = m /\ ran'[i] = r
      BY <3>1
    <3> QED
      BY <1>4, <1>7, <2>1, <3>2 DEF Cargo, RanWasReceived, RunsOnce
  <2> QED
    BY <2>2, <2>3, <2>4
<1>11. FreshAreLast'
  BY <1>1, <1>4, <1>5, <1>6 DEF Cargo, FreshAreLast
<1>12. NextIsLater'
  BY <1>5, <1>6, Bounds DEF NextIsLater, Carrying, Ready
<1>13. HandedInOrder'
  <2> SUFFICES ASSUME NEW i \in DOMAIN received', NEW j \in DOMAIN received',
                      i < j, received'[i] > received'[j], received'[j] \notin failed
               PROVE  FALSE
    BY <1>6 DEF HandedInOrder
  <2>1. CASE j \in DOMAIN received
    <3>1. i \in DOMAIN received
      BY <1>2, <1>3, <2>1
    <3> QED
      BY <1>3, <2>1, <3>1 DEF Cargo, HandedInOrder
  <2>2. CASE j = n
    <3>1. i \in DOMAIN received /\ received[i] \in Received /\ received'[i] = received[i]
      BY <1>3, <2>2 DEF Received
    <3>2. received[i] < cmd.id
      BY <1>1, <1>3, <2>2, <3>1 DEF Cargo, NextIsLater
    <3> QED
      BY <1>1, <1>3, <2>2, <3>1, <3>2 DEF Placed
  <2> QED
    BY <1>3, <2>1, <2>2
<1> QED
  BY <1>8, <1>9, <1>10, <1>11, <1>12, <1>13 DEF Cargo

LEMMA CargoInit == Init => Cargo
<1> SUFFICES ASSUME Init PROVE Cargo
  OBVIOUS
<1>0. queue = <<>> /\ received = <<>> /\ ran = <<>> /\ failed = {}
  BY DEF Init
<1>1. DOMAIN queue = {} /\ DOMAIN received = {} /\ DOMAIN ran = {} /\ failed = {}
  BY <1>0
<1>2. Carrying = {} /\ Received = {}
  BY <1>1, FreeIsALeg DEF Init, Carrying, Received
<1> QED
  BY <1>1, <1>2 DEF Cargo, SentBefore, OnePlace, RanWasReceived, RunsOnce, FreshAreLast,
                    NextIsLater, HandedInOrder

LEMMA CargoStep == CommandsTypeOK /\ Cargo /\ [Next]_vars => Cargo'
<1> SUFFICES ASSUME CommandsTypeOK, Cargo, [Next]_vars PROVE Cargo'
  OBVIOUS
<1>1. Moves /\ Placed
  BY Carriage, TypesPlace
<1> QED
  BY <1>1, NothingMovesKeeps, QueuedKeeps, TakenByKeeps, PutBackKeeps, ReadFromKeeps DEF Moves

\* However often a response fails, a command is put back and read again, and
\* by however many evaluations of the mod, its words are given to the agent
\* once (mod-registry.ts, requeue: "A duplicate prompt is the agent running
\* the same words twice").
THEOREM CommandsRunOnce == Spec => []RunsOnce
<1>1. Init => CommandsTypeOK /\ Cargo
  BY TypesInit, CargoInit
<1>2. CommandsTypeOK /\ Cargo /\ [Next]_vars => CommandsTypeOK' /\ Cargo'
  BY TypesStep, CargoStep
<1>3. Cargo => RunsOnce
  BY DEF Cargo
<1> QED
  BY <1>1, <1>2, <1>3, PTL DEF Spec

\* The mod is handed commands in the order they were sent, except one whose
\* own response did not leave (mod-registry.ts, enqueue, dequeue and requeue;
\* mod-socket-server.ts, pollResponse).
THEOREM CommandsKeepTheirOrder == Spec => []HandedInOrder
<1>1. Init => CommandsTypeOK /\ Cargo
  BY TypesInit, CargoInit
<1>2. CommandsTypeOK /\ Cargo /\ [Next]_vars => CommandsTypeOK' /\ Cargo'
  BY TypesStep, CargoStep
<1>3. Cargo => HandedInOrder
  BY DEF Cargo
<1> QED
  BY <1>1, <1>2, <1>3, PTL DEF Spec

-----------------------------------------------------------------------------
(* Stops, and the turns they name.                                         *)

\* What a step does to the count of turns and to what is said of them.
LEMMA TurnsStep ==
  CommandsTypeOK /\ TurnsHaveBegun /\ [Next]_vars => TurnsHaveBegun' /\ turns <= turns'
<1> SUFFICES ASSUME CommandsTypeOK, TurnsHaveBegun, [Next]_vars
             PROVE  TurnsHaveBegun' /\ turns <= turns'
  OBVIOUS
<1>0. BrokerTypes /\ TerminalTypes
  BY TypeParts
<1>1. /\ turns \in Nat /\ turn \in Nat /\ row.turn \in Nat /\ loop.turn \in Nat
      /\ known \in {None, turn} /\ None = 0
  <2>1. \A t \in Turns \cup {None} : t \in Nat
    BY DEF Turns, None
  <2>2. row.turn \in Turns \cup {None}
    BY <1>0 DEF BrokerTypes, Rows
  <2>3. /\ turn \in Turns \cup {None} /\ loop.turn \in Turns \cup {None}
        /\ turns \in 0..MaxTurns /\ known \in {None, turn}
    BY <1>0 DEF TerminalTypes
  <2>4. turns \in Nat
    BY <2>3, Bounds
  <2> QED
    BY <2>1, <2>2, <2>3, <2>4 DEF None
<1>2. /\ events \in Seq(Events)
      /\ \A i \in DOMAIN events : events[i] \in Events /\ events[i].turn \in Nat
      /\ \A e \in stray : e \in Events /\ e.turn \in Nat
  <2>1. \A e \in Events : e.turn \in Nat
    BY DEF Events, Turns, None
  <2>2. \A i \in DOMAIN events : events[i] \in Events
    BY <1>0, ElementOfSeq, LenProperties DEF TerminalTypes
  <2> QED
    BY <1>0, <2>1, <2>2 DEF TerminalTypes
<1>3. Ready.turn = 0 /\ Off.turn = 0 /\ NoRow.turn = 0
  BY DEF Ready, Off, NoRow, None
<1>4. ASSUME UNCHANGED <<turn, turns, events, stray>>, row'.turn \in {row.turn, 0},
             loop'.turn \in {loop.turn, 0, known}
      PROVE  TurnsHaveBegun' /\ turns <= turns'
  BY <1>1, <1>4 DEF TurnsHaveBegun
<1>5. ASSUME UNCHANGED <<turn, turns, events, stray, row, loop>>
      PROVE  TurnsHaveBegun' /\ turns <= turns'
  BY <1>1, <1>5 DEF TurnsHaveBegun
<1>6. ASSUME NEW kind, NEW t \in Nat, Report(kind, t), NEW n \in Nat, t <= n, turns <= n
      PROVE  \A i \in DOMAIN events' : events'[i].turn <= n
  <2>1. \A i \in DOMAIN events : events[i].turn <= n
    BY <1>1, <1>2, <1>6 DEF TurnsHaveBegun
  <2>2. CASE events' = events
    BY <2>1, <2>2
  <2>3. CASE events' = Append(events, [kind |-> kind, turn |-> t, ev |-> ev])
    <3>1. \A i \in DOMAIN events' :
            \/ i \in DOMAIN events /\ events'[i] = events[i]
            \/ events'[i] = [kind |-> kind, turn |-> t, ev |-> ev]
      BY <1>2, <2>3
    <3> QED
      BY <1>6, <2>1, <3>1
  <2> QED
    BY <1>6, <2>2, <2>3 DEF Report
<1>7. CASE TurnStarts
  <2>1. /\ turns' = turns + 1 /\ turn' = turns' /\ row' = row /\ loop' = loop /\ stray' = stray
        /\ Report("turn.start", turns')
    BY <1>7 DEF TurnStarts, brokerVars
  <2>2. \A i \in DOMAIN events' : events'[i].turn <= turns + 1
    BY <1>1, <1>6, <2>1
  <2> QED
    BY <1>1, <1>2, <2>1, <2>2 DEF TurnsHaveBegun
<1>8. CASE TurnSteps
  <2>1. /\ turns' = turns /\ turn' = turn /\ row' = row /\ loop' = loop /\ stray' = stray
        /\ Report("turn.start", turn)
    BY <1>8 DEF TurnSteps, brokerVars
  <2>2. \A i \in DOMAIN events' : events'[i].turn <= turns
    BY <1>1, <1>6, <2>1 DEF TurnsHaveBegun
  <2> QED
    BY <1>1, <2>1, <2>2 DEF TurnsHaveBegun
<1>9. CASE TurnCompletes
  <2>1. /\ turns' = turns /\ turn' = 0 /\ row' = row /\ loop' = loop /\ stray' = stray
        /\ Report("turn.complete", 0)
    BY <1>1, <1>9 DEF TurnCompletes, brokerVars
  <2>2. \A i \in DOMAIN events' : events'[i].turn <= turns
    BY <1>1, <1>6, <2>1
  <2> QED
    BY <1>1, <2>1, <2>2 DEF TurnsHaveBegun
<1>10. CASE SessionEnds
  <2>1. /\ turns' = turns /\ turn' = turn /\ row' = row /\ loop' = loop /\ stray' = stray
        /\ Report("session.end", 0)
    BY <1>1, <1>10 DEF SessionEnds, brokerVars
  <2>2. \A i \in DOMAIN events' : events'[i].turn <= turns
    BY <1>1, <1>6, <2>1
  <2> QED
    BY <1>1, <2>1, <2>2 DEF TurnsHaveBegun
<1>11. ASSUME NEW e \in Events, e.turn <= turns, Noted(e),
              UNCHANGED <<turn, turns, loop>>,
              events' = events \/ (events # <<>> /\ events' = Tail(events)),
              stray' = stray \/ stray' = {}
       PROVE  TurnsHaveBegun' /\ turns <= turns'
  <2>1. row'.turn = row.turn \/ row'.turn = 0 \/ row'.turn = e.turn
    BY <1>0, <1>3, <1>11 DEF Noted, BrokerTypes, Rows
  <2>2. \A i \in DOMAIN events' : events'[i].turn <= turns
    BY <1>2, <1>11, HeadTailProperties, LenProperties DEF TurnsHaveBegun
  <2> QED
    BY <1>1, <1>11, <2>1, <2>2 DEF TurnsHaveBegun
<1>12. CASE EventArrives
  <2>1. Head(events) \in Events /\ Head(events).turn <= turns
    BY <1>2, <1>12, HeadTailProperties DEF EventArrives, TurnsHaveBegun
  <2> QED
    BY <1>11, <1>12, <2>1 DEF EventArrives
<1>13. CASE EventGivenUp
  <2>1. Head(events).turn <= turns
    BY <1>2, <1>13, HeadTailProperties DEF EventGivenUp, TurnsHaveBegun
  <2>2. \A i \in DOMAIN events' : events'[i].turn <= turns
    BY <1>2, <1>13, HeadTailProperties, LenProperties DEF EventGivenUp, TurnsHaveBegun
  <2>3. \A e \in stray' : e.turn <= turns
    BY <1>13, <2>1 DEF EventGivenUp, TurnsHaveBegun
  <2> QED
    BY <1>1, <1>13, <2>2, <2>3 DEF EventGivenUp, TurnsHaveBegun, brokerVars
<1>14. CASE StrayArrives
  <2>1. PICK e \in stray : Noted(e)
    BY <1>14 DEF StrayArrives
  <2> QED
    BY <1>2, <1>11, <1>14, <2>1 DEF StrayArrives, TurnsHaveBegun
<1>15. CASE Dies
  <2>1. row'.turn = row.turn
    BY <1>0, <1>15 DEF Dies, BrokerTypes, Rows
  <2>2. loop'.turn = 0 /\ turn' = 0 /\ events' = <<>> /\ stray' = {} /\ turns' = turns
    BY <1>1, <1>3, <1>15 DEF Dies
  <2> QED
    BY <1>1, <2>1, <2>2 DEF TurnsHaveBegun
<1>16. ASSUME Evaluated, UNCHANGED <<brokerVars, turn, turns, stray>>
       PROVE  TurnsHaveBegun' /\ turns <= turns'
  <2>1. loop'.turn = 0 /\ events' = <<>> /\ row' = row
    BY <1>3, <1>16 DEF Evaluated, brokerVars
  <2> QED
    BY <1>1, <1>16, <2>1 DEF TurnsHaveBegun
<1>17. CASE LoopRegisters
  BY <1>4, <1>17 DEF LoopRegisters, brokerVars
<1>18. CASE RegisterArrives
  <2>1. /\ row'.turn = loop.turn /\ loop'.turn = 0
        /\ UNCHANGED <<turn, turns, events, stray>>
    BY <1>3, <1>18 DEF RegisterArrives
  <2> QED
    BY <1>1, <2>1 DEF TurnsHaveBegun
<1>19. ASSUME NEW c \in Conns, LoopPolls(c) PROVE TurnsHaveBegun' /\ turns <= turns'
  <2>1. loop'.turn \in {loop.turn, 0}
    BY <1>1, <1>19 DEF LoopPolls
  <2> QED
    BY <1>4, <1>19, <2>1 DEF LoopPolls
<1>20. ASSUME NEW c \in Conns, ReadReply(c) PROVE TurnsHaveBegun' /\ turns <= turns'
  <2>1. loop'.turn \in {loop.turn, 0}
    BY <1>3, <1>20 DEF ReadReply
  <2> QED
    BY <1>4, <1>20, <2>1 DEF ReadReply
<1>21. ASSUME NEW c \in Conns, NEW r, Answered(c, r), UNCHANGED <<turn, turns, events, stray, row>>
       PROVE  TurnsHaveBegun' /\ turns <= turns'
  <2>1. loop'.turn \in {loop.turn, 0}
    BY <1>3, <1>21 DEF Answered
  <2> QED
    BY <1>4, <1>21, <2>1
<1>22. ASSUME NEW c \in Conns, ResumePoll(c) PROVE TurnsHaveBegun' /\ turns <= turns'
  BY <1>5, <1>21, <1>22 DEF ResumePoll
<1>23. CASE AppSends
  BY <1>5, <1>23 DEF AppSends, SendWords, SendStop, Enqueue, terminalVars
<1>24. CASE BrokerSteps
  BY <1>5, <1>21, <1>24 DEF BrokerSteps, WaitEnds, WriteCompletes, WriteFails, terminalVars
<1>25. CASE Sweep
  BY <1>3, <1>4, <1>25 DEF Sweep, terminalVars
<1>26. CASE Outside
  BY <1>5, <1>15, <1>16, <1>21, <1>25, <1>26
     DEF Outside, Ages, Launch, Reload, ConnCloses, terminalVars
<1>27. CASE Hooks
  BY <1>7, <1>8, <1>9, <1>10, <1>27 DEF Hooks
<1>28. CASE LoopMeetsSession
  BY <1>5, <1>28 DEF LoopMeetsSession, brokerVars
<1>29. CASE ModSends
  BY <1>12, <1>13, <1>14, <1>17, <1>18, <1>19, <1>20, <1>28, <1>29 DEF ModSends
<1>30. CASE UNCHANGED vars
  BY <1>5, <1>30 DEF vars, brokerVars, terminalVars
<1> QED
  BY <1>22, <1>23, <1>24, <1>26, <1>27, <1>29, <1>30 DEF Next

Stops == SentBefore /\ TurnsHaveBegun /\ StopsNameATurn /\ StopsNoLaterTurn
         /\ \A i \in DOMAIN ran : ran[i].id <= accepted

\* A Stop keeps the turn it names wherever it goes, and is carried out in that
\* turn or not at all.
LEMMA StopsStep == CommandsTypeOK /\ Cargo /\ Stops /\ [Next]_vars => Stops'
<1> SUFFICES ASSUME CommandsTypeOK, Cargo, Stops, [Next]_vars PROVE Stops'
  OBVIOUS
<1>1. Moves /\ Placed /\ HistoryTypes /\ TerminalTypes /\ BrokerTypes
  BY Carriage, TypesPlace, TypeParts
<1>2. SentBefore' /\ RanWasReceived' /\ TurnsHaveBegun'
  BY CargoStep, TurnsStep DEF Cargo, Stops
<1>3. \A i \in DOMAIN ran' : ran'[i].id <= accepted'
  BY <1>2 DEF SentBefore, RanWasReceived
<1>4. StopsNameATurn' /\ StopsNoLaterTurn'
  <2>1. CASE NothingMoves
    <3>1. /\ \A j \in DOMAIN queue' : j \in DOMAIN queue /\ queue'[j] = queue[j]
          /\ \A c \in Carrying' : c \in Carrying /\ legs'[c].cmd = legs[c].cmd
          /\ sentIn' = sentIn /\ ran' = ran
      BY <2>1, EmptySeq DEF NothingMoves, Carrying
    <3> QED
      BY <3>1 DEF Stops, StopsNameATurn, StopsNoLaterTurn
  <2>2. ASSUME NEW op, NEW t \in Turns \cup {None}, Queued(op, t)
        PROVE  StopsNameATurn' /\ StopsNoLaterTurn'
    <3> DEFINE new == [id |-> accepted + 1, op |-> op, turn |-> t]
    <3>1. /\ accepted \in Nat /\ accepted + 1 \in Ids
          /\ \A i \in Ids \ {accepted + 1} : sentIn'[i] = sentIn[i]
          /\ sentIn'[accepted + 1] = turns
      BY <1>1, <2>2, Bounds DEF Queued, HistoryTypes, BrokerTypes, Ids
    <3>2. \A i \in Nat : i <= accepted => i # accepted + 1
      BY <3>1
    <3>3. op = "stop" => t \in 1..turns
      <4>1. turns \in 0..MaxTurns
        BY <1>1 DEF TerminalTypes
      <4>2. t # None => t \in Nat /\ 1 <= t
        BY DEF Turns
      <4>3. op = "stop" => t = row.turn /\ t # None /\ row.turn <= turns
        BY <2>2 DEF Queued, Stops, TurnsHaveBegun
      <4> QED
        BY <4>1, <4>2, <4>3, Bounds
    <3>4. \A j \in DOMAIN queue' : queue'[j] = new \/ (j \in DOMAIN queue /\ queue'[j] = queue[j])
      <4>1. queue' = Append(queue, new)
        BY <2>2 DEF Queued
      <4> HIDE DEF new
      <4>2. /\ Len(queue) \in Nat /\ DOMAIN queue = 1..Len(queue)
            /\ DOMAIN queue' = 1..(Len(queue) + 1) /\ queue'[Len(queue) + 1] = new
            /\ \A j \in DOMAIN queue : queue'[j] = queue[j]
        BY <1>1, <4>1 DEF Placed
      <4> QED
        BY <4>2
    <3>5. \A cmd \in Commands : cmd.id \in Ids /\ cmd.id \in Nat
      BY DEF Commands, Ids
    <3>6. \A j \in DOMAIN queue : sentIn'[queue[j].id] = sentIn[queue[j].id]
      BY <1>1, <3>1, <3>2, <3>5 DEF Placed, Stops, SentBefore
    <3>7. \A c \in Carrying : sentIn'[legs[c].cmd.id] = sentIn[legs[c].cmd.id]
      BY <1>1, <3>1, <3>2, <3>5 DEF Placed, Stops, SentBefore
    <3>8. \A i \in DOMAIN ran : sentIn'[ran[i].id] = sentIn[ran[i].id]
      BY <1>1, <3>1, <3>2, <3>5, ElementOfSeq, LenProperties DEF HistoryTypes, Stops
    <3>9. Carrying' = Carrying /\ \A c \in Carrying : legs'[c].cmd = legs[c].cmd
      BY <2>2 DEF Queued, Carrying
    <3>10. new.id = accepted + 1 /\ new.op = op /\ new.turn = t
      OBVIOUS
    <3> HIDE DEF new
    <3>11. StopsNameATurn'
      BY <3>1, <3>3, <3>4, <3>6, <3>7, <3>9, <3>10 DEF Stops, StopsNameATurn
    <3> QED
      BY <2>2, <3>8, <3>11 DEF Queued, Stops, StopsNoLaterTurn
  <2>3. ASSUME NEW c \in Conns, NEW j \in DOMAIN queue, TakenBy(c, j)
        PROVE  StopsNameATurn' /\ StopsNoLaterTurn'
    <3>1. \A k \in DOMAIN queue' : queue'[k] = queue[j + k] /\ j + k \in DOMAIN queue
      BY <1>1, <2>3, AfterIsAQueue DEF TakenBy, Placed
    <3>2. \A d \in Carrying' : \/ legs'[d].cmd = queue[j]
                               \/ d \in Carrying /\ legs'[d].cmd = legs[d].cmd
      BY <2>3 DEF TakenBy, OthersCarryOn, Carrying
    <3>3. sentIn' = sentIn /\ ran' = ran
      BY <2>3 DEF TakenBy
    <3> QED
      BY <3>1, <3>2, <3>3 DEF Stops, StopsNameATurn, StopsNoLaterTurn
  <2>4. ASSUME NEW c \in Conns, PutBack(c) PROVE StopsNameATurn' /\ StopsNoLaterTurn'
    <3>1. c \in Carrying /\ legs[c].cmd \in Commands
      BY <1>1, <2>4 DEF PutBack, Placed
    <3>2. \A k \in DOMAIN queue' : \/ queue'[k] = legs[c].cmd
                                   \/ \E m \in DOMAIN queue : queue'[k] = queue[m]
      <4>1. CASE queue' = queue
        BY <4>1
      <4>2. CASE queue' # queue
        <5>1. /\ DOMAIN queue' = 1..(Len(queue) + 1)
              /\ queue'[1] = legs[c].cmd
              /\ \A k \in 2..(Len(queue) + 1) :
                   queue'[k] = queue[k - 1] /\ k - 1 \in DOMAIN queue
          BY <1>1, <2>4, <3>1, <4>2, RequeueIsAQueue, Zenon DEF PutBack, Placed
        <5>2. \A k \in DOMAIN queue' : k = 1 \/ k \in 2..(Len(queue) + 1)
          BY <1>1, <5>1 DEF Placed
        <5> QED
          BY <5>1, <5>2
      <4> QED
        BY <4>1, <4>2
    <3>3. \A d \in Carrying' : d \in Carrying /\ legs'[d].cmd = legs[d].cmd
      BY <2>4 DEF PutBack, OthersCarryOn, Carrying
    <3>4. sentIn' = sentIn /\ ran' = ran
      BY <2>4 DEF PutBack
    <3> QED
      BY <3>1, <3>2, <3>3, <3>4 DEF Stops, StopsNameATurn, StopsNoLaterTurn
  <2>5. ASSUME NEW c \in Conns, ReadFrom(c) PROVE StopsNameATurn' /\ StopsNoLaterTurn'
    <3> DEFINE cmd == legs[c].cmd
               r   == [cmd EXCEPT !.turn = turn]
    <3>1. c \in Carrying /\ cmd \in Commands /\ sentIn' = sentIn /\ queue' = queue
      BY <1>1, <2>5 DEF ReadFrom, Placed
    <3>2. \A d \in Carrying' : d \in Carrying /\ legs'[d].cmd = legs[d].cmd
      BY <2>5 DEF ReadFrom, OthersCarryOn, Carrying
    <3>3. StopsNameATurn'
      BY <3>1, <3>2 DEF Stops, StopsNameATurn
    <3>4. r.id = cmd.id /\ r.op = cmd.op /\ r.turn = turn
      BY <3>1 DEF Commands
    <3>5. CASE ran' = ran
      BY <3>1, <3>3, <3>5 DEF Stops, StopsNoLaterTurn
    <3>6. CASE ran' # ran
      <4>1. ran' = Append(ran, r) /\ (cmd.op = "stop" => cmd.turn = known)
        BY <2>5, <3>6 DEF ReadFrom, RunCommand
      <4>2. cmd.op = "stop" => turn \in 1..sentIn[cmd.id]
        <5> SUFFICES ASSUME cmd.op = "stop" PROVE turn \in 1..sentIn[cmd.id]
          OBVIOUS
        <5>1. cmd.turn \in 1..sentIn[cmd.id]
          BY <3>1 DEF Stops, StopsNameATurn
        <5>2. known \in {None, turn} /\ cmd.turn = known /\ None = 0
          BY <1>1, <4>1 DEF TerminalTypes, None
        <5>3. cmd.turn # 0
          BY <5>1
        <5> QED
          BY <5>1, <5>2, <5>3
      <4> HIDE DEF r
      <4>3. \A i \in DOMAIN ran' : ran'[i] = r \/ (i \in DOMAIN ran /\ ran'[i] = ran[i])
        <5>1. /\ Len(ran) \in Nat /\ DOMAIN ran = 1..Len(ran)
              /\ DOMAIN ran' = 1..(Len(ran) + 1) /\ ran'[Len(ran) + 1] = r
              /\ \A i \in DOMAIN ran : ran'[i] = ran[i]
          BY <1>1, <4>1, LenProperties DEF Placed
        <5> QED
          BY <5>1
      <4> QED
        BY <3>1, <3>3, <3>4, <4>2, <4>3 DEF Stops, StopsNoLaterTurn
    <3> QED
      BY <3>5, <3>6
  <2> QED
    BY <1>1, <2>1, <2>2, <2>3, <2>4, <2>5 DEF Moves
<1> QED
  BY <1>2, <1>3, <1>4 DEF Stops

LEMMA StopsInit == Init => Stops
<1> SUFFICES ASSUME Init PROVE Stops
  OBVIOUS
<1>1. DOMAIN queue = {} /\ DOMAIN ran = {} /\ DOMAIN events = {} /\ stray = {}
  <2>1. queue = <<>> /\ ran = <<>> /\ events = <<>> /\ stray = {}
    BY DEF Init
  <2> QED
    BY <2>1
<1>2. Carrying = {}
  BY FreeIsALeg DEF Init, Carrying
<1>3. SentBefore
  BY CargoInit DEF Cargo
<1>4. TurnsHaveBegun
  <2>1. turn = 0 /\ turns = 0 /\ row.turn = 0 /\ loop.turn = 0
    BY DEF Init, Ready, NoRow, None
  <2> QED
    BY <1>1, <2>1 DEF TurnsHaveBegun
<1> QED
  BY <1>1, <1>2, <1>3, <1>4 DEF Stops, StopsNameATurn, StopsNoLaterTurn

\* A Stop ends no turn that began after it was sent, however late it comes and
\* whatever events of the turns between were lost (mod-registry.ts, the turn a
\* row names; register.js, runCommand's comparison with state.turnId).
THEOREM StopsKeepToTheirTurn == Spec => []StopsNoLaterTurn
<1>1. Init => CommandsTypeOK /\ Cargo /\ Stops
  BY TypesInit, CargoInit, StopsInit
<1>2. CommandsTypeOK /\ Cargo /\ Stops /\ [Next]_vars => CommandsTypeOK' /\ Cargo' /\ Stops'
  BY TypesStep, CargoStep, StopsStep
<1>3. Stops => StopsNoLaterTurn
  BY DEF Stops
<1> QED
  BY <1>1, <1>2, <1>3, PTL DEF Spec

-----------------------------------------------------------------------------
(* Parked polls.                                                           *)

\* A poll of the registration that waits and was not woken.
Waits(c) == legs[c].st = "parked" /\ legs[c].open /\ legs[c].gen = row.gen /\ ~legs[c].woken

\* A queue gets a command only together with the wakeup of every parked poll.
LEMMA ParkedStep == CommandsTypeOK /\ ParkedOverEmpty /\ [Next]_vars => ParkedOverEmpty'
<1> SUFFICES ASSUME CommandsTypeOK, ParkedOverEmpty, [Next]_vars, NEW d \in Conns, Waits(d)'
             PROVE  queue' = <<>>
  BY DEF ParkedOverEmpty, Waits
<1>0. BrokerTypes /\ LegTypes /\ TerminalTypes
  BY TypeParts
<1>1. legs \in [Conns -> Legs]
  BY <1>0 DEF LegTypes
<1>2. Waits(d) => queue = <<>>
  BY DEF ParkedOverEmpty, Waits
<1>3. ASSUME legs'[d] = legs[d], UNCHANGED <<row, queue>> PROVE queue' = <<>>
  BY <1>2, <1>3 DEF Waits
<1>4. ASSUME NEW L \in [Conns -> Legs], legs' = WakePolls(L) PROVE FALSE
  <2>1. legs'[d].st = L[d].st /\ legs'[d].woken = (L[d].woken \/ L[d].st = "parked")
    BY <1>0, <1>4, WakingKeepsTypes
  <2>2. legs'[d].st = "parked" /\ ~legs'[d].woken
    BY DEF Waits
  <2> QED
    BY <2>1, <2>2, Zenon
<1>5. ASSUME NEW c \in Conns, legs' = [legs EXCEPT ![c] = Free], UNCHANGED <<row, queue>>
      PROVE  queue' = <<>>
  <2>1. d # c
    BY <1>1, <1>5, FreeIsALeg DEF Waits
  <2> QED
    BY <1>1, <1>3, <1>5, <2>1
<1>6. ASSUME NEW c \in Conns, ResumePoll(c) PROVE queue' = <<>>
  <2>1. row' = row
    BY <1>6 DEF ResumePoll
  <2>2. CASE queue' = <<>>
    BY <2>2
  <2>3. CASE queue' = queue /\ legs' = [legs EXCEPT ![c] = Free]
    BY <1>5, <2>1, <2>3
  <2>4. CASE ~(queue' = queue /\ legs' = [legs EXCEPT ![c] = Free]) /\ queue' # <<>>
    <3>1. Fit # {}
      BY <1>6, <2>4 DEF ResumePoll
    <3>2. PICK j \in Fit : j = CHOOSE i \in Fit : \A k \in Fit : i <= k
      BY <1>0, <3>1, FitIsTaken DEF BrokerTypes
    <3>3. legs' = [legs EXCEPT ![c].woken = FALSE, ![c].st = "writing", ![c].cmd = queue[j]]
      BY <1>6, <2>4, <3>1, <3>2 DEF ResumePoll
    <3>4. d # c /\ legs'[d] = legs[d]
      BY <1>1, <3>3 DEF Waits, Legs
    <3>5. queue # <<>>
      BY <3>2 DEF Fit
    <3> QED
      BY <1>2, <2>1, <3>4, <3>5 DEF Waits
  <2> QED
    BY <2>2, <2>3, <2>4
<1>7. ASSUME NEW c \in Conns, WriteCompletes(c) PROVE queue' = <<>>
  <2>1. legs' = [legs EXCEPT ![c] = [legs[c] EXCEPT !.st = "sent"]] /\ UNCHANGED <<row, queue>>
    BY <1>7 DEF WriteCompletes
  <2>2. d # c /\ legs'[d] = legs[d]
    BY <1>1, <2>1 DEF Waits, Legs
  <2> QED
    BY <1>3, <2>1, <2>2
<1>8. ASSUME NEW c \in Conns, WriteFails(c) PROVE queue' = <<>>
  <2>1. CASE queue' = queue
    <3>1. legs' = [legs EXCEPT ![c] = Free] /\ row' = row
      BY <1>8, <2>1 DEF WriteFails
    <3> QED
      BY <1>5, <2>1, <3>1
  <2>2. CASE queue' # queue
    <3>1. legs' = WakePolls([legs EXCEPT ![c] = Free])
      BY <1>8, <2>2 DEF WriteFails
    <3>2. [legs EXCEPT ![c] = Free] \in [Conns -> Legs]
      BY <1>1, FreeIsALeg
    <3> QED
      BY <1>4, <3>1, <3>2
  <2> QED
    BY <2>1, <2>2
<1>9. ASSUME NEW c \in Conns, ConnCloses(c) PROVE queue' = <<>>
  <2>1. UNCHANGED <<row, queue>>
    BY <1>9 DEF ConnCloses
  <2>2. /\ \A e \in Conns \ {c} : legs'[e] = legs[e]
        /\ legs'[c] = Free \/ ~legs'[c].open
    BY <1>1, <1>9 DEF ConnCloses, Legs
  <2>3. d # c
    BY <2>2, FreeIsALeg DEF Waits
  <2> QED
    BY <1>3, <2>1, <2>2, <2>3
<1>10. ASSUME NEW e, Noted(e) PROVE queue' = <<>>
  <2>1. CASE UNCHANGED <<row, queue, legs>>
    BY <1>3, <2>1
  <2>2. CASE legs' = WakePolls(legs)
    BY <1>1, <1>4, <2>2
  <2> QED
    BY <1>10, <2>1, <2>2 DEF Noted
<1>11. CASE Dies
  <2>1. legs'[d] = IF legs[d].st = "sent" THEN Free ELSE [legs[d] EXCEPT !.open = FALSE]
    BY <1>11 DEF Dies
  <2>2. ~legs'[d].open
    BY <1>1, <2>1, FreeIsALeg DEF Legs
  <2> QED
    BY <2>2 DEF Waits
<1>12. ASSUME NEW c \in Conns, LoopPolls(c) PROVE queue' = <<>>
  <2>1. CASE UNCHANGED legs
    BY <1>3, <1>12, <2>1 DEF LoopPolls
  <2>2. CASE ~UNCHANGED legs
    <3>1. legs' = [legs EXCEPT ![c] = [st |-> "parked", gen |-> row.gen, cmd |-> NoCommand,
                                       open |-> TRUE, woken |-> TRUE]]
      BY <1>12, <2>2 DEF LoopPolls
    <3>2. d # c /\ legs'[d] = legs[d]
      BY <1>1, <3>1 DEF Waits
    <3> QED
      BY <1>3, <1>12, <3>2 DEF LoopPolls
  <2> QED
    BY <2>1, <2>2
<1>13. ASSUME NEW c \in Conns, ReadReply(c) PROVE queue' = <<>>
  BY <1>5, <1>13 DEF ReadReply
<1>14. ASSUME NEW c \in Conns, WaitEnds(c) PROVE queue' = <<>>
  BY <1>5, <1>14 DEF WaitEnds
<1>15. CASE AppSends
  BY <1>1, <1>4, <1>15 DEF AppSends, SendWords, SendStop, Enqueue
<1>16. CASE Outside
  BY <1>3, <1>9, <1>11, <1>16 DEF Outside, Ages, Sweep, Launch, Reload, brokerVars
<1>17. CASE Hooks
  BY <1>3, <1>17 DEF Hooks, TurnStarts, TurnSteps, TurnCompletes, SessionEnds, brokerVars
<1>18. CASE EventArrives \/ StrayArrives
  BY <1>10, <1>18 DEF EventArrives, StrayArrives
<1>19. CASE EventGivenUp \/ LoopMeetsSession \/ LoopRegisters
  BY <1>3, <1>19 DEF EventGivenUp, LoopMeetsSession, LoopRegisters, brokerVars
<1>20. CASE RegisterArrives
  BY <1>1, <1>4, <1>20 DEF RegisterArrives
<1>21. CASE UNCHANGED vars
  BY <1>3, <1>21 DEF vars, brokerVars
<1> QED
  BY <1>6, <1>7, <1>8, <1>12, <1>13, <1>14, <1>15, <1>16, <1>17, <1>18, <1>19, <1>20, <1>21
     DEF Next, BrokerSteps, ModSends

\* No poll that could carry a command stays parked beside it: whatever fills
\* the queue, a new command or one put back, wakes every parked poll
\* (mod-registry.ts, enqueue and requeue; wakePolls).
THEOREM NoCommandWaitsInVain == Spec => []NoPollIdlesBesideACommand
<1>1. Init => CommandsTypeOK /\ ParkedOverEmpty
  <2>1. Init => CommandsTypeOK
    BY TypesInit
  <2>2. Init => ParkedOverEmpty
    BY DEF Init, ParkedOverEmpty
  <2> QED
    BY <2>1, <2>2
<1>2. CommandsTypeOK /\ ParkedOverEmpty /\ [Next]_vars => CommandsTypeOK' /\ ParkedOverEmpty'
  BY TypesStep, ParkedStep
<1>3. ParkedOverEmpty => NoPollIdlesBesideACommand
  BY DEF ParkedOverEmpty, NoPollIdlesBesideACommand, Quiet
<1> QED
  BY <1>1, <1>2, <1>3, PTL DEF Spec

=============================================================================
