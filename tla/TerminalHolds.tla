---------------------------- MODULE TerminalHolds ----------------------------
(***************************************************************************)
(* The terminal's side of the calls held for an answer                     *)
(* (mods/cosyncing-claude/hooks/register.js): the loop of hold, the band   *)
(* with its keys, the outcomes that come on the poll leg, and the hooks    *)
(* that take a call back.  The broker is as ModHolds has it, for one       *)
(* evaluation of the mod: requests reach it late or never, its answers get *)
(* lost, its row may go and be registered again.                           *)
(*                                                                         *)
(* A wait ends with the first of an answer, its timer, and a decision made *)
(* here.  The request itself is not cancelled and may still arrive.        *)
(***************************************************************************)
EXTENDS Integers

CONSTANTS Calls,          \* request ids
          TransportBreak, \* TRANSPORT_BREAK
          QuickLimit,     \* QUICK_EMPTY_LIMIT
          MaxFaults, MaxRegs  \* bounds: replies that get lost, rows that do

ASSUME TerminalAssumption ==
    /\ {MaxFaults, MaxRegs} \subseteq Nat
    /\ {TransportBreak, QuickLimit} \subseteq Nat \ {0}

VARIABLES
    questions,  \* the calls that are questions: Claude's picker is open beside them
    at,         \* where hold is: idle, top of its loop, asked, elsewhere, leaving, over
    outcome,    \* band.outcome
    broken,     \* band.broken
    chosen,     \* band.chosen
    shown,      \* band.shown
    quick,      \* quickEmpty
    failures,   \* transportFailures
    result,     \* what became of the call in the terminal
    gaveUp,     \* history: calls handed back because of what the broker said or did not say
    ask,        \* the hold request awaited: sent, parked at the broker, or its reply
    stray,      \* a hold request given up on
    press,      \* the answer event awaited: [key, st]
    late,       \* the key of an answer event given up on
    notices,    \* calls whose user-cancel or question.settled is on its way
    turnOver,   \* a turn.complete is on its way
    carry,      \* what the reply of the poll leg carries for a call
    registered, \* does the broker have the row of this terminal
    fate,       \* what the broker has for a call
    faults, regs,  \* counters for the bounds
    decided     \* history: <<call, outcome>> of every decision of a person

bandVars   == <<questions, at, outcome, broken, chosen, shown, quick>>
netVars    == <<ask, stray, press, late, notices, turnOver, carry>>
brokerVars == <<registered, fate, decided>>
endVars    == <<result, gaveUp>>
terminalVars == <<bandVars, failures, endVars, netVars, brokerVars, faults, regs>>

None == "none"
Keys == {"allow", "deny"}
\* "misfit" is an answer that the question cannot take (validateAnswers).
Human == Keys \cup {"answer", "misfit"}
Outcomes == Human \cup {"release"}
Replies == Outcomes \cup {"held", "empty", "quick", "elsewhere", "refused", "failed"}
NoPress == [key |-> None, st |-> None]

\* In state.bands, and openBands.
Banded(c) == at[c] \notin {"idle", "over"}
OpenBand(c)   == Banded(c) /\ outcome[c] = None /\ ~broken[c]

TerminalInit ==
    /\ questions \in SUBSET Calls
    /\ at = [c \in Calls |-> "idle"]
    /\ outcome = [c \in Calls |-> None] /\ broken = [c \in Calls |-> FALSE]
    /\ chosen = [c \in Calls |-> None] /\ shown = [c \in Calls |-> FALSE]
    /\ quick = [c \in Calls |-> 0] /\ failures = 0
    /\ result = [c \in Calls |-> None] /\ gaveUp = {}
    /\ ask = [c \in Calls |-> None] /\ stray = [c \in Calls |-> None]
    /\ press = [c \in Calls |-> NoPress] /\ late = [c \in Calls |-> None]
    /\ notices = {} /\ turnOver = FALSE
    /\ carry = [c \in Calls |-> None]
    /\ registered = TRUE /\ fate = [c \in Calls |-> "new"]
    /\ faults = 0 /\ regs = 0 /\ decided = {}

-----------------------------------------------------------------------------
(* What ends a wait.                                                       *)

\* wakeBand, for the calls of C: the request is given up on.  A hold that waits
\* for the outcome on the other leg goes on to its end.
Wake(C) ==
    /\ at' = [c \in Calls |-> IF c \in C /\ at[c] = "asked" THEN "top"
                              ELSE IF c \in C /\ at[c] = "elsewhere" THEN "leaving" ELSE at[c]]
    /\ stray' = [c \in Calls |-> IF c \in C /\ at[c] = "asked" /\ ask[c] \in {"sent", "parked"}
                                 THEN ask[c] ELSE stray[c]]
    /\ ask' = [c \in Calls |-> IF c \in C THEN None ELSE ask[c]]

\* breakBand, for the open bands of C.
Break(C) ==
    LET open == {c \in C : OpenBand(c)}
    IN  broken' = [c \in Calls |-> broken[c] \/ c \in open] /\ Wake(open)

\* settle: the first outcome of an open band stays.
Settle(c, out) ==
    IF OpenBand(c) THEN outcome' = [outcome EXCEPT ![c] = out] /\ Wake({c})
    ELSE UNCHANGED <<outcome, at, stray, ask>>

\* What becomes of a call that ends with out.  Nothing but a fitting answer ends
\* a question: one that is handed back, rejected or answered askew is still in
\* Claude's picker.
Effect(c, out) ==
    IF out \in (IF c \in questions THEN {"answer"} ELSE Keys) THEN out
    ELSE IF c \in questions THEN None ELSE "dialog"

\* The hold returns out, or hands the call back, and its band goes.
Taken(c, out) == IF result[c] # None THEN result ELSE [result EXCEPT ![c] = Effect(c, out)]

Return(c, out) ==
    /\ at' = [at EXCEPT ![c] = "over"]
    /\ shown' = [shown EXCEPT ![c] = FALSE]
    /\ ask' = [ask EXCEPT ![c] = None]
    /\ result' = Taken(c, out)

HandBack(c) == Return(c, None) /\ gaveUp' = gaveUp \cup {c}

-----------------------------------------------------------------------------
(* hold.                                                                   *)

Hold(c) ==
    /\ at[c] = "idle"
    /\ at' = [at EXCEPT ![c] = "top"]
    /\ UNCHANGED <<questions, outcome, broken, chosen, shown, quick, failures, endVars,
                   netVars, brokerVars, faults, regs>>

Loop(c) ==
    /\ at[c] \in {"top", "leaving"}
    /\ \/ /\ broken[c] \/ outcome[c] # None \/ at[c] = "leaving"
          /\ Return(c, IF broken[c] THEN None ELSE outcome[c]) /\ UNCHANGED gaveUp
       \/ /\ at[c] = "top" /\ OpenBand(c)
          /\ at' = [at EXCEPT ![c] = "asked"]
          /\ ask' = [ask EXCEPT ![c] = "sent"]
          /\ UNCHANGED <<shown, endVars>>
    /\ UNCHANGED <<questions, outcome, broken, chosen, quick, failures, stray, press, late,
                   notices, turnOver, carry, brokerVars, faults, regs>>

\* Mutant: an answer that comes at once is no reason to stop.
QuickForever(c) == quick' = quick
CountQuick(c) == quick' = [quick EXCEPT ![c] = @ + 1]

\* The reply of the hold request.
MoveOn(c, where) == at' = [at EXCEPT ![c] = where] /\ ask' = [ask EXCEPT ![c] = None]

ReadHeld(c) ==
    /\ ask[c] = "held"
    /\ shown' = [shown EXCEPT ![c] = c \notin questions]
    /\ MoveOn(c, "top")
    /\ failures' = 0
    /\ UNCHANGED <<outcome, broken, quick, endVars, stray>>

ReadEmpty(c) ==
    /\ \/ /\ ask[c] = "empty" /\ quick' = [quick EXCEPT ![c] = 0]
          /\ MoveOn(c, "top") /\ UNCHANGED <<shown, endVars>>
       \/ /\ ask[c] = "quick" /\ CountQuick(c)
          /\ IF quick[c] + 1 < QuickLimit
             THEN MoveOn(c, "top") /\ UNCHANGED <<shown, endVars>>
             ELSE HandBack(c)
    /\ failures' = 0
    /\ UNCHANGED <<outcome, broken, stray>>

\* Mutant: the outcome that is on its way on the other leg is not waited for.
ReadElsewhereAtOnce(c) ==
    /\ ask[c] = "elsewhere"
    /\ MoveOn(c, "leaving")
    /\ failures' = 0
    /\ UNCHANGED <<outcome, broken, shown, quick, endVars, stray>>

ReadElsewhere(c) ==
    /\ ask[c] = "elsewhere"
    /\ MoveOn(c, "elsewhere")
    /\ failures' = 0
    /\ UNCHANGED <<outcome, broken, shown, quick, endVars, stray>>

ReadOutcome(c) ==
    /\ ask[c] \in Outcomes
    /\ Settle(c, ask[c])
    /\ failures' = 0
    /\ UNCHANGED <<broken, shown, quick, endVars>>

ReadRefusal(c) ==
    /\ ask[c] = "refused"
    /\ HandBack(c)
    /\ UNCHANGED <<outcome, broken, quick, failures, stray>>

\* fault: so many in a row break every band.
Fault ==
    /\ failures' = failures + 1
    /\ IF failures + 1 < TransportBreak
       THEN UNCHANGED <<broken, at, stray, ask>>
       ELSE Break(Calls)

ReadFault(c) ==
    /\ ask[c] = "failed"
    /\ IF failures + 1 < TransportBreak
       THEN failures' = failures + 1 /\ MoveOn(c, "top") /\ UNCHANGED <<broken, stray>>
       ELSE Fault
    /\ UNCHANGED <<outcome, shown, quick, endVars>>

ReadReply(c) ==
    /\ at[c] = "asked"
    /\ \/ ReadHeld(c) \/ ReadEmpty(c) \/ ReadElsewhere(c) \/ ReadOutcome(c)
       \/ ReadRefusal(c) \/ ReadFault(c)
    /\ UNCHANGED <<questions, chosen, press, late, notices, turnOver, carry, brokerVars,
                   faults, regs>>

\* The bound of a wait: the call is handed back.
TimesOut(c) ==
    /\ at[c] \in {"asked", "elsewhere"}
    /\ stray' = [stray EXCEPT ![c] = IF ask[c] \in {"sent", "parked"} THEN ask[c] ELSE @]
    /\ HandBack(c)
    /\ UNCHANGED <<questions, outcome, broken, chosen, quick, failures, press, late,
                   notices, turnOver, carry, brokerVars, faults, regs>>

-----------------------------------------------------------------------------
(* The keys of the band, and the hooks.                                    *)

\* A key on a band that was drawn, for the call it was drawn for.  The order in
\* which bands take each other's place on the screen is left out.
Press(c, key) ==
    /\ shown[c] /\ OpenBand(c) /\ chosen[c] = None
    /\ chosen' = [chosen EXCEPT ![c] = key]
    /\ press' = [press EXCEPT ![c] = [key |-> key, st |-> "sent"]]
    /\ UNCHANGED <<questions, at, outcome, broken, shown, quick, failures, endVars, ask,
                   stray, late, notices, turnOver, carry, brokerVars, faults, regs>>

\* "Show Claude's dialog", and the abort of an interrupted turn, which may come
\* after a key was pressed.
TakeBack(c) ==
    /\ OpenBand(c)
    /\ Break({c})
    /\ notices' = notices \cup {c}
    /\ UNCHANGED <<questions, outcome, chosen, shown, quick, failures, endVars, press, late,
                   turnOver, carry, brokerVars, faults, regs>>

\* Mutant: whatever the broker says of the answer, the keys stay as they are.
StayChosen(c) == UNCHANGED chosen
\* An answer that did not land: the keys can be pressed again.
KeysBack(c) == chosen' = [chosen EXCEPT ![c] = None]

\* holdGone: the hold asks once more; the keys stay as they are.
HoldGone(c) == Wake({c})

\* The rest of answerBand: the answer was taken, or found no hold, or no row, or
\* did not land.
ReadPress(c) ==
    /\ press[c].st \in {"taken", "gone", "refused", "failed"}
    /\ press' = [press EXCEPT ![c] = NoPress]
    /\ failures' = IF press[c].st \in {"taken", "gone"} THEN 0 ELSE failures
    /\ \/ press[c].st = "taken" /\ UNCHANGED <<chosen, at, stray, ask>>
       \/ press[c].st \in {"gone", "refused"} /\ HoldGone(c) /\ UNCHANGED chosen
       \/ press[c].st = "failed" /\ KeysBack(c) /\ UNCHANGED <<at, stray, ask>>
    /\ UNCHANGED <<questions, outcome, broken, shown, quick, endVars, late, notices, turnOver,
                   carry, brokerVars, faults, regs>>

PressTimesOut(c) ==
    /\ press[c] # NoPress
    /\ KeysBack(c)
    /\ late' = [late EXCEPT ![c] = IF press[c].st = "sent" THEN press[c].key ELSE @]
    /\ press' = [press EXCEPT ![c] = NoPress]
    /\ UNCHANGED <<questions, at, outcome, broken, shown, quick, failures, endVars, ask,
                   stray, notices, turnOver, carry, brokerVars, faults, regs>>

\* Claude's picker answered a question, or was closed.
PickerSettles(c) ==
    /\ c \in questions /\ at[c] # "idle" /\ result[c] = None
    /\ result' = [result EXCEPT ![c] = "picker"] /\ UNCHANGED gaveUp
    /\ Break({c})
    /\ notices' = notices \cup {c}
    /\ UNCHANGED <<questions, outcome, chosen, shown, quick, failures, press, late,
                   turnOver, carry, brokerVars, faults, regs>>

\* turn.complete of the main turn, and session.end, which forgets the faults.
TurnCompletes ==
    /\ \E c \in Calls : OpenBand(c)
    /\ Break(Calls)
    /\ turnOver' = TRUE
    /\ failures' \in {failures, 0}
    /\ UNCHANGED <<questions, outcome, chosen, shown, quick, endVars, press, late, notices,
                   carry, brokerVars, faults, regs>>

\* The reply of the poll leg carries an outcome.
ReadPoll(c) ==
    /\ carry[c] # None
    /\ Settle(c, carry[c])
    /\ carry' = [carry EXCEPT ![c] = None]
    /\ failures' = 0
    /\ UNCHANGED <<questions, broken, chosen, shown, quick, endVars, press, late, notices,
                   turnOver, brokerVars, faults, regs>>

\* A reply that is about no call: the end of a poll, a command, an event.
OtherReply ==
    /\ registered /\ failures > 0
    /\ failures' = 0
    /\ UNCHANGED <<bandVars, endVars, netVars, brokerVars, faults, regs>>

-----------------------------------------------------------------------------
(* The broker (ModHolds).                                                  *)

modVars == <<bandVars, failures, endVars>>

\* The hold route: what it makes of a request for call c, and what it replies.
HoldRoute(c, reply, new) ==
    \/ ~registered /\ reply = "refused" /\ new = fate[c]
    \/ registered /\ fate[c] = "new" /\ reply = "held" /\ new = "open"
    \/ registered /\ fate[c] = "new" /\ reply = "release" /\ new = "release"
    \/ registered /\ fate[c] = "open" /\ reply = "parked" /\ new = "open"
    \/ registered /\ fate[c] \in Outcomes /\ reply = fate[c] /\ new = "told"
    \/ registered /\ fate[c] = "told" /\ reply = "elsewhere" /\ new = "told"

\* A request parked there wakes, or its wait ends; a broker that does not park
\* it answers at once.
Wakes(c, reply, new) ==
    \/ fate[c] \in Outcomes /\ reply = fate[c] /\ new = "told"
    \/ fate[c] = "told" /\ reply \in {"empty", "quick"} /\ new = "told"
    \/ fate[c] = "open" /\ reply \in {"empty", "quick"} /\ new = "open"

BrokerReplies(c) ==
    /\ \E reply \in Replies \cup {"parked"}, new \in {"new", "open", "told", "release"} :
          /\ \/ ask[c] = "sent" /\ HoldRoute(c, reply, new)
             \/ ask[c] = "parked" /\ Wakes(c, reply, new)
          /\ ask' = [ask EXCEPT ![c] = reply]
          /\ fate' = [fate EXCEPT ![c] = new]
    /\ UNCHANGED <<modVars, stray, press, late, notices, turnOver, carry, registered,
                   decided, faults, regs>>

\* The same for a request the mod has given up on: the reply is dropped.
BrokerRepliesInVain(c) ==
    /\ \E reply \in Replies \cup {"parked"}, new \in {"new", "open", "told", "release"} :
          /\ \/ stray[c] = "sent" /\ HoldRoute(c, reply, new)
             \/ stray[c] = "parked" /\ Wakes(c, reply, new)
          /\ stray' = [stray EXCEPT ![c] = IF reply = "parked" THEN reply ELSE None]
          /\ fate' = [fate EXCEPT ![c] = new]
    /\ UNCHANGED <<modVars, ask, press, late, notices, turnOver, carry, registered, decided,
                   faults, regs>>

RequestLost == faults < MaxFaults /\ faults' = faults + 1

\* Outcomes that did not leave are put back.
PutBack(lost) ==
    fate' = [c \in Calls |-> IF lost[c] \in Outcomes /\ fate[c] = "told" THEN lost[c] ELSE fate[c]]

\* The dial fails, or the reply is lost.
HoldFails(c) ==
    /\ RequestLost
    /\ at[c] = "asked" /\ ask[c] # "failed"
    /\ ask' = [ask EXCEPT ![c] = "failed"]
    /\ PutBack([d \in Calls |-> IF d = c THEN ask[d] ELSE None])
    /\ UNCHANGED <<modVars, stray, press, late, notices, turnOver, carry, registered,
                   decided, regs>>

PollTakes(c) ==
    /\ registered /\ fate[c] \in Outcomes /\ \A d \in Calls : carry[d] = None
    /\ carry' = [carry EXCEPT ![c] = fate[c]]
    /\ fate' = [fate EXCEPT ![c] = "told"]
    /\ UNCHANGED <<modVars, ask, stray, press, late, notices, turnOver, registered, decided,
                   faults, regs>>

\* The same on the poll leg, which counts its faults with the holds.
PollFails ==
    /\ RequestLost
    /\ carry' = [c \in Calls |-> None]
    /\ PutBack(carry)
    /\ Fault
    /\ UNCHANGED <<questions, outcome, chosen, shown, quick, endVars, press, late, notices,
                   turnOver, registered, decided, regs>>

\* An answer decides a call that is held, once.
Decide(c, out) ==
    /\ fate' = [fate EXCEPT ![c] = out]
    /\ decided' = decided \cup {<<c, out>>}

\* A question is answered, or rejected, which the broker takes for a denial.
AppDecides(c) ==
    /\ registered /\ fate[c] = "open"
    /\ \E out \in IF c \in questions THEN {"answer", "misfit", "deny"} ELSE Keys : Decide(c, out)
    /\ UNCHANGED <<modVars, netVars, registered, faults, regs>>

\* The event route, for hold.answer.
PressArrives(c) ==
    /\ press[c].st = "sent"
    /\ IF registered /\ fate[c] = "open"
       THEN Decide(c, press[c].key) /\ press' = [press EXCEPT ![c].st = "taken"]
       ELSE /\ press' = [press EXCEPT ![c].st = IF registered THEN "gone" ELSE "refused"]
            /\ UNCHANGED <<fate, decided>>
    /\ UNCHANGED <<modVars, ask, stray, late, notices, turnOver, carry, registered, faults,
                   regs>>

PressFails(c) ==
    /\ RequestLost
    /\ press[c].st \in {"sent", "taken", "gone", "refused"}
    /\ press' = [press EXCEPT ![c].st = "failed"]
    /\ UNCHANGED <<modVars, ask, stray, late, notices, turnOver, carry, brokerVars, regs>>

LateArrives(c) ==
    /\ late[c] # None
    /\ late' = [late EXCEPT ![c] = None]
    /\ IF registered /\ fate[c] = "open" THEN Decide(c, late[c]) ELSE UNCHANGED <<fate, decided>>
    /\ UNCHANGED <<modVars, ask, stray, press, notices, turnOver, carry, registered, faults,
                   regs>>

\* user-cancel and question.settled.
NoticeArrives(c) ==
    /\ c \in notices
    /\ notices' = notices \ {c}
    /\ fate' = [fate EXCEPT ![c] =
                  IF ~registered THEN @
                  ELSE IF c \in questions /\ @ \in {"new", "open"} THEN "told"
                  ELSE IF @ = "open" THEN "release" ELSE @]
    /\ UNCHANGED <<modVars, ask, stray, press, late, turnOver, carry, registered, decided,
                   faults, regs>>

\* turn.complete, and the end of a lease: no request about the call has been
\* parked for long.
ReleaseOpen(C) ==
    fate' = [c \in Calls |-> IF c \in C /\ fate[c] = "open" THEN "release" ELSE fate[c]]

TurnOverArrives ==
    /\ turnOver /\ turnOver' = FALSE
    /\ IF registered THEN ReleaseOpen(Calls) ELSE UNCHANGED fate
    /\ UNCHANGED <<modVars, ask, stray, press, late, notices, carry, registered, decided,
                   faults, regs>>

LeaseRunsOut(c) ==
    /\ fate[c] = "open" /\ ask[c] # "parked" /\ stray[c] # "parked"
    /\ ReleaseOpen({c})
    /\ UNCHANGED <<modVars, netVars, registered, decided, faults, regs>>

\* The row goes, and with it what it held; the poll leg registers again, and
\* what was held before is not known to the new registration.
RowGoes ==
    /\ registered /\ regs < MaxRegs
    /\ registered' = FALSE
    /\ ReleaseOpen(Calls)
    /\ ask' = [c \in Calls |-> IF ask[c] = "parked" THEN "refused" ELSE ask[c]]
    /\ stray' = [c \in Calls |-> IF stray[c] = "parked" THEN None ELSE stray[c]]
    /\ UNCHANGED <<modVars, press, late, notices, turnOver, carry, decided, faults, regs>>

RegisterAgain ==
    /\ ~registered
    /\ registered' = TRUE /\ regs' = regs + 1
    /\ fate' = [c \in Calls |-> "new"]
    /\ failures' = 0
    /\ UNCHANGED <<bandVars, endVars, netVars, decided, faults>>

-----------------------------------------------------------------------------
ModStep(c) == Loop(c) \/ ReadReply(c) \/ ReadPress(c)

TerminalNext ==
    \/ TurnCompletes \/ OtherReply \/ TurnOverArrives \/ PollFails \/ RowGoes \/ RegisterAgain
    \/ \E c \in Calls :
          \/ Hold(c) \/ ModStep(c) \/ TimesOut(c) \/ PressTimesOut(c)
          \/ \E key \in Keys : Press(c, key)
          \/ TakeBack(c) \/ PickerSettles(c) \/ ReadPoll(c)
          \/ BrokerReplies(c) \/ BrokerRepliesInVain(c)
          \/ HoldFails(c) \/ PollTakes(c)
          \/ AppDecides(c) \/ PressArrives(c) \/ PressFails(c) \/ LateArrives(c)
          \/ NoticeArrives(c) \/ LeaseRunsOut(c)

\* The mod runs, and its timers fire.  Nothing is asked of the broker.
TerminalFairness ==
    \A c \in Calls : WF_terminalVars(ModStep(c)) /\ WF_terminalVars(TimesOut(c))
                     /\ WF_terminalVars(PressTimesOut(c))

TerminalSpec == TerminalInit /\ [][TerminalNext]_terminalVars

-----------------------------------------------------------------------------
\* What a person decided reaches the call, by whichever leg.  An answer that the
\* broker took is what becomes of the call, unless the terminal took the call
\* back, a timer or a refusal handed it back, a key of its band was pressed, or
\* the row or a reply went missing on the way.  A question that was rejected, or
\* answered askew, is left to Claude's picker.
DecidedAs(c) == {out \in Human : <<c, out>> \in decided}
Undisturbed(c) ==
    /\ ~broken[c] /\ c \notin gaveUp /\ result[c] # "picker" /\ chosen[c] = None
    /\ registered /\ regs = 0 /\ faults = 0
DecisionReachesTheCall ==
    \A c \in Calls : Undisturbed(c) /\ at[c] = "over" /\ DecidedAs(c) # {}
                       => result[c] \in {Effect(c, out) : out \in DecidedAs(c)}

\* "There is no deadline" (register.js:650): a hold lasts, but only while the
\* broker goes on saying that it has the call.  A broker that falls silent,
\* refuses, cannot be reached or answers without waiting loses it to the terminal.
LastsOnlyWhileHeld ==
    \A c \in Calls : []<>(Banded(c) => ask[c] \in {"held", "empty"})

\* A key that was pressed leads to the end of its call, or may be pressed again,
\* as long as the row of the terminal stays: no band is left on screen with keys
\* that do nothing (register.js:624-626).
KeysAnswer(c) == chosen[c] = None \/ ~Banded(c)
PressesEnd == \A c \in Calls : []<>(KeysAnswer(c) \/ regs > 0 \/ ~registered)

\* What the comments say and the code does not do (README, known differences).

\* The same whatever becomes of the row (register.js:625-626, 635-638).
PressesAlwaysEnd == \A c \in Calls : []<>KeysAnswer(c)

\* A key that found no hold leads to "whatever the broker decided"
\* (register.js:636-637): the app's answer reaches the call all the same.
KeyEndsAsDecided ==
    \A c \in Calls : at[c] = "over" /\ ~broken[c] /\ c \notin gaveUp /\ result[c] # "picker"
                      /\ registered /\ regs = 0 /\ faults = 0 /\ DecidedAs(c) # {}
                    => result[c] \in {Effect(c, out) : out \in DecidedAs(c)}

\* An answer that the band has taken back "never landed" (register.js:625).
TakenBackNeverLands == [][\A c \in Calls : LateArrives(c) => UNCHANGED decided]_terminalVars
=============================================================================
