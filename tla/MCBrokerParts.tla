---------------------------- MODULE MCBrokerParts ----------------------------
(* Parts of the system that share no state, on small instances.  A         *)
(* behaviour is one of the part its first state puts in focus; the others  *)
(* stay as they were at its start.                                         *)
EXTENDS InstallationLock, ClientHandoff, Recurrence, TerminalHolds

VARIABLE focus

vars == <<lockVars, handoffVars, cronVars, terminalVars, focus>>

AnyMinutes == SUBSET (0..1) \ {{}}
AnyHours   == SUBSET (0..3) \ {{}}
AnyMonths  == {{0}, {0, 1}}

Listed(values)  == [values |-> values, wildcard |-> FALSE]
Starred(values) == [values |-> values, wildcard |-> TRUE]

\* "*", "*/2", days that every month has, and one that none has: 31 February.
AnyMonthDays == {Starred(0..3), Starred({0, 2}), Listed({0}), Listed({1, 2}), Listed({})}
AnyWeekDays  == {Starred(0..2), Starred({0, 2}), Listed({1}), Listed({0, 2})}

\* No search is under way: what a behaviour of another part has instead.
NoSearch ==
    /\ cron = [minute |-> {0}, hour |-> {0}, month |-> {0},
               monthday |-> Listed({}), weekday |-> Listed({})]
    /\ after = 0 /\ candidate = 0 /\ found = TRUE

Init ==
    /\ focus \in {"lock", "handoff", "cron", "terminal"}
    /\ LockInit /\ HandoffInit /\ TerminalInit
    /\ focus # "terminal" => questions = {}
    /\ IF focus = "cron" THEN CronInit ELSE NoSearch

\* Bound of the terminal: either replies get lost, or the row goes.
OneTrouble == faults = 0 \/ (regs = 0 /\ registered)

InLock(A)     == focus = "lock"     /\ A /\ UNCHANGED <<handoffVars, cronVars, terminalVars, focus>>
InHandoff(A)  == focus = "handoff"  /\ A /\ UNCHANGED <<lockVars, cronVars, terminalVars, focus>>
InCron(A)     == focus = "cron"     /\ A /\ UNCHANGED <<lockVars, handoffVars, terminalVars, focus>>
InTerminal(A) == focus = "terminal" /\ A /\ UNCHANGED <<lockVars, handoffVars, cronVars, focus>>

Next ==
    \/ InLock(LockNext)
    \/ InHandoff(HandoffNext)
    \/ InCron(CronNext)
    \/ InTerminal(TerminalNext /\ OneTrouble')

\* The fairness of each part, while it is in focus.
Fairness ==
    /\ WF_handoffVars(InHandoff(\E i \in Frames : GoesOn(i)))
    /\ WF_cronVars(InCron(CronNext))
    /\ \A c \in Calls : /\ WF_terminalVars(InTerminal(ModStep(c)))
                        /\ WF_terminalVars(InTerminal(TimesOut(c)))
                        /\ WF_terminalVars(InTerminal(PressTimesOut(c)))

Spec == Init /\ [][Next]_vars /\ Fairness
=============================================================================
