------------------------- MODULE TerminalHolds_proofs -------------------------
(***************************************************************************)
(* What TerminalHolds promises for any number of calls and any bounds.  A  *)
(* decision is followed from the broker to the call: whoever carries it    *)
(* has what was decided, as long as the row and every reply got through    *)
(* (Carried); and a call that ended without an outcome was broken, handed  *)
(* back, or had a key that stayed pressed (EndsForAReason).                *)
(***************************************************************************)
EXTENDS TerminalHolds, TLAPS

Positions == {"idle", "top", "asked", "elsewhere", "leaving", "over"}
PressStates == {None, "sent", "taken", "gone", "refused", "failed"}

BandTypes ==
    /\ at \in [Calls -> Positions]
    /\ outcome \in [Calls -> Outcomes \cup {None}]
    /\ broken \in [Calls -> BOOLEAN]
    /\ chosen \in [Calls -> Keys \cup {None}]
    /\ result \in [Calls -> Human \cup {None, "dialog", "picker"}]
    /\ gaveUp \subseteq Calls

NetTypes ==
    /\ ask \in [Calls -> Replies \cup {None, "sent", "parked"}]
    /\ press \in [Calls -> [key : Keys \cup {None}, st : PressStates]]
    /\ late \in [Calls -> Keys \cup {None}]
    /\ carry \in [Calls -> Outcomes \cup {None}]
    /\ fate \in [Calls -> Outcomes \cup {"new", "open", "told"}]
    /\ registered \in BOOLEAN /\ faults \in Nat /\ regs \in Nat
    /\ decided \subseteq Calls \X Human

\* Keys wait for the answer to what they sent, and a call has no result before
\* its hold is over but what Claude's picker made of it.
PressedKeys ==
    \A c \in Calls :
        /\ press[c] # NoPress => chosen[c] # None /\ press[c].key \in Keys
        /\ at[c] # "over" => result[c] \in {None, "picker"}

\* A hold that ends with no outcome, and neither broken nor handed back, had a
\* key pressed that found no hold: that key stays.
EndsForAReason ==
    \A c \in Calls :
        at[c] \in {"leaving", "over"} /\ ~broken[c] /\ c \notin gaveUp =>
            \/ outcome[c] # None
            \/ chosen[c] # None /\ press[c] = NoPress

\* A call ends with the outcome of its band.
EndsWithOutcome ==
    \A c \in Calls :
        at[c] = "over" /\ ~broken[c] /\ c \notin gaveUp /\ result[c] # "picker" =>
            (outcome[c] \in Human => result[c] = Effect(c, outcome[c]))

\* The row of the terminal is there since the start, and no reply was lost.
Sound == registered /\ regs = 0 /\ faults = 0

\* Outcome t is what became of the call: the decision, or that there is none.
Right(c, t) == DecidedAs(c) = IF t \in Human THEN {t} ELSE {}

Carried ==
    Sound => \A c \in Calls :
        /\ fate[c] \in {"new", "open"} =>
              /\ DecidedAs(c) = {}
              /\ ask[c] \notin Outcomes /\ carry[c] = None /\ outcome[c] = None
        /\ fate[c] \in Outcomes => Right(c, fate[c])
        /\ ask[c] \in Outcomes => Right(c, ask[c])
        /\ carry[c] \in Outcomes => Right(c, carry[c])
        /\ outcome[c] \in Outcomes => Right(c, outcome[c])

HoldsInv ==
    BandTypes /\ NetTypes /\ PressedKeys /\ EndsForAReason /\ EndsWithOutcome /\ Carried

-----------------------------------------------------------------------------
\* The invariant holds at the start.
LEMMA HoldsInit == TerminalInit => HoldsInv
BY DEF TerminalInit, HoldsInv, BandTypes, NetTypes, PressedKeys, EndsForAReason,
       EndsWithOutcome, Carried, DecidedAs, Positions, PressStates, NoPress, None, Outcomes, Human,
       Keys, Replies

-----------------------------------------------------------------------------
(* What ends a wait.                                                       *)

\* A hold that is woken asks again, or goes on to its end.
LEMMA WakeMoves ==
    ASSUME BandTypes, NetTypes, NEW C, Wake(C)
    PROVE  /\ at' \in [Calls -> Positions]
           /\ ask' \in [Calls -> Replies \cup {None, "sent", "parked"}]
           /\ \A c \in Calls :
                 /\ at'[c] = "over" <=> at[c] = "over"
                 /\ at'[c] = "leaving" => at[c] = "leaving" \/ c \in C
                 /\ ask'[c] \in {ask[c], None}
BY DEF BandTypes, NetTypes, Wake, Positions

\* A band that is broken was open, and a hold that goes on to its end is broken.
LEMMA BreakMoves ==
    ASSUME BandTypes, NetTypes, NEW C, Break(C)
    PROVE  /\ at' \in [Calls -> Positions] /\ broken' \in [Calls -> BOOLEAN]
           /\ ask' \in [Calls -> Replies \cup {None, "sent", "parked"}]
           /\ \A c \in Calls :
                 /\ at'[c] = "over" <=> at[c] = "over"
                 /\ at'[c] = "leaving" => at[c] = "leaving" \/ broken'[c]
                 /\ ask'[c] \in {ask[c], None}
                 /\ broken[c] => broken'[c]
                 /\ c \in C /\ OpenBand(c) => broken'[c]
                 /\ at[c] = "over" => broken'[c] = broken[c]
<1> DEFINE open == {c \in C : OpenBand(c)}
<1>1. /\ broken' = [c \in Calls |-> broken[c] \/ c \in open] /\ Wake(open)
    BY DEF Break
<1>2. \A c \in open : c \in C /\ OpenBand(c)
    OBVIOUS
<1>3. broken' \in [Calls -> BOOLEAN]
    BY <1>1
<1>4. \A c \in Calls : at[c] = "over" => c \notin open
    BY <1>2 DEF OpenBand, Banded
<1>5. \A c \in Calls : broken'[c] = (broken[c] \/ c \in open)
    BY <1>1
<1>6. \A c \in Calls : broken[c] \in BOOLEAN
    BY DEF BandTypes
<1> QED
    BY <1>1, <1>3, <1>4, <1>5, <1>6, WakeMoves

\* An outcome is given to an open band, and to no other.
LEMMA SettleMoves ==
    ASSUME BandTypes, NetTypes, NEW c \in Calls, NEW out \in Outcomes, Settle(c, out)
    PROVE  /\ at' \in [Calls -> Positions] /\ outcome' \in [Calls -> Outcomes \cup {None}]
           /\ ask' \in [Calls -> Replies \cup {None, "sent", "parked"}]
           /\ \A o \in Calls :
                 /\ at'[o] = "over" <=> at[o] = "over"
                 /\ at'[o] = "leaving" => at[o] = "leaving" \/ outcome'[o] # None
                 /\ ask'[o] \in {ask[o], None}
                 /\ outcome[o] # None => outcome'[o] = outcome[o]
                 /\ at[o] = "over" => outcome'[o] = outcome[o]
                 /\ outcome'[o] = outcome[o] \/ (o = c /\ outcome'[o] = out)
<1>0. out # None /\ \A o \in Calls : outcome[o] \in Outcomes \cup {None}
    BY DEF Outcomes, Human, Keys, None, BandTypes
<1>1. CASE OpenBand(c)
    <2>1. outcome' = [outcome EXCEPT ![c] = out] /\ Wake({c})
        BY <1>1 DEF Settle
    <2>2. outcome[c] = None /\ at[c] # "over"
        BY <1>1 DEF OpenBand, Banded
    <2>3. outcome'[c] = out /\ \A o \in Calls : o # c => outcome'[o] = outcome[o]
        BY <2>1 DEF BandTypes
    <2> QED
        BY <1>0, <2>1, <2>2, <2>3, WakeMoves DEF BandTypes
<1>2. CASE ~OpenBand(c)
    BY <1>2 DEF Settle, BandTypes, NetTypes
<1> QED
    BY <1>1, <1>2

\* A hold that returns.
LEMMA ReturnMoves ==
    ASSUME BandTypes, NetTypes, NEW c \in Calls, NEW out \in Outcomes \cup {None}, Return(c, out)
    PROVE  /\ at' \in [Calls -> Positions] /\ at'[c] = "over"
           /\ ask' \in [Calls -> Replies \cup {None, "sent", "parked"}] /\ ask'[c] = None
           /\ result' \in [Calls -> Human \cup {None, "dialog", "picker"}]
           /\ \A o \in Calls : o # c =>
                 at'[o] = at[o] /\ ask'[o] = ask[o] /\ result'[o] = result[o]
           /\ result[c] = None /\ out \in Human => result'[c] = Effect(c, out)
           /\ result[c] # None => result'[c] = result[c]
BY DEF BandTypes, NetTypes, Return, Taken, Effect, Human, Positions

-----------------------------------------------------------------------------
(* The broker, and the requests on their way.                              *)

\* What the broker does leaves the bands alone.
LEMMA BandsLeftAlone ==
    ASSUME HoldsInv, UNCHANGED modVars, NetTypes', Sound' => Carried',
           \A c \in Calls : /\ press'[c].key = press[c].key
                            /\ press'[c] = NoPress <=> press[c] = NoPress
    PROVE  HoldsInv'
<1>0. UNCHANGED questions
    BY DEF modVars, bandVars
<1>1. UNCHANGED <<at, outcome, broken, chosen, result, gaveUp>>
    BY DEF modVars, bandVars, endVars
<1>2. BandTypes' /\ EndsWithOutcome'
    BY <1>1, <1>0 DEF HoldsInv, BandTypes, EndsWithOutcome, Effect
<1>3. PressedKeys' /\ EndsForAReason'
    BY <1>1 DEF HoldsInv, PressedKeys, EndsForAReason
<1>4. Carried'
    BY DEF Carried
<1> QED
    BY <1>2, <1>3, <1>4 DEF HoldsInv

\* What is decided is the outcome of a call that had none.
LEMMA DecideMoves ==
    ASSUME HoldsInv, NEW c \in Calls, NEW out \in Human, fate[c] = "open", Decide(c, out),
           UNCHANGED <<ask, carry, outcome>>, Sound
    PROVE  Carried'
<1>1. /\ fate'[c] = out /\ \A o \in Calls : o # c => fate'[o] = fate[o]
      /\ decided' = decided \cup {<<c, out>>}
    BY DEF Decide, HoldsInv, NetTypes
<1>2. \A o \in Calls : o # c => DecidedAs(o)' = DecidedAs(o)
    BY <1>1 DEF DecidedAs
<1>3. /\ DecidedAs(c) = {} /\ ask[c] \notin Outcomes /\ carry[c] = None /\ outcome[c] = None
    BY DEF HoldsInv, Carried
<1>4. DecidedAs(c)' = {out}
    BY <1>1, <1>3 DEF DecidedAs
<1>5. out \in Outcomes /\ None \notin Outcomes /\ {"new", "open"} \cap Outcomes = {}
    BY DEF Outcomes, Human, Keys, None
<1> SUFFICES ASSUME NEW o \in Calls
             PROVE  /\ fate'[o] \in {"new", "open"} =>
                          /\ DecidedAs(o)' = {}
                          /\ ask'[o] \notin Outcomes /\ carry'[o] = None /\ outcome'[o] = None
                    /\ fate'[o] \in Outcomes => Right(o, fate[o])'
                    /\ ask'[o] \in Outcomes => Right(o, ask[o])'
                    /\ carry'[o] \in Outcomes => Right(o, carry[o])'
                    /\ outcome'[o] \in Outcomes => Right(o, outcome[o])'
    BY DEF Carried, Right
<1>6. CASE o = c
    BY <1>1, <1>3, <1>4, <1>5, <1>6 DEF Right
<1>7. CASE o # c
    BY <1>1, <1>2, <1>7 DEF HoldsInv, Carried, Right
<1> QED
    BY <1>6, <1>7

\* No decision is made: what is carried on is what the broker had.
LEMMA CarriedOn ==
    ASSUME HoldsInv, UNCHANGED <<decided, outcome>>, Sound,
           \A c \in Calls :
               /\ fate'[c] \in {"new", "open"} =>
                     /\ fate[c] \in {"new", "open"}
                     /\ ask'[c] \notin Outcomes /\ carry'[c] = None
               /\ \A t \in {fate'[c], ask'[c], carry'[c]} : t \in Outcomes =>
                     \/ t \in {fate[c], ask[c], carry[c]}
                     \/ t = "release" /\ fate[c] \in {"new", "open"}
    PROVE  Carried'
<1>1. \A c \in Calls : DecidedAs(c)' = DecidedAs(c)
    BY DEF DecidedAs
<1>2. "release" \notin Human
    BY DEF Human, Keys
<1>3. ASSUME NEW c \in Calls, NEW t \in {fate'[c], ask'[c], carry'[c]}, t \in Outcomes
      PROVE  DecidedAs(c) = IF t \in Human THEN {t} ELSE {}
    <2>1. CASE t \in {fate[c], ask[c], carry[c]}
        BY <1>3, <2>1 DEF HoldsInv, Carried, Right
    <2>2. CASE t = "release" /\ fate[c] \in {"new", "open"}
        BY <1>2, <2>2 DEF HoldsInv, Carried
    <2> QED
        BY <1>3, <2>1, <2>2
<1>4. \A c \in Calls :
         /\ fate[c] \in {"new", "open"} => DecidedAs(c) = {} /\ outcome[c] = None
         /\ outcome[c] \in Outcomes => Right(c, outcome[c])
    BY DEF HoldsInv, Carried
<1> QED
    BY <1>1, <1>3, <1>4 DEF Carried, Right

\* The broker replies to a request that is awaited.
LEMMA BrokerRepliesKeeps ==
    ASSUME HoldsInv, NEW c \in Calls, BrokerReplies(c)
    PROVE  HoldsInv'
<1>1. PICK reply \in Replies \cup {"parked"}, new \in {"new", "open", "told", "release"} :
          /\ \/ ask[c] = "sent" /\ HoldRoute(c, reply, new)
             \/ ask[c] = "parked" /\ Wakes(c, reply, new)
          /\ ask' = [ask EXCEPT ![c] = reply]
          /\ fate' = [fate EXCEPT ![c] = new]
    BY DEF BrokerReplies
<1>2. UNCHANGED <<modVars, press, late, carry, registered, decided, faults, regs, outcome>>
    BY DEF BrokerReplies, modVars, bandVars
<1>3. NetTypes'
    BY <1>1, <1>2 DEF HoldsInv, NetTypes, Outcomes
<1>4. ASSUME Sound' PROVE Carried'
    <2>1. Sound
        BY <1>2, <1>4 DEF Sound
    <2>2. /\ ask'[c] = reply /\ fate'[c] = new
          /\ \A o \in Calls : o # c => ask'[o] = ask[o] /\ fate'[o] = fate[o]
        BY <1>1 DEF HoldsInv, NetTypes
    <2>3. ask[c] \notin Outcomes
        BY <1>1 DEF Outcomes, Human, Keys
    <2>4. /\ new \in {"new", "open"} => fate[c] \in {"new", "open"} /\ reply \notin Outcomes
          /\ reply \in Outcomes =>
                reply = fate[c] \/ (reply = "release" /\ fate[c] = "new")
          /\ new \in Outcomes => new = "release" /\ fate[c] = "new"
        BY <1>1, <2>1 DEF HoldRoute, Wakes, Outcomes, Human, Keys, Sound
    <2>5. \A o \in Calls : fate[o] \in {"new", "open"} => ask[o] \notin Outcomes /\ carry[o] = None
        BY <2>1 DEF HoldsInv, Carried
    <2>6. ASSUME NEW o \in Calls
          PROVE  /\ fate'[o] \in {"new", "open"} =>
                     /\ fate[o] \in {"new", "open"}
                     /\ ask'[o] \notin Outcomes /\ carry'[o] = None
                 /\ \A t \in {fate'[o], ask'[o], carry'[o]} : t \in Outcomes =>
                     \/ t \in {fate[o], ask[o], carry[o]}
                     \/ t = "release" /\ fate[o] \in {"new", "open"}
        <3>1. CASE o = c
            BY <1>2, <2>2, <2>4, <2>5, <3>1
        <3>2. CASE o # c
            BY <1>2, <2>2, <2>5, <3>2
        <3> QED
            BY <3>1, <3>2
    <2> QED
        BY <1>2, <2>1, <2>6, CarriedOn
<1> QED
    BY <1>2, <1>3, <1>4, BandsLeftAlone

\* A request given up on is answered in vain.
LEMMA BrokerRepliesInVainKeeps ==
    ASSUME HoldsInv, NEW c \in Calls, BrokerRepliesInVain(c)
    PROVE  HoldsInv'
<1>1. PICK reply \in Replies \cup {"parked"}, new \in {"new", "open", "told", "release"} :
          /\ \/ stray[c] = "sent" /\ HoldRoute(c, reply, new)
             \/ stray[c] = "parked" /\ Wakes(c, reply, new)
          /\ fate' = [fate EXCEPT ![c] = new]
    BY DEF BrokerRepliesInVain
<1>2. UNCHANGED <<modVars, ask, press, late, carry, registered, decided, faults, regs, outcome>>
    BY DEF BrokerRepliesInVain, modVars, bandVars
<1>3. NetTypes'
    BY <1>1, <1>2 DEF HoldsInv, NetTypes, Outcomes
<1>4. ASSUME Sound' PROVE Carried'
    <2>1. Sound
        BY <1>2, <1>4 DEF Sound
    <2>2. fate'[c] = new /\ \A o \in Calls : o # c => fate'[o] = fate[o]
        BY <1>1 DEF HoldsInv, NetTypes
    <2>3. /\ new \in {"new", "open"} => fate[c] \in {"new", "open"}
          /\ new \in Outcomes => new = "release" /\ fate[c] = "new"
        BY <1>1, <2>1 DEF HoldRoute, Wakes, Outcomes, Human, Keys, Sound
    <2>4. \A o \in Calls : fate[o] \in {"new", "open"} => ask[o] \notin Outcomes /\ carry[o] = None
        BY <2>1 DEF HoldsInv, Carried
    <2> QED
        BY <1>2, <2>1, <2>2, <2>3, <2>4, CarriedOn
<1> QED
    BY <1>2, <1>3, <1>4, BandsLeftAlone

\* A reply that is lost is told: what is known of this run is that one was.
LEMMA HoldFailsKeeps ==
    ASSUME HoldsInv, NEW c \in Calls, HoldFails(c)
    PROVE  HoldsInv'
<1> DEFINE lost == [d \in Calls |-> IF d = c THEN ask[d] ELSE None]
<1>1. /\ UNCHANGED <<modVars, press, late, carry, registered, decided, regs>>
      /\ ask' = [ask EXCEPT ![c] = "failed"] /\ PutBack(lost) /\ faults' = faults + 1
    BY DEF HoldFails, RequestLost
<1>2. ~Sound'
    BY <1>1 DEF Sound, HoldsInv, NetTypes
<1> HIDE DEF lost
<1>3. NetTypes'
    BY <1>1 DEF HoldsInv, NetTypes, PutBack, Replies
<1> QED
    BY <1>1, <1>2, <1>3, BandsLeftAlone

\* The reply of the poll leg takes an outcome along.
LEMMA PollTakesKeeps ==
    ASSUME HoldsInv, NEW c \in Calls, PollTakes(c)
    PROVE  HoldsInv'
<1>1. /\ UNCHANGED <<modVars, ask, press, late, registered, decided, faults, regs, outcome>>
      /\ fate[c] \in Outcomes
      /\ carry' = [carry EXCEPT ![c] = fate[c]] /\ fate' = [fate EXCEPT ![c] = "told"]
    BY DEF PollTakes, modVars, bandVars
<1>2. NetTypes'
    BY <1>1 DEF HoldsInv, NetTypes
<1>3. ASSUME Sound' PROVE Carried'
    <2>1. Sound
        BY <1>1, <1>3 DEF Sound
    <2>2. /\ carry'[c] = fate[c] /\ fate'[c] = "told" /\ "told" \notin Outcomes
          /\ \A o \in Calls : o # c => fate'[o] = fate[o] /\ carry'[o] = carry[o]
        BY <1>1 DEF HoldsInv, NetTypes, Outcomes, Human, Keys
    <2>3. \A o \in Calls : fate[o] \in {"new", "open"} => ask[o] \notin Outcomes /\ carry[o] = None
        BY <2>1 DEF HoldsInv, Carried
    <2> QED
        BY <1>1, <2>1, <2>2, <2>3, CarriedOn
<1> QED
    BY <1>1, <1>2, <1>3, BandsLeftAlone

\* The app decides.
LEMMA AppDecidesKeeps ==
    ASSUME HoldsInv, NEW c \in Calls, AppDecides(c)
    PROVE  HoldsInv'
<1>1. UNCHANGED <<modVars, ask, press, late, carry, registered, faults, regs, outcome>>
    BY DEF AppDecides, modVars, bandVars, netVars
<1>2. PICK out \in Human : fate[c] = "open" /\ Decide(c, out)
    BY DEF AppDecides, Human, Keys
<1>3. NetTypes'
    BY <1>1, <1>2 DEF HoldsInv, NetTypes, Decide, Outcomes
<1>4. Sound' => Carried'
    BY <1>1, <1>2, DecideMoves DEF Sound
<1> QED
    BY <1>1, <1>3, <1>4, BandsLeftAlone

\* An answer event that finds the call held decides it.
LEMMA PressArrivesKeeps ==
    ASSUME HoldsInv, NEW c \in Calls, PressArrives(c)
    PROVE  HoldsInv'
<1>1. /\ UNCHANGED <<modVars, ask, late, carry, registered, faults, regs, outcome>>
      /\ press[c].st = "sent" /\ press[c] # NoPress
    BY DEF PressArrives, modVars, bandVars, NoPress, None
<1>2. /\ press[c] \in [key : Keys \cup {None}, st : PressStates] /\ press[c].key \in Keys
    BY <1>1 DEF HoldsInv, NetTypes, PressedKeys
<1>3. ASSUME NEW st \in PressStates \ {None}, press' = [press EXCEPT ![c].st = st]
      PROVE  /\ press' \in [Calls -> [key : Keys \cup {None}, st : PressStates]]
             /\ \A o \in Calls : /\ press'[o].key = press[o].key
                                 /\ press'[o] = NoPress <=> press[o] = NoPress
    <2>1. press' \in [Calls -> [key : Keys \cup {None}, st : PressStates]]
        BY <1>3 DEF HoldsInv, NetTypes
    <2>2. /\ press'[c].key = press[c].key /\ press'[c].st = st
          /\ \A o \in Calls : o # c => press'[o] = press[o]
        BY <1>2, <1>3 DEF HoldsInv, NetTypes
    <2> QED
        BY <1>1, <2>1, <2>2 DEF NoPress
<1>4. /\ {"taken", "gone", "refused"} \subseteq PressStates \ {None}
      /\ Keys \subseteq Human /\ Human \subseteq Outcomes
    BY DEF PressStates, None, Human, Outcomes
<1>5. CASE registered /\ fate[c] = "open"
    <2>1. Decide(c, press[c].key) /\ press' = [press EXCEPT ![c].st = "taken"]
        BY <1>5 DEF PressArrives
    <2>2. NetTypes'
        BY <1>1, <1>2, <1>3, <1>4, <2>1 DEF HoldsInv, NetTypes, Decide
    <2>3. Sound' => Carried'
        BY <1>1, <1>2, <1>4, <1>5, <2>1, DecideMoves DEF Sound
    <2> QED
        BY <1>1, <1>3, <1>4, <2>1, <2>2, <2>3, BandsLeftAlone
<1>6. CASE ~(registered /\ fate[c] = "open")
    <2>1. /\ press' = [press EXCEPT ![c].st = IF registered THEN "gone" ELSE "refused"]
          /\ UNCHANGED <<fate, decided>>
        BY <1>6 DEF PressArrives
    <2>2. PICK st \in PressStates \ {None} : press' = [press EXCEPT ![c].st = st]
        BY <1>4, <2>1
    <2>3. NetTypes'
        BY <1>1, <1>3, <2>1, <2>2 DEF HoldsInv, NetTypes
    <2>4. Sound' => Carried'
        BY <1>1, <2>1 DEF HoldsInv, Carried, Sound, Right, DecidedAs
    <2> QED
        BY <1>1, <1>3, <2>2, <2>3, <2>4, BandsLeftAlone
<1> QED
    BY <1>5, <1>6

\* The answer event, or its reply, is lost.
LEMMA PressFailsKeeps ==
    ASSUME HoldsInv, NEW c \in Calls, PressFails(c)
    PROVE  HoldsInv'
<1>1. /\ UNCHANGED <<modVars, ask, late, carry, registered, decided, fate, regs>>
      /\ press[c].st # None /\ press[c] # NoPress /\ faults' = faults + 1
      /\ press' = [press EXCEPT ![c].st = "failed"]
    BY DEF PressFails, RequestLost, brokerVars, NoPress, None
<1>2. press[c] \in [key : Keys \cup {None}, st : PressStates] /\ "failed" \in PressStates
    BY DEF HoldsInv, NetTypes, PressStates
<1>3. press' \in [Calls -> [key : Keys \cup {None}, st : PressStates]]
    BY <1>1, <1>2 DEF HoldsInv, NetTypes
<1>4. /\ press'[c].key = press[c].key /\ press'[c].st = "failed"
      /\ \A o \in Calls : o # c => press'[o] = press[o]
    BY <1>1, <1>2 DEF HoldsInv, NetTypes
<1>5. press'[c] # NoPress
    BY <1>4 DEF NoPress, None
<1>6. ~Sound'
    BY <1>1 DEF Sound, HoldsInv, NetTypes
<1>7. NetTypes'
    BY <1>1, <1>3 DEF HoldsInv, NetTypes
<1> QED
    BY <1>1, <1>4, <1>5, <1>6, <1>7, BandsLeftAlone

\* An answer event given up on decides like any other.
LEMMA LateArrivesKeeps ==
    ASSUME HoldsInv, NEW c \in Calls, LateArrives(c)
    PROVE  HoldsInv'
<1>1. /\ UNCHANGED <<modVars, ask, press, carry, registered, faults, regs, outcome>>
      /\ late[c] \in Keys /\ late' = [late EXCEPT ![c] = None]
    BY DEF LateArrives, modVars, bandVars, HoldsInv, NetTypes
<1>2. Keys \subseteq Human /\ Human \subseteq Outcomes
    BY DEF Human, Outcomes
<1>3. CASE registered /\ fate[c] = "open"
    <2>1. Decide(c, late[c])
        BY <1>3 DEF LateArrives
    <2>2. NetTypes'
        BY <1>1, <1>2, <2>1 DEF HoldsInv, NetTypes, Decide
    <2>3. Sound' => Carried'
        BY <1>1, <1>2, <1>3, <2>1, DecideMoves DEF Sound
    <2> QED
        BY <1>1, <2>2, <2>3, BandsLeftAlone
<1>4. CASE ~(registered /\ fate[c] = "open")
    <2>1. UNCHANGED <<fate, decided>>
        BY <1>4 DEF LateArrives
    <2>2. NetTypes'
        BY <1>1, <2>1 DEF HoldsInv, NetTypes
    <2>3. Sound' => Carried'
        BY <1>1, <2>1 DEF HoldsInv, Carried, Sound, Right, DecidedAs
    <2> QED
        BY <1>1, <2>2, <2>3, BandsLeftAlone
<1> QED
    BY <1>3, <1>4

\* What has no decision is let go: by a notice, the end of the turn, of a lease
\* or of the row.
LEMMA LetGoKeeps ==
    ASSUME HoldsInv, UNCHANGED <<modVars, press, late, carry, decided, faults, regs>>,
           registered' \in BOOLEAN, registered' => registered,
           \A c \in Calls : ask'[c] = ask[c] \/ ask'[c] = "refused",
           ask' \in [Calls -> Replies \cup {None, "sent", "parked"}],
           fate' \in [Calls -> Outcomes \cup {"new", "open", "told"}],
           \A c \in Calls : \/ fate'[c] = fate[c]
                            \/ fate'[c] \in {"told", "release"} /\ fate[c] \in {"new", "open"}
    PROVE  HoldsInv'
<1>1. UNCHANGED outcome
    BY DEF modVars, bandVars
<1>2. NetTypes'
    BY DEF HoldsInv, NetTypes
<1>3. ASSUME Sound' PROVE Carried'
    <2>1. Sound
        BY <1>3 DEF Sound, HoldsInv, NetTypes
    <2>2. {"told", "refused"} \cap Outcomes = {}
        BY DEF Outcomes, Human, Keys
    <2>3. \A o \in Calls : fate[o] \in {"new", "open"} => ask[o] \notin Outcomes /\ carry[o] = None
        BY <2>1 DEF HoldsInv, Carried
    <2> QED
        BY <1>1, <2>1, <2>2, <2>3, CarriedOn
<1> QED
    BY <1>2, <1>3, BandsLeftAlone

\* The calls of C that are still open go to their own dialog.
LEMMA ReleaseOpenMoves ==
    ASSUME NetTypes, NEW C, ReleaseOpen(C)
    PROVE  /\ fate' \in [Calls -> Outcomes \cup {"new", "open", "told"}]
           /\ \A c \in Calls : \/ fate'[c] = fate[c]
                               \/ fate'[c] = "release" /\ fate[c] = "open"
BY DEF NetTypes, ReleaseOpen, Outcomes

LEMMA LetGoByNoticeKeeps ==
    ASSUME HoldsInv,
           TurnOverArrives \/ \E c \in Calls : NoticeArrives(c) \/ LeaseRunsOut(c)
    PROVE  HoldsInv'
<1>1. /\ registered' \in BOOLEAN /\ ask' \in [Calls -> Replies \cup {None, "sent", "parked"}]
      /\ UNCHANGED <<modVars, ask, press, late, carry, decided, faults, regs, registered>>
    BY DEF HoldsInv, NetTypes, TurnOverArrives, NoticeArrives, LeaseRunsOut, netVars
<1>2. ASSUME NEW c \in Calls, NoticeArrives(c)
      PROVE  /\ fate' \in [Calls -> Outcomes \cup {"new", "open", "told"}]
             /\ \A o \in Calls : \/ fate'[o] = fate[o]
                                 \/ fate'[o] \in {"told", "release"} /\ fate[o] \in {"new", "open"}
    BY <1>2 DEF NoticeArrives, HoldsInv, NetTypes, Outcomes
<1>3. fate' \in [Calls -> Outcomes \cup {"new", "open", "told"}]
    BY <1>2, ReleaseOpenMoves DEF HoldsInv, NetTypes, TurnOverArrives, LeaseRunsOut
<1>4. \A o \in Calls : \/ fate'[o] = fate[o]
                       \/ fate'[o] \in {"told", "release"} /\ fate[o] \in {"new", "open"}
    BY <1>2, ReleaseOpenMoves DEF HoldsInv, TurnOverArrives, LeaseRunsOut
<1> QED
    BY <1>1, <1>3, <1>4, LetGoKeeps

LEMMA RowGoesKeeps ==
    ASSUME HoldsInv, RowGoes
    PROVE  HoldsInv'
<1>1. /\ UNCHANGED <<modVars, press, late, carry, decided, faults, regs>>
      /\ registered' = FALSE /\ ReleaseOpen(Calls)
      /\ ask' = [c \in Calls |-> IF ask[c] = "parked" THEN "refused" ELSE ask[c]]
    BY DEF RowGoes
<1>2. /\ \A c \in Calls : ask'[c] = ask[c] \/ ask'[c] = "refused"
      /\ ask' \in [Calls -> Replies \cup {None, "sent", "parked"}]
    BY <1>1 DEF HoldsInv, NetTypes, Replies
<1> QED
    BY <1>1, <1>2, ReleaseOpenMoves, LetGoKeeps DEF HoldsInv

\* A new registration knows nothing of what was held before.
LEMMA RegisterAgainKeeps ==
    ASSUME HoldsInv, questions' = questions, RegisterAgain
    PROVE  HoldsInv'
<1>1. /\ UNCHANGED <<at, outcome, broken, chosen, result, gaveUp, ask, press, late, carry,
                     decided, faults>>
      /\ registered' = TRUE /\ regs' = regs + 1 /\ fate' = [c \in Calls |-> "new"]
    BY DEF RegisterAgain, bandVars, endVars, netVars
<1>2. ~Sound'
    BY <1>1 DEF Sound, HoldsInv, NetTypes
<1>3. NetTypes'
    BY <1>1 DEF HoldsInv, NetTypes
<1>4. BandTypes' /\ PressedKeys' /\ EndsForAReason' /\ EndsWithOutcome'
    BY <1>1 DEF HoldsInv, BandTypes, PressedKeys, EndsForAReason, EndsWithOutcome, Effect
<1> QED
    BY <1>2, <1>3, <1>4 DEF HoldsInv, Carried

-----------------------------------------------------------------------------
(* The terminal.                                                           *)

\* What a call is told is what was carried to it.
LEMMA CarriedToCall ==
    ASSUME HoldsInv, UNCHANGED <<decided, fate>>, Sound,
           \A c \in Calls :
               /\ ask'[c] \in Outcomes => ask'[c] = ask[c]
               /\ carry'[c] \in {carry[c], None}
               /\ \/ outcome'[c] = outcome[c]
                  \/ outcome'[c] \in Outcomes /\ outcome'[c] \in {ask[c], carry[c]}
    PROVE  Carried'
<1>1. \A c \in Calls : DecidedAs(c)' = DecidedAs(c)
    BY DEF DecidedAs
<1>2. None \notin Outcomes /\ \A c \in Calls : carry[c] \in Outcomes \cup {None}
    BY DEF Outcomes, Human, Keys, None, HoldsInv, NetTypes
<1> QED
    BY <1>1, <1>2 DEF HoldsInv, Carried, Right

\* A step of the terminal: it decides nothing, and what it tells a call was
\* carried to it.
LEMMA TerminalStepKeeps ==
    ASSUME HoldsInv, UNCHANGED <<registered, decided, regs>>, faults' \in Nat, faults' >= faults,
           BandTypes', NetTypes', PressedKeys', EndsForAReason', EndsWithOutcome',
           faults' = faults => UNCHANGED fate,
           \A c \in Calls :
               /\ ask'[c] \in Outcomes => ask'[c] = ask[c]
               /\ carry'[c] \in {carry[c], None}
               /\ \/ outcome'[c] = outcome[c]
                  \/ outcome'[c] \in Outcomes /\ outcome'[c] \in {ask[c], carry[c]}
    PROVE  HoldsInv'
<1>1. ASSUME Sound' PROVE Carried'
    <2>1. Sound /\ faults' = faults
        BY <1>1 DEF Sound, HoldsInv, NetTypes
    <2> QED
        BY <2>1, CarriedToCall
<1>2. Carried'
    BY <1>1 DEF Carried
<1> QED
    BY <1>2 DEF HoldsInv

\* No reply that is no outcome is taken for one.
LEMMA RepliesApart ==
    /\ None \notin Outcomes /\ Outcomes \cap {"sent", "parked", "failed", "refused"} = {}
    /\ Outcomes \cap {"held", "empty", "quick", "elsewhere"} = {}
    /\ Human \subseteq Outcomes /\ Keys \subseteq Human /\ Outcomes \subseteq Replies
BY DEF Outcomes, Human, Keys, None, Replies

LEMMA HoldKeeps ==
    ASSUME HoldsInv, questions' = questions, NEW c \in Calls, Hold(c)
    PROVE  HoldsInv'
<1>1. /\ at[c] = "idle" /\ at' = [at EXCEPT ![c] = "top"]
      /\ UNCHANGED <<outcome, broken, chosen, result, gaveUp, ask, press, late, carry,
                     registered, fate, decided, faults, regs>>
    BY DEF Hold, endVars, netVars, brokerVars
<1>2. BandTypes' /\ NetTypes'
    BY <1>1 DEF HoldsInv, BandTypes, NetTypes, Positions
<1>3. at'[c] = "top" /\ \A o \in Calls : o # c => at'[o] = at[o]
    BY <1>1 DEF HoldsInv, BandTypes
<1>4. PressedKeys' /\ EndsForAReason' /\ EndsWithOutcome'
    BY <1>1, <1>3 DEF HoldsInv, PressedKeys, EndsForAReason, EndsWithOutcome, Effect
<1> QED
    BY <1>1, <1>2, <1>4, TerminalStepKeeps DEF NetTypes, HoldsInv

\* A call that is handed back has its reason.
LEMMA HandBackKeeps ==
    ASSUME HoldsInv, questions' = questions, NEW c \in Calls, HandBack(c), at[c] # "over",
           UNCHANGED <<outcome, broken, chosen, press, late, carry, registered, fate,
                       decided, faults, regs>>
    PROVE  HoldsInv'
<1>1. Return(c, None) /\ gaveUp' = gaveUp \cup {c}
    BY DEF HandBack
<1>2. BandTypes' /\ NetTypes'
    BY <1>1, ReturnMoves DEF HoldsInv, BandTypes, NetTypes
<1>3. PressedKeys' /\ EndsForAReason' /\ EndsWithOutcome'
    BY <1>1, ReturnMoves DEF HoldsInv, PressedKeys, EndsForAReason, EndsWithOutcome, Effect
<1>4. \A o \in Calls : ask'[o] \in Outcomes => ask'[o] = ask[o]
    BY <1>1, ReturnMoves, RepliesApart DEF HoldsInv
<1> QED
    BY <1>2, <1>3, <1>4, TerminalStepKeeps DEF NetTypes, HoldsInv

\* A hold returns with the outcome of its band, or asks once more.
LEMMA LoopKeeps ==
    ASSUME HoldsInv, questions' = questions, NEW c \in Calls, Loop(c)
    PROVE  HoldsInv'
<1>1. /\ at[c] \in {"top", "leaving"}
      /\ UNCHANGED <<outcome, broken, chosen, press, late, carry, registered, fate,
                     decided, faults, regs>>
    BY DEF Loop, brokerVars
<1>2. CASE /\ broken[c] \/ outcome[c] # None \/ at[c] = "leaving"
           /\ Return(c, IF broken[c] THEN None ELSE outcome[c]) /\ UNCHANGED gaveUp
    <2> DEFINE out == IF broken[c] THEN None ELSE outcome[c]
    <2>1. out \in Outcomes \cup {None}
        BY DEF HoldsInv, BandTypes
    <2>2. Return(c, out)
        BY <1>2
    <2>3. BandTypes' /\ NetTypes'
        BY <1>1, <1>2, <2>1, <2>2, ReturnMoves DEF HoldsInv, BandTypes, NetTypes
    <2>4. result[c] \in {None, "picker"}
        BY <1>1 DEF HoldsInv, PressedKeys
    <2>5. PressedKeys'
        BY <1>1, <2>1, <2>2, ReturnMoves DEF HoldsInv, PressedKeys
    <2>6. EndsForAReason'
        BY <1>1, <1>2, <2>1, <2>2, ReturnMoves DEF HoldsInv, EndsForAReason
    <2>7. EndsWithOutcome'
        <3>1. ~broken[c] => out = outcome[c]
            OBVIOUS
        <3> HIDE DEF out
        <3> QED
            BY <1>1, <1>2, <2>1, <2>2, <2>4, <3>1, ReturnMoves DEF HoldsInv, EndsWithOutcome, Effect
    <2>8. \A o \in Calls : ask'[o] \in Outcomes => ask'[o] = ask[o]
        BY <2>1, <2>2, ReturnMoves, RepliesApart DEF HoldsInv
    <2> QED
        BY <1>1, <2>3, <2>5, <2>6, <2>7, <2>8, TerminalStepKeeps DEF NetTypes, HoldsInv
<1>3. CASE /\ at[c] = "top" /\ at' = [at EXCEPT ![c] = "asked"]
           /\ ask' = [ask EXCEPT ![c] = "sent"] /\ UNCHANGED endVars
    <2>1. BandTypes' /\ NetTypes'
        BY <1>1, <1>3 DEF HoldsInv, BandTypes, NetTypes, Positions, endVars
    <2>2. /\ at'[c] = "asked" /\ ask'[c] = "sent"
          /\ \A o \in Calls : o # c => at'[o] = at[o] /\ ask'[o] = ask[o]
        BY <1>3 DEF HoldsInv, BandTypes, NetTypes
    <2>3. PressedKeys' /\ EndsForAReason' /\ EndsWithOutcome'
        BY <1>1, <1>3, <2>2
           DEF HoldsInv, PressedKeys, EndsForAReason, EndsWithOutcome, Effect, endVars
    <2>4. \A o \in Calls : ask'[o] \in Outcomes => ask'[o] = ask[o]
        BY <2>2, RepliesApart
    <2> QED
        BY <1>1, <2>1, <2>3, <2>4, TerminalStepKeeps DEF NetTypes, HoldsInv
<1> QED
    BY <1>2, <1>3 DEF Loop

\* A hold that is at its request goes on to another place in its loop.
LEMMA MoveOnKeeps ==
    ASSUME HoldsInv, questions' = questions, NEW c \in Calls,
           NEW where \in {"top", "elsewhere"}, MoveOn(c, where),
           at[c] = "asked",
           UNCHANGED <<outcome, broken, chosen, result, gaveUp, press, late, carry,
                       registered, fate, decided, faults, regs>>
    PROVE  HoldsInv'
<1>1. at' = [at EXCEPT ![c] = where] /\ ask' = [ask EXCEPT ![c] = None]
    BY DEF MoveOn
<1>2. BandTypes' /\ NetTypes'
    BY <1>1 DEF HoldsInv, BandTypes, NetTypes, Positions
<1>3. /\ at'[c] = where /\ ask'[c] = None
      /\ \A o \in Calls : o # c => at'[o] = at[o] /\ ask'[o] = ask[o]
    BY <1>1 DEF HoldsInv, BandTypes, NetTypes
<1>4. PressedKeys' /\ EndsForAReason' /\ EndsWithOutcome'
    BY <1>3 DEF HoldsInv, PressedKeys, EndsForAReason, EndsWithOutcome, Effect
<1>5. \A o \in Calls : ask'[o] \in Outcomes => ask'[o] = ask[o]
    BY <1>3, RepliesApart
<1> QED
    BY <1>2, <1>4, <1>5, TerminalStepKeeps DEF NetTypes, HoldsInv

\* Bands are broken: no outcome is given after that.
LEMMA BreakKeeps ==
    ASSUME HoldsInv, questions' = questions, NEW C, Break(C),
           UNCHANGED <<outcome, chosen, gaveUp, press, late, registered, decided, regs>>,
           \A c \in Calls : \/ result'[c] = result[c]
                            \/ result'[c] = "picker",
           result' \in [Calls -> Human \cup {None, "dialog", "picker"}],
           faults' \in Nat, faults' >= faults, faults' = faults => UNCHANGED fate,
           fate' \in [Calls -> Outcomes \cup {"new", "open", "told"}],
           carry' \in [Calls -> Outcomes \cup {None}],
           \A c \in Calls : carry'[c] \in {carry[c], None}
    PROVE  HoldsInv'
<1>1. BandTypes' /\ NetTypes'
    BY BreakMoves DEF HoldsInv, BandTypes, NetTypes
<1>2. PressedKeys'
    BY BreakMoves DEF HoldsInv, PressedKeys
<1>3. EndsForAReason'
    BY BreakMoves DEF HoldsInv, EndsForAReason
<1>4. EndsWithOutcome'
    BY BreakMoves DEF HoldsInv, EndsWithOutcome, Effect
<1>5. \A o \in Calls : ask'[o] \in Outcomes => ask'[o] = ask[o]
    BY BreakMoves, RepliesApart DEF HoldsInv
<1> QED
    BY <1>1, <1>2, <1>3, <1>4, <1>5, TerminalStepKeeps

\* An outcome is told to its call.
LEMMA SettleKeeps ==
    ASSUME HoldsInv, questions' = questions, NEW c \in Calls, NEW out \in Outcomes, Settle(c, out),
           out \in {ask[c], carry[c]},
           UNCHANGED <<broken, chosen, result, gaveUp, press, late, registered, fate,
                       decided, faults, regs>>,
           carry' \in [Calls -> Outcomes \cup {None}],
           \A o \in Calls : carry'[o] \in {carry[o], None}
    PROVE  HoldsInv'
<1>1. BandTypes' /\ NetTypes'
    BY SettleMoves DEF HoldsInv, BandTypes, NetTypes
<1>2. PressedKeys'
    BY SettleMoves DEF HoldsInv, PressedKeys
<1>3. EndsForAReason'
    BY SettleMoves DEF HoldsInv, EndsForAReason
<1>4. EndsWithOutcome'
    BY SettleMoves DEF HoldsInv, EndsWithOutcome, Effect
<1>5. \A o \in Calls : ask'[o] \in Outcomes => ask'[o] = ask[o]
    BY SettleMoves, RepliesApart DEF HoldsInv
<1>6. \A o \in Calls : \/ outcome'[o] = outcome[o]
                       \/ outcome'[o] \in Outcomes /\ outcome'[o] \in {ask[o], carry[o]}
    BY SettleMoves DEF HoldsInv
<1> QED
    BY <1>1, <1>2, <1>3, <1>4, <1>5, <1>6, TerminalStepKeeps DEF NetTypes, HoldsInv

\* The reply of the hold request, whatever it says.
LEMMA ReadReplyKeeps ==
    ASSUME HoldsInv, questions' = questions, NEW c \in Calls, ReadReply(c)
    PROVE  HoldsInv'
<1>1. /\ at[c] = "asked"
      /\ UNCHANGED <<chosen, press, late, carry, registered, fate, decided, faults, regs>>
    BY DEF ReadReply, brokerVars
<1>2. CASE ReadHeld(c)
    BY <1>1, <1>2, MoveOnKeeps DEF ReadHeld, endVars
<1>3. CASE ReadEmpty(c)
    <2>1. UNCHANGED <<outcome, broken>>
        BY <1>3 DEF ReadEmpty
    <2>2. (MoveOn(c, "top") /\ UNCHANGED endVars) \/ HandBack(c)
        BY <1>3 DEF ReadEmpty
    <2> QED
        BY <1>1, <2>1, <2>2, MoveOnKeeps, HandBackKeeps DEF endVars
<1>4. CASE ReadElsewhere(c)
    BY <1>1, <1>4, MoveOnKeeps DEF ReadElsewhere, endVars
<1>5. CASE ReadOutcome(c)
    <2>1. ask[c] \in Outcomes /\ Settle(c, ask[c])
          /\ UNCHANGED <<broken, result, gaveUp>>
        BY <1>5 DEF ReadOutcome, endVars
    <2>2. carry' \in [Calls -> Outcomes \cup {None}]
        BY <1>1 DEF HoldsInv, NetTypes
    <2> QED
        BY <1>1, <2>1, <2>2, SettleKeeps
<1>6. CASE ReadRefusal(c)
    BY <1>1, <1>6, HandBackKeeps DEF ReadRefusal
<1>7. CASE ReadFault(c)
    <2>1. UNCHANGED <<outcome, result, gaveUp>>
        BY <1>7 DEF ReadFault, endVars
    <2>2. (MoveOn(c, "top") /\ UNCHANGED broken) \/ Break(Calls)
        BY <1>7 DEF ReadFault, Fault
    <2>3. CASE Break(Calls)
        <3>1. /\ carry' \in [Calls -> Outcomes \cup {None}]
              /\ fate' \in [Calls -> Outcomes \cup {"new", "open", "told"}]
              /\ faults' \in Nat /\ faults' >= faults
            BY <1>1 DEF HoldsInv, NetTypes
        <3>2. result' \in [Calls -> Human \cup {None, "dialog", "picker"}]
            BY <2>1 DEF HoldsInv, BandTypes
        <3> QED
            BY <1>1, <2>1, <2>3, <3>1, <3>2, BreakKeeps
    <2>4. CASE MoveOn(c, "top") /\ UNCHANGED broken
        BY <1>1, <2>1, <2>4, MoveOnKeeps
    <2> QED
        BY <2>2, <2>3, <2>4
<1> QED
    BY <1>2, <1>3, <1>4, <1>5, <1>6, <1>7 DEF ReadReply

LEMMA TimesOutKeeps ==
    ASSUME HoldsInv, questions' = questions, NEW c \in Calls, TimesOut(c)
    PROVE  HoldsInv'
<1>1. /\ HandBack(c) /\ at[c] # "over"
      /\ UNCHANGED <<outcome, broken, chosen, press, late, carry, registered, fate,
                     decided, faults, regs>>
    BY DEF TimesOut, brokerVars
<1> QED
    BY <1>1, HandBackKeeps

\* A key is pressed on an open band, or the answer to it is read or given up on.
LEMMA KeysKeep ==
    ASSUME HoldsInv, questions' = questions, BandTypes', NetTypes', PressedKeys', EndsForAReason',
           UNCHANGED <<outcome, broken, result, gaveUp, carry, registered, fate, decided,
                       faults, regs>>,
           \A c \in Calls : at'[c] = "over" <=> at[c] = "over",
           \A c \in Calls : ask'[c] \in {ask[c], None}
    PROVE  HoldsInv'
<1>1. EndsWithOutcome'
    BY DEF HoldsInv, EndsWithOutcome, Effect
<1>2. \A o \in Calls : ask'[o] \in Outcomes => ask'[o] = ask[o]
    BY RepliesApart
<1> QED
    BY <1>1, <1>2, TerminalStepKeeps DEF HoldsInv, NetTypes

LEMMA PressKeeps ==
    ASSUME HoldsInv, questions' = questions, NEW c \in Calls, NEW key \in Keys, Press(c, key)
    PROVE  HoldsInv'
<1>1. /\ OpenBand(c) /\ chosen[c] = None
      /\ chosen' = [chosen EXCEPT ![c] = key]
      /\ press' = [press EXCEPT ![c] = [key |-> key, st |-> "sent"]]
      /\ UNCHANGED <<at, outcome, broken, result, gaveUp, ask, late, carry, registered, fate,
                     decided, faults, regs>>
    BY DEF Press, endVars, brokerVars
<1>2. [key |-> key, st |-> "sent"] \in [key : Keys \cup {None}, st : PressStates]
    BY DEF PressStates
<1>3. BandTypes' /\ NetTypes'
    BY <1>1, <1>2 DEF HoldsInv, BandTypes, NetTypes
<1>4. /\ chosen'[c] = key /\ press'[c].key = key /\ key # None
      /\ \A o \in Calls : o # c => chosen'[o] = chosen[o] /\ press'[o] = press[o]
    BY <1>1 DEF HoldsInv, BandTypes, NetTypes, Keys, None
<1>5. PressedKeys'
    BY <1>1, <1>4 DEF HoldsInv, PressedKeys
<1>6. at[c] # "over" /\ outcome[c] = None /\ ~broken[c]
    BY <1>1 DEF OpenBand, Banded
<1>7. c \notin gaveUp => at[c] # "leaving"
    BY <1>1, <1>6 DEF HoldsInv, EndsForAReason
<1>8. EndsForAReason'
    BY <1>1, <1>4, <1>6, <1>7 DEF HoldsInv, EndsForAReason
<1>9. \A o \in Calls : ask'[o] \in {ask[o], None}
    BY <1>1
<1> QED
    BY <1>1, <1>3, <1>5, <1>8, <1>9, KeysKeep

\* The keys are back, or stay as they are because nothing is awaited any more.
LEMMA ReadPressKeeps ==
    ASSUME HoldsInv, questions' = questions, NEW c \in Calls, ReadPress(c)
    PROVE  HoldsInv'
<1>1. /\ press[c].st \in {"taken", "gone", "refused", "failed"}
      /\ press' = [press EXCEPT ![c] = NoPress]
      /\ UNCHANGED <<outcome, broken, result, gaveUp, late, carry, registered, fate, decided,
                     faults, regs>>
    BY DEF ReadPress, endVars, brokerVars
<1>2. press[c] # NoPress /\ chosen[c] # None
    BY <1>1 DEF HoldsInv, PressedKeys, NoPress, None
<1>3. press'[c] = NoPress /\ \A o \in Calls : o # c => press'[o] = press[o]
    BY <1>1 DEF HoldsInv, NetTypes
<1>4. NoPress \in [key : Keys \cup {None}, st : PressStates]
    BY DEF NoPress, PressStates
<1>5. CASE press[c].st = "taken" /\ UNCHANGED <<chosen, at, stray, ask>>
    <2>1. BandTypes' /\ NetTypes'
        BY <1>1, <1>4, <1>5 DEF HoldsInv, BandTypes, NetTypes
    <2>2. PressedKeys' /\ EndsForAReason'
        BY <1>1, <1>3, <1>5 DEF HoldsInv, PressedKeys, EndsForAReason
    <2>3. \A o \in Calls : ask'[o] \in {ask[o], None}
        BY <1>5
    <2> QED
        BY <1>1, <1>5, <2>1, <2>2, <2>3, KeysKeep
<1>6. CASE HoldGone(c) /\ UNCHANGED chosen
    <2>1. Wake({c})
        BY <1>6 DEF HoldGone
    <2>2. BandTypes' /\ NetTypes'
        BY <1>1, <1>4, <1>6, <2>1, WakeMoves DEF HoldsInv, BandTypes, NetTypes
    <2>3. PressedKeys' /\ EndsForAReason'
        BY <1>1, <1>2, <1>3, <1>6, <2>1, WakeMoves DEF HoldsInv, PressedKeys, EndsForAReason
    <2> QED
        BY <1>1, <2>1, <2>2, <2>3, WakeMoves, KeysKeep DEF HoldsInv
<1>7. CASE KeysBack(c) /\ UNCHANGED <<at, stray, ask>>
    <2>1. /\ chosen' = [chosen EXCEPT ![c] = None] /\ UNCHANGED <<at, ask>>
          /\ \A o \in Calls : o # c => chosen'[o] = chosen[o]
        BY <1>7 DEF KeysBack, HoldsInv, BandTypes
    <2>2. BandTypes' /\ NetTypes'
        BY <1>1, <1>4, <2>1 DEF HoldsInv, BandTypes, NetTypes
    <2>3. PressedKeys' /\ EndsForAReason'
        BY <1>1, <1>2, <1>3, <2>1 DEF HoldsInv, PressedKeys, EndsForAReason
    <2>4. \A o \in Calls : ask'[o] \in {ask[o], None}
        BY <2>1
    <2> QED
        BY <1>1, <2>1, <2>2, <2>3, <2>4, KeysKeep
<1> QED
    BY <1>5, <1>6, <1>7 DEF ReadPress

LEMMA PressTimesOutKeeps ==
    ASSUME HoldsInv, questions' = questions, NEW c \in Calls, PressTimesOut(c)
    PROVE  HoldsInv'
<1>1. /\ press[c] # NoPress /\ press' = [press EXCEPT ![c] = NoPress]
      /\ chosen' = [chosen EXCEPT ![c] = None]
      /\ late' = [late EXCEPT ![c] = IF press[c].st = "sent" THEN press[c].key ELSE @]
      /\ UNCHANGED <<at, outcome, broken, result, gaveUp, ask, carry, registered, fate, decided,
                     faults, regs>>
    BY DEF PressTimesOut, KeysBack, endVars, brokerVars
<1>2. /\ press'[c] = NoPress /\ press[c].key \in Keys
      /\ \A o \in Calls : o # c => chosen'[o] = chosen[o] /\ press'[o] = press[o]
    BY <1>1 DEF HoldsInv, BandTypes, NetTypes, PressedKeys
<1>3. NoPress \in [key : Keys \cup {None}, st : PressStates]
    BY DEF NoPress, PressStates
<1>4. BandTypes' /\ NetTypes'
    BY <1>1, <1>2, <1>3 DEF HoldsInv, BandTypes, NetTypes
<1>5. PressedKeys' /\ EndsForAReason'
    BY <1>1, <1>2 DEF HoldsInv, PressedKeys, EndsForAReason
<1>6. \A o \in Calls : ask'[o] \in {ask[o], None}
    BY <1>1
<1> QED
    BY <1>1, <1>4, <1>5, <1>6, KeysKeep

\* Every way in which the terminal takes calls back breaks their bands.
LEMMA TakeBackKeeps ==
    ASSUME HoldsInv, questions' = questions, TurnCompletes \/ \E c \in Calls : TakeBack(c)
    PROVE  HoldsInv'
<1>1. UNCHANGED <<outcome, chosen, result, gaveUp, press, late, carry, registered, fate,
                  decided, faults, regs>>
    BY DEF TurnCompletes, TakeBack, endVars, brokerVars
<1>2. PICK C : Break(C)
    BY DEF TurnCompletes, TakeBack
<1> QED
    BY <1>1, <1>2, BreakKeeps DEF HoldsInv, BandTypes, NetTypes

LEMMA PickerSettlesKeeps ==
    ASSUME HoldsInv, questions' = questions, NEW c \in Calls, PickerSettles(c)
    PROVE  HoldsInv'
<1>1. /\ result' = [result EXCEPT ![c] = "picker"] /\ Break({c})
      /\ UNCHANGED <<outcome, chosen, gaveUp, press, late, carry, registered, fate, decided,
                     faults, regs>>
    BY DEF PickerSettles, brokerVars
<1>2. /\ result' \in [Calls -> Human \cup {None, "dialog", "picker"}]
      /\ \A o \in Calls : result'[o] = result[o] \/ result'[o] = "picker"
    BY <1>1 DEF HoldsInv, BandTypes
<1> QED
    BY <1>1, <1>2, BreakKeeps DEF HoldsInv, NetTypes

\* A poll that fails counts against every band, and its outcomes are put back.
LEMMA PollFailsKeeps ==
    ASSUME HoldsInv, questions' = questions, PollFails
    PROVE  HoldsInv'
<1>1. /\ faults' = faults + 1 /\ faults \in Nat
      /\ carry' = [c \in Calls |-> None] /\ PutBack(carry) /\ Fault
      /\ UNCHANGED <<outcome, chosen, result, gaveUp, press, late, registered, decided, regs>>
    BY DEF PollFails, RequestLost, endVars, HoldsInv, NetTypes
<1>2. /\ fate' \in [Calls -> Outcomes \cup {"new", "open", "told"}]
      /\ carry' \in [Calls -> Outcomes \cup {None}]
      /\ \A c \in Calls : carry'[c] \in {carry[c], None}
    BY <1>1 DEF HoldsInv, NetTypes, PutBack
<1>3. CASE Break(Calls)
    BY <1>1, <1>2, <1>3, BreakKeeps DEF HoldsInv, BandTypes
<1>4. CASE UNCHANGED <<broken, at, stray, ask>>
    <2>1. BandTypes' /\ NetTypes'
        BY <1>1, <1>2, <1>4 DEF HoldsInv, BandTypes, NetTypes
    <2>2. PressedKeys' /\ EndsForAReason' /\ EndsWithOutcome'
        BY <1>1, <1>4 DEF HoldsInv, PressedKeys, EndsForAReason, EndsWithOutcome, Effect
    <2> QED
        BY <1>1, <1>2, <1>4, <2>1, <2>2, TerminalStepKeeps
<1> QED
    BY <1>1, <1>3, <1>4 DEF Fault

\* The reply of the poll leg tells its call.
LEMMA ReadPollKeeps ==
    ASSUME HoldsInv, questions' = questions, NEW c \in Calls, ReadPoll(c)
    PROVE  HoldsInv'
<1>1. /\ carry[c] \in Outcomes /\ Settle(c, carry[c]) /\ carry' = [carry EXCEPT ![c] = None]
      /\ UNCHANGED <<broken, chosen, result, gaveUp, press, late, registered, fate, decided,
                     faults, regs>>
    BY DEF ReadPoll, endVars, brokerVars, HoldsInv, NetTypes
<1>2. /\ carry' \in [Calls -> Outcomes \cup {None}]
      /\ \A o \in Calls : carry'[o] \in {carry[o], None}
    BY <1>1 DEF HoldsInv, NetTypes
<1> QED
    BY <1>1, <1>2, SettleKeeps

\* Nothing of a call changes.
LEMMA NothingChangedKeeps ==
    ASSUME HoldsInv, questions' = questions,
           UNCHANGED <<at, outcome, broken, chosen, result, gaveUp, ask, press, late,
                       carry, registered, fate, decided, faults, regs>>
    PROVE  HoldsInv'
BY DEF HoldsInv, BandTypes, NetTypes, PressedKeys, EndsForAReason, EndsWithOutcome, Effect, Carried,
       Sound, Right, DecidedAs

-----------------------------------------------------------------------------
LEMMA HoldsStep == HoldsInv /\ [TerminalNext]_terminalVars => HoldsInv'
<1> SUFFICES ASSUME HoldsInv, [TerminalNext]_terminalVars PROVE HoldsInv'
    OBVIOUS
<1>0. questions' = questions
    BY DEF TerminalNext, terminalVars, bandVars, modVars, ModStep, Hold, Loop, ReadReply, ReadPress,
       TimesOut, PressTimesOut, Press, TakeBack, PickerSettles, ReadPoll, BrokerReplies,
       BrokerRepliesInVain, HoldFails, PollTakes, AppDecides, PressArrives, PressFails,
       LateArrives, NoticeArrives, LeaseRunsOut, TurnCompletes, OtherReply, TurnOverArrives,
       PollFails, RowGoes, RegisterAgain
<1>1. ASSUME NEW c \in Calls,
             \/ Hold(c) \/ ModStep(c) \/ TimesOut(c) \/ PressTimesOut(c)
             \/ \E key \in Keys : Press(c, key)
             \/ PickerSettles(c) \/ ReadPoll(c)
      PROVE  HoldsInv'
    BY <1>0, <1>1, HoldKeeps, LoopKeeps, ReadReplyKeeps, ReadPressKeeps, TimesOutKeeps,
       PressTimesOutKeeps, PressKeeps, PickerSettlesKeeps, ReadPollKeeps DEF ModStep
<1>2. ASSUME NEW c \in Calls,
             \/ BrokerReplies(c) \/ BrokerRepliesInVain(c) \/ HoldFails(c) \/ PollTakes(c)
             \/ AppDecides(c) \/ PressArrives(c) \/ PressFails(c) \/ LateArrives(c)
      PROVE  HoldsInv'
    BY <1>2, BrokerRepliesKeeps, BrokerRepliesInVainKeeps, HoldFailsKeeps, PollTakesKeeps,
       AppDecidesKeeps, PressArrivesKeeps, PressFailsKeeps, LateArrivesKeeps
<1>3. CASE TurnCompletes \/ \E c \in Calls : TakeBack(c)
    BY <1>0, <1>3, TakeBackKeeps
<1>4. CASE TurnOverArrives \/ \E c \in Calls : NoticeArrives(c) \/ LeaseRunsOut(c)
    BY <1>4, LetGoByNoticeKeeps
<1>5. CASE PollFails \/ RowGoes \/ RegisterAgain
    BY <1>0, <1>5, PollFailsKeeps, RowGoesKeeps, RegisterAgainKeeps
<1>6. CASE OtherReply \/ UNCHANGED terminalVars
    BY <1>0, <1>6, NothingChangedKeeps
       DEF OtherReply, terminalVars, bandVars, netVars, brokerVars, endVars
<1> QED
    BY <1>1, <1>2, <1>3, <1>4, <1>5, <1>6 DEF TerminalNext

\* What the app decided is what becomes of the call, whichever leg tells it,
\* however requests, timers, keys and the ends of turns interleave: unless the
\* terminal took the call back or handed it back, or something went missing.
THEOREM DecisionsReachTheirCall == TerminalSpec => []DecisionReachesTheCall
<1>1. ASSUME HoldsInv PROVE DecisionReachesTheCall
    <2> SUFFICES ASSUME NEW c \in Calls, Undisturbed(c), at[c] = "over", DecidedAs(c) # {}
                 PROVE  result[c] \in {Effect(c, out) : out \in DecidedAs(c)}
        BY DEF DecisionReachesTheCall
    <2>1. outcome[c] \in Outcomes
        BY <1>1 DEF HoldsInv, EndsForAReason, BandTypes, Undisturbed
    <2>2. DecidedAs(c) = IF outcome[c] \in Human THEN {outcome[c]} ELSE {}
        BY <1>1, <2>1 DEF HoldsInv, Carried, Sound, Undisturbed, Right
    <2>3. outcome[c] \in Human => result[c] = Effect(c, outcome[c])
        BY <1>1 DEF HoldsInv, EndsWithOutcome, Effect, Undisturbed
    <2> QED
        BY <2>2, <2>3
<1> QED
    BY <1>1, HoldsInit, HoldsStep, PTL DEF TerminalSpec
=============================================================================
