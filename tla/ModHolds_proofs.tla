--------------------------- MODULE ModHolds_proofs ---------------------------
(***************************************************************************)
(* Machine-checked facts about ModHolds, for every number of evaluations,  *)
(* processes, request ids, connections, registrations and holds.           *)
(***************************************************************************)
EXTENDS ModHolds, TLAPS

-----------------------------------------------------------------------------
(* What the operators return.                                              *)

\* The requests the broker can have on its connections.
Legs == {L \in [Conns -> LegRecords] : \A c \in Conns : LegShape(L[c])}

\* Waking one request keeps it one: only a parked request is ever woken.
LEMMA WakeKeepsLeg ==
  ASSUME NEW leg \in LegRecords, LegShape(leg), NEW b \in BOOLEAN,
         b => leg.st = "parked" \/ leg.woken
  PROVE  /\ [leg EXCEPT !.woken = b] \in LegRecords
         /\ LegShape([leg EXCEPT !.woken = b])
BY DEF LegRecords, LegShape

\* So do the two operators that wake all that wait for the same thing.
LEMMA WakesKeepLegs ==
  ASSUME NEW L \in Legs
  PROVE  /\ WakeHolds(L) \in Legs
         /\ WakePolls(L) \in Legs
<1>1. ASSUME NEW c \in Conns
      PROVE  /\ WakeHolds(L)[c] \in LegRecords /\ LegShape(WakeHolds(L)[c])
             /\ WakePolls(L)[c] \in LegRecords /\ LegShape(WakePolls(L)[c])
  <2> DEFINE h == L[c].woken \/ (L[c].st = "parked" /\ L[c].id # NoId)
             p == L[c].woken \/ (L[c].st = "parked" /\ L[c].kind = "poll")
  <2>1. L[c] \in LegRecords /\ LegShape(L[c])
    BY DEF Legs
  <2>2. WakeHolds(L)[c] = [L[c] EXCEPT !.woken = h]
    BY Zenon DEF WakeHolds
  <2>3. WakePolls(L)[c] = [L[c] EXCEPT !.woken = p]
    BY Zenon DEF WakePolls
  <2>4. L[c].woken \in BOOLEAN
    BY <2>1 DEF LegRecords
  <2>5. h \in BOOLEAN /\ (h => L[c].st = "parked" \/ L[c].woken)
    BY <2>4, Zenon
  <2>6. p \in BOOLEAN /\ (p => L[c].st = "parked" \/ L[c].woken)
    BY <2>4, Zenon
  <2> HIDE DEF h, p
  <2>7. [L[c] EXCEPT !.woken = h] \in LegRecords /\ LegShape([L[c] EXCEPT !.woken = h])
    BY <2>1, <2>5, WakeKeepsLeg, Zenon
  <2>8. [L[c] EXCEPT !.woken = p] \in LegRecords /\ LegShape([L[c] EXCEPT !.woken = p])
    BY <2>1, <2>6, WakeKeepsLeg, Zenon
  <2> QED BY <2>2, <2>3, <2>7, <2>8, Zenon
<1>2. /\ WakeHolds(L) = [c \in Conns |-> WakeHolds(L)[c]]
      /\ WakePolls(L) = [c \in Conns |-> WakePolls(L)[c]]
  BY Zenon DEF WakeHolds, WakePolls
<1> QED BY <1>1, <1>2, Zenon DEF Legs

\* A connection whose request is answered is free.
LEMMA FreeKeepsLegs ==
  ASSUME NEW L \in Legs, NEW c \in Conns
  PROVE  [L EXCEPT ![c] = Free] \in Legs
<1>1. Free \in LegRecords /\ LegShape(Free)
  BY ConstantsAssumption DEF Free, LegRecords, LegShape, NoOut, Gens
<1> QED BY <1>1 DEF Legs

\* A connection that was free takes any request there can be.
LEMMA NewLegKeepsLegs ==
  ASSUME NEW L \in Legs, NEW c \in Conns, NEW leg \in LegRecords, LegShape(leg)
  PROVE  [L EXCEPT ![c] = leg] \in Legs
BY DEF Legs

\* The one exit path of a hold keeps every type.
LEMMA StopAllTypes ==
  ASSUME TypeOK, NEW K \in SUBSET Keys, NEW kind \in Human \cup {"release"},
         NEW seen \in 0..MaxHolds, StopAll(K, kind, seen)
  PROVE  /\ hold' \in [Keys -> 0..opened]
         /\ tomb' \in [Keys -> Outcomes \cup {NoOut}]
         /\ lapsed' \subseteq 1..opened
         /\ decision' \in [Serials -> [kind : Human \cup {"release", "none"}, seen : 0..MaxHolds]]
<1>1. hold \in [Keys -> 0..opened] /\ opened \in 0..MaxHolds
  BY DEF TypeOK
<1>2. hold' \in [Keys -> 0..opened]
  BY <1>1, ConstantsAssumption DEF StopAll
<1>3. ASSUME NEW k \in Keys PROVE [kind |-> kind, no |-> hold[k]] \in Outcomes
  BY <1>1, ConstantsAssumption DEF Outcomes, Human
<1>4. tomb' \in [Keys -> Outcomes \cup {NoOut}]
  BY <1>3 DEF TypeOK, StopAll
<1>5. [kind |-> kind, seen |-> seen] \in [kind : Human \cup {"release", "none"}, seen : 0..MaxHolds]
  BY DEF Human
<1>6. decision' \in [Serials -> [kind : Human \cup {"release", "none"}, seen : 0..MaxHolds]]
  BY <1>5 DEF TypeOK, StopAll
<1> QED BY <1>2, <1>4, <1>6 DEF TypeOK, StopAll

\* An outcome that goes out leaves everything well typed.
LEMMA HandOverTypes ==
  ASSUME TypeOK, NEW c \in Conns, NEW kind \in {"poll", "hold"}, NEW ev \in Evals,
         NEW i \in Ids, tomb[Now(i)] # NoOut, HandOver(c, kind, ev, i)
  PROVE  /\ tomb' \in [Keys -> Outcomes \cup {NoOut}]
         /\ handedOver' \subseteq Keys
         /\ legs' \in Legs
         /\ handed' \in [Serials -> Evals \cup {NoEval}]
<1> DEFINE k   == Now(i)
           leg == Sends(kind, ev, i, tomb[k])
<1>1. k \in Keys
  BY DEF TypeOK, Now, Keys
<1>2. tomb[k] \in Outcomes
  BY <1>1 DEF TypeOK
<1>4. ev # NoEval /\ i # NoId
  BY ConstantsAssumption
<1>5. leg \in LegRecords /\ LegShape(leg)
  BY <1>2, <1>4 DEF TypeOK, LegRecords, LegShape, Sends
<1>6. legs \in Legs
  BY DEF TypeOK, Legs
<1> HIDE DEF leg
<1>7. legs' = [legs EXCEPT ![c] = Free] \/ legs' = [legs EXCEPT ![c] = leg]
  BY DEF HandOver, Finish, leg
<1>8. legs' \in Legs
  BY <1>5, <1>6, <1>7, FreeKeepsLegs, NewLegKeepsLegs
<1>9. handed' \in [Serials -> Evals \cup {NoEval}]
  BY DEF TypeOK, HandOver, Hand
<1> QED BY <1>1, <1>2, <1>8, <1>9 DEF HandOver, TypeOK

-----------------------------------------------------------------------------
(* Type correctness.                                                       *)

\* A wait's first record, of either kind, is a request.
LEMMA WaitsIsALeg ==
  ASSUME TypeOK, NEW kind \in {"poll", "hold"}, NEW ev \in Evals, NEW i \in Ids \cup {NoId},
         kind = "hold" => i # NoId
  PROVE  Waits(kind, ev, i) \in LegRecords /\ LegShape(Waits(kind, ev, i))
<1>1. ev # NoEval
  BY ConstantsAssumption
<1> QED BY <1>1 DEF TypeOK, LegRecords, LegShape, Waits

\* The first state is well typed.
LEMMA TypeInit == Init => TypeOK
<1> SUFFICES ASSUME Init PROVE TypeOK
  OBVIOUS
<1>1. Free \in LegRecords /\ LegShape(Free)
  BY ConstantsAssumption DEF Free, LegRecords, LegShape, NoOut, Gens
<1>2. legs \in [Conns -> LegRecords] /\ \A c \in Conns : LegShape(legs[c])
  BY <1>1, Zenon DEF Init
<1>3. cardOf \in [Serials -> Cards] /\ tomb \in [Keys -> Outcomes \cup {NoOut}]
  BY DEF Init, Cards, NoCard
<1>4. Undecided \in [kind : Human \cup {"release", "none"}, seen : 0..MaxHolds]
  BY ConstantsAssumption DEF Undecided
<1>5. decision \in [Serials -> [kind : Human \cup {"release", "none"}, seen : 0..MaxHolds]]
  BY <1>4 DEF Init
<1>6. opened \in 0..MaxHolds /\ gen \in Gens /\ hold \in [Keys -> 0..opened]
  BY ConstantsAssumption DEF Init, Gens
<1> QED BY <1>2, <1>3, <1>5, <1>6 DEF Init, TypeOK

\* Every leaf of a step's type proof needs these.
LEMMA TypeFacts ==
  ASSUME TypeOK
  PROVE  /\ legs \in Legs /\ WakeHolds(legs) \in Legs /\ WakePolls(legs) \in Legs
         /\ WakeHolds(WakePolls(legs)) \in Legs /\ WakePolls(WakeHolds(legs)) \in Legs
         /\ \A L \in Legs : L \in [Conns -> LegRecords] /\ \A c \in Conns : LegShape(L[c])
         /\ \A i \in Ids : Now(i) \in Keys
         /\ \A K \in SUBSET OpenNow : K \in SUBSET Keys
         /\ 0 \in 0..MaxHolds
<1>1. legs \in Legs
  BY DEF TypeOK, Legs
<1>2. \A L \in Legs : L \in [Conns -> LegRecords] /\ \A c \in Conns : LegShape(L[c])
  BY DEF Legs
<1>3. \A i \in Ids : Now(i) \in Keys
  BY DEF TypeOK, Now, Keys
<1>4. \A K \in SUBSET OpenNow : K \in SUBSET Keys
  BY DEF OpenNow, OpenKeys
<1>5. 0 \in 0..MaxHolds
  BY ConstantsAssumption
<1> QED BY <1>1, <1>2, <1>3, <1>4, <1>5, WakesKeepLegs

\* A close of the holds K that wakes somebody, and no more.
LEMMA TypeClose ==
  ASSUME TypeOK, NEW K \in SUBSET OpenNow, NEW kind \in Human \cup {"release"},
         NEW seen \in 0..MaxHolds, StopAll(K, kind, seen), openIds' \subseteq Ids,
         legs' \in Legs, UNCHANGED <<gen, handedOver, cardVars, alive, handed>>,
         row' \in Evals \cup {NoEval}, fresh' \in BOOLEAN
  PROVE  TypeOK'
BY TypeFacts, StopAllTypes DEF TypeOK, cardVars

\* What the terminals send.
LEMMA TypeRequests ==
  ASSUME TypeOK, NEW ev \in Evals, Requests(ev)
  PROVE  TypeOK'
<1>1. CASE Register(ev)
  <2>1. gen' \in Gens
    BY <1>1, ConstantsAssumption DEF TypeOK, Register, Gens
  <2>2. CASE row # NoEval
    <3>1. StopAll(OpenNow, "release", 0)
      BY <1>1, <2>2 DEF Register
    <3>2. openIds' \subseteq Ids
      BY <1>1, <2>2 DEF TypeOK, Register
    <3> QED BY <1>1, <2>1, <3>1, <3>2, TypeFacts, StopAllTypes DEF TypeOK, Register, cardVars, Human
  <2>3. CASE row = NoEval
    BY <1>1, <2>1, <2>3, TypeFacts DEF TypeOK, Register, cardVars
  <2> QED BY <2>2, <2>3
<1>2. CASE TurnCompletes(ev)
  BY <1>2, TypeFacts, TypeClose DEF TypeOK, TurnCompletes
<1>3. CASE SessionEnds(ev)
  BY <1>3, TypeFacts, TypeClose DEF TypeOK, SessionEnds
<1>4. ASSUME NEW i \in Ids, UserCancels(ev, i)
      PROVE  TypeOK'
  BY <1>4, TypeFacts, TypeClose DEF TypeOK, UserCancels
<1>5. ASSUME NEW i \in Ids, BandAnswers(ev, i)
      PROVE  TypeOK'
  <2>1. {Now(i)} \in SUBSET OpenNow
    BY <1>5, TypeFacts DEF BandAnswers, OpenNow, OpenKeys, Now
  <2>2. (IF hold[Now(i)] \in lapsed THEN "release" ELSE "verdict") \in Human \cup {"release"}
    BY DEF Human
  <2> QED BY <1>5, <2>1, <2>2, TypeFacts, TypeClose DEF TypeOK, BandAnswers
<1>6. ASSUME NEW i \in Ids, NEW kind \in {"answer", "release"}, QuestionSettles(ev, i, kind)
      PROVE  TypeOK'
  <2>1. Now(i) \in Keys /\ legs' \in Legs
    BY <1>6, TypeFacts DEF QuestionSettles
  <2>u. UNCHANGED <<row, fresh, gen, cardOf, toolCards, opened, opener, alive, handed>>
    BY <1>6 DEF QuestionSettles, cardVars
  <2>l. legs' \in [Conns -> LegRecords] /\ \A c \in Conns : LegShape(legs'[c])
    BY <2>1, TypeFacts
  <2>h. handedOver' \subseteq Keys
    BY <1>6, <2>1 DEF TypeOK, QuestionSettles
  <2>2. CASE hold[Now(i)] # 0
    <3>1. [kind |-> kind, seen |-> 0] \in [kind : Human \cup {"release", "none"}, seen : 0..MaxHolds]
      BY TypeFacts DEF Human
    <3>2. decision' \in [Serials -> [kind : Human \cup {"release", "none"}, seen : 0..MaxHolds]]
      BY <1>6, <2>2, <3>1 DEF TypeOK, QuestionSettles
    <3>3. hold' \in [Keys -> 0..opened]
      BY <1>6, <2>2, ConstantsAssumption DEF TypeOK, QuestionSettles
    <3>4. /\ lapsed' \subseteq 1..opened /\ openIds' \subseteq Ids
          /\ tomb' \in [Keys -> Outcomes \cup {NoOut}]
      BY <1>6, <2>2 DEF TypeOK, QuestionSettles
    <3> QED BY <2>u, <2>l, <2>h, <3>2, <3>3, <3>4 DEF TypeOK
  <2>3. CASE hold[Now(i)] = 0
    <3>1. UNCHANGED <<hold, lapsed, decision, openIds, tomb>>
      BY <1>6, <2>3 DEF QuestionSettles
    <3> QED BY <2>u, <2>l, <2>h, <3>1 DEF TypeOK
  <2> QED BY <2>2, <2>3
<1>7. ASSUME NEW c \in Conns, Poll(c, ev)
      PROVE  TypeOK'
  <2>1. legs' \in Legs
    BY <1>7, TypeFacts, NewLegKeepsLegs, WaitsIsALeg DEF Poll
  <2> QED BY <1>7, <2>1, TypeFacts DEF TypeOK, Poll, storeVars, cardVars
<1>8. ASSUME NEW c \in Conns, NEW i \in Ids, HoldAgain(c, ev, i)
      PROVE  TypeOK'
  <2>1. legs' \in Legs
    BY <1>8, TypeFacts, NewLegKeepsLegs, WaitsIsALeg, ConstantsAssumption DEF HoldAgain
  <2> QED BY <1>8, <2>1, TypeFacts DEF TypeOK, HoldAgain, registryVars, cardVars
<1>9. ASSUME NEW c \in Conns, NEW i \in Ids, HoldSettled(c, ev, i)
      PROVE  TypeOK'
  BY <1>9, TypeFacts, HandOverTypes DEF TypeOK, HoldSettled, registryVars, cardVars
<1>10. ASSUME NEW c \in Conns, NEW i \in Ids, HoldReleased(c, ev, i)
       PROVE  TypeOK'
  <2>1. [kind |-> "release", no |-> 0] \in Outcomes
    BY TypeFacts DEF Outcomes
  <2> QED BY <1>10, <2>1 DEF TypeOK, HoldReleased, registryVars
<1>11. ASSUME NEW c \in Conns, NEW i \in Ids, HoldOpened(c, ev, i)
       PROVE  TypeOK'
  <2>1. opened' \in 0..MaxHolds /\ opened' = opened + 1 /\ opened' \in Serials
    BY <1>11, ConstantsAssumption DEF TypeOK, HoldOpened, Serials
  <2>2. hold' \in [Keys -> 0..opened']
    <3>1. hold' = [hold EXCEPT ![Now(i)] = opened']
      BY <1>11 DEF HoldOpened
    <3>2. opened \in Nat
      BY ConstantsAssumption DEF TypeOK
    <3>3. opened' \in 0..opened' /\ 0..opened \subseteq 0..opened'
      BY <2>1, <3>2
    <3> QED BY <3>1, <3>3 DEF TypeOK
  <2>3. CardFor(ev, i, opened + 1) \in Cards
    BY <2>1, ConstantsAssumption DEF CardFor, Cards, Serials
  <2>4. lapsed' \subseteq 1..opened'
    BY <1>11, <2>1, ConstantsAssumption DEF TypeOK, HoldOpened
  <2> QED BY <1>11, <2>1, <2>2, <2>3, <2>4 DEF TypeOK, HoldOpened
<1> QED BY <1>1, <1>2, <1>3, <1>4, <1>5, <1>6, <1>7, <1>8, <1>9, <1>10, <1>11 DEF Requests

\* What the people in the app do.
LEMMA TypeTaps ==
  ASSUME TypeOK, Taps
  PROVE  TypeOK'
<1>1. PICK m \in Serials : AppDecides(m) \/ AppAnswers(m)
  BY DEF Taps
<1>2. m \in 0..MaxHolds
  BY ConstantsAssumption DEF Serials
<1>3. CASE AppDecides(m)
  <2>1. PICK k \in Held(cardOf[m]) : StopAll({k}, "verdict", m) /\ openIds' = openIds \ {k[2]}
    BY <1>3 DEF AppDecides
  <2>2. {k} \in SUBSET OpenNow
    BY DEF Held
  <2> QED BY <1>2, <1>3, <2>1, <2>2, TypeFacts, TypeClose DEF TypeOK, AppDecides, Human
<1>4. CASE AppAnswers(m)
  <2>1. PICK k \in Held(cardOf[m]) : StopAll({k}, "answer", m) /\ openIds' = openIds \ {k[2]}
    BY <1>4 DEF AppAnswers
  <2>2. {k} \in SUBSET OpenNow
    BY DEF Held
  <2> QED BY <1>2, <1>4, <2>1, <2>2, TypeFacts, TypeClose DEF TypeOK, AppAnswers, Human
<1> QED BY <1>1, <1>3, <1>4

\* Timers, the kernel and the network.
LEMMA TypeElapses ==
  ASSUME TypeOK, Elapses
  PROVE  TypeOK'
<1>1. CASE Sweep
  <2>1. SweepKeys \in SUBSET OpenNow
    BY DEF SweepKeys
  <2>2. openIds' \subseteq Ids /\ row' \in Evals \cup {NoEval} /\ fresh' \in BOOLEAN
    BY <1>1 DEF TypeOK, Sweep
  <2> QED BY <1>1, <2>1, <2>2, TypeFacts, TypeClose DEF Sweep
<1>2. CASE GoesStale
  BY <1>2 DEF TypeOK, GoesStale, storeVars, cardVars
<1>3. ASSUME NEW k \in Keys, TombstoneTrimmed(k)
      PROVE  TypeOK'
  BY <1>3 DEF TypeOK, TombstoneTrimmed, registryVars, cardVars
<1>4. ASSUME NEW k \in Keys, LeaseRunsOut(k)
      PROVE  TypeOK'
  <2>1. hold[k] \in 1..opened
    BY <1>4, ConstantsAssumption DEF TypeOK, LeaseRunsOut
  <2>2. ASSUME NEW c \in Conns PROVE legs'[c] \in LegRecords /\ LegShape(legs'[c])
    <3> DEFINE b == legs[c].woken \/ (/\ legs[c].st = "parked"
                                      /\ legs[c].kind = "poll"
                                      /\ <<gen, legs[c].id>> = k)
    <3>1. legs'[c] = [legs[c] EXCEPT !.woken = b]
      BY <1>4, Zenon DEF LeaseRunsOut
    <3>2. legs[c] \in LegRecords /\ LegShape(legs[c])
      BY DEF TypeOK
    <3>3. legs[c].woken \in BOOLEAN
      BY <3>2 DEF LegRecords
    <3>4. b \in BOOLEAN /\ (b => legs[c].st = "parked" \/ legs[c].woken)
      BY <3>3, Zenon
    <3> HIDE DEF b
    <3> QED BY <3>1, <3>2, <3>4, WakeKeepsLeg
  <2>3. legs' \in [Conns -> LegRecords]
    BY <1>4, <2>2, Zenon DEF LeaseRunsOut
  <2> QED BY <1>4, <2>1, <2>2, <2>3 DEF TypeOK, LeaseRunsOut, registryVars, cardVars
<1>5. ASSUME NEW p \in Pids, PidDies(p)
      PROVE  TypeOK'
  BY <1>5 DEF TypeOK, PidDies, registryVars, storeVars, cardVars
<1>6. ASSUME NEW c \in Conns, ConnCloses(c)
      PROVE  TypeOK'
  <2>1. legs[c] \in LegRecords /\ LegShape(legs[c])
    BY DEF TypeOK
  <2> DEFINE b == legs[c].st = "parked" /\ legs[c].id # NoId
             leg == [legs[c] EXCEPT !.open = FALSE, !.woken = b]
  <2>2. leg \in LegRecords /\ LegShape(leg)
    BY <2>1 DEF LegRecords, LegShape
  <2>3. legs' = [legs EXCEPT ![c] = leg]
    BY <1>6 DEF ConnCloses
  <2> HIDE DEF leg
  <2>4. legs' \in Legs
    BY <2>2, <2>3, TypeFacts, NewLegKeepsLegs
  <2> QED BY <1>6, <2>4, TypeFacts DEF TypeOK, ConnCloses, registryVars, storeVars, cardVars
<1>7. ASSUME NEW c \in Conns, WaitEnds(c)
      PROVE  TypeOK'
  BY <1>7, TypeFacts, FreeKeepsLegs
     DEF TypeOK, WaitEnds, Finish, registryVars, storeVars, cardVars
<1>8. ASSUME NEW c \in Conns, WriteCompletes(c)
      PROVE  TypeOK'
  <2>1. legs[c].ev \in Evals \cup {NoEval}
    BY DEF TypeOK, LegRecords
  <2>2. handed' \in [Serials -> Evals \cup {NoEval}]
    BY <1>8, <2>1 DEF TypeOK, WriteCompletes, Hand
  <2> QED BY <1>8, <2>2, TypeFacts, FreeKeepsLegs
          DEF TypeOK, WriteCompletes, Finish, registryVars, storeVars, cardVars
<1>9. ASSUME NEW c \in Conns, WriteFails(c)
      PROVE  TypeOK'
  <2>1. legs[c] \in LegRecords /\ legs[c].out # NoOut /\ legs[c].id \in Ids
    BY <1>9 DEF TypeOK, WriteFails, LegShape, LegRecords
  <2>2. legs[c].out \in Outcomes /\ Now(legs[c].id) \in Keys
    BY <2>1, TypeFacts DEF LegRecords
  <2>3. tomb' \in [Keys -> Outcomes \cup {NoOut}] /\ handedOver' \subseteq Keys
    BY <1>9, <2>2 DEF TypeOK, WriteFails
  <2>4. [legs EXCEPT ![c] = Free] \in Legs
    BY TypeFacts, FreeKeepsLegs
  <2>5. legs' \in Legs
    BY <1>9, <2>4, WakesKeepLegs DEF WriteFails, Finish
  <2> QED BY <1>9, <2>3, <2>5, TypeFacts DEF TypeOK, WriteFails, registryVars, cardVars
<1> QED BY <1>1, <1>2, <1>3, <1>4, <1>5, <1>6, <1>7, <1>8, <1>9 DEF Elapses

\* What a woken poll looks at is a request id.
LEMMA PollTargetsAreIds ==
  ASSUME TypeOK, NEW c \in Conns
  PROVE  PollTargets(c) \subseteq Ids
BY DEF TypeOK, PollTargets, Pollable, LegRecords

\* The microtasks.
LEMMA TypeResumes ==
  ASSUME TypeOK, Resumes
  PROVE  TypeOK'
<1>1. PICK c \in Conns : ResumeHold(c) \/ ResumePoll(c)
  BY DEF Resumes
<1>2. legs[c] \in LegRecords /\ LegShape(legs[c]) /\ [legs EXCEPT ![c] = Free] \in Legs
  BY TypeFacts, FreeKeepsLegs DEF TypeOK
<1>3. CASE ResumeHold(c)
  <2>1. legs[c].id \in Ids /\ legs[c].ev \in Evals
    BY <1>2, <1>3 DEF ResumeHold, LegShape, LegRecords
  <2>2. CASE legs' = [legs EXCEPT ![c].woken = FALSE] /\ UNCHANGED <<tomb, handedOver, handed>>
    <3>1. [legs EXCEPT ![c] = [legs[c] EXCEPT !.woken = FALSE]] \in Legs
      BY <1>2, TypeFacts, WakeKeepsLeg, NewLegKeepsLegs
    <3> QED BY <1>3, <2>2, <3>1, TypeFacts DEF TypeOK, ResumeHold, registryVars, cardVars
  <2>3. CASE tomb[Now(legs[c].id)] # NoOut /\ HandOver(c, "hold", legs[c].ev, legs[c].id)
    BY <1>3, <2>1, <2>3, TypeFacts, HandOverTypes DEF TypeOK, ResumeHold, registryVars, cardVars
  <2>4. CASE Finish(c) /\ UNCHANGED <<tomb, handedOver, handed>>
    BY <1>2, <1>3, <2>4, TypeFacts DEF TypeOK, ResumeHold, Finish, registryVars, cardVars
  <2> QED BY <1>3, <2>2, <2>3, <2>4 DEF ResumeHold
<1>4. CASE ResumePoll(c)
  <2>1. legs[c].ev \in Evals /\ legs[c].kind = "poll" /\ legs[c].st = "parked"
    BY <1>2, <1>4 DEF ResumePoll, LegShape, LegRecords
  <2>2. UNCHANGED <<cardVars, alive>>
    BY <1>4 DEF ResumePoll
  <2>3. CASE Finish(c) /\ UNCHANGED <<registryVars, storeVars, decision, handed>>
    BY <1>2, <2>2, <2>3, TypeFacts DEF TypeOK, Finish, registryVars, storeVars, cardVars
  <2>4. ASSUME NEW i \in Ids \cup {NoId}, PollParks(c, i)
        PROVE  TypeOK'
    <3> DEFINE leg == [legs[c] EXCEPT !.woken = FALSE, !.id = i]
    <3>1. leg \in LegRecords /\ LegShape(leg)
      BY <1>2, <2>1 DEF LegRecords, LegShape
    <3>2. legs' = [legs EXCEPT ![c] = leg]
      BY <2>4 DEF PollParks
    <3> HIDE DEF leg
    <3>3. legs' \in Legs
      BY <3>1, <3>2, TypeFacts, NewLegKeepsLegs
    <3> QED BY <2>2, <2>4, <3>3, TypeFacts DEF TypeOK, PollParks, registryVars, storeVars, cardVars
  <2>5. ASSUME NEW i \in Ids, hold[Now(i)] # 0, StopAll({Now(i)}, "release", 0),
               openIds' = openIds \ {i}, legs' = WakeHolds([legs EXCEPT ![c] = Free]),
               UNCHANGED <<row, fresh, gen, handedOver, handed>>
        PROVE  TypeOK'
    <3>1. {Now(i)} \in SUBSET OpenNow
      BY <2>5, TypeFacts DEF OpenNow, OpenKeys, Now
    <3> QED BY <1>2, <2>2, <2>5, <3>1, TypeFacts, WakesKeepLegs, TypeClose DEF TypeOK
  <2>6. ASSUME NEW i \in Ids, tomb[Now(i)] # NoOut, HandOver(c, "poll", legs[c].ev, i),
               UNCHANGED <<registryVars, hold, lapsed, decision>>
        PROVE  TypeOK'
    BY <2>1, <2>2, <2>6, TypeFacts, HandOverTypes DEF TypeOK, registryVars, cardVars
  <2> QED BY <1>4, <2>3, <2>4, <2>5, <2>6, PollTargetsAreIds DEF ResumePoll
<1> QED BY <1>1, <1>3, <1>4

\* Every variable keeps its type, and every request its shape: what a parked
\* request waits as, and that only a parked one is ever woken.
THEOREM TypeCorrect == Spec => []TypeOK
<1>1. TypeOK /\ [Next]_vars => TypeOK'
  <2> SUFFICES ASSUME TypeOK, [Next]_vars PROVE TypeOK'
    OBVIOUS
  <2>1. CASE UNCHANGED vars
    BY <2>1 DEF TypeOK, vars, registryVars, storeVars, cardVars
  <2> QED BY <2>1, TypeRequests, TypeTaps, TypeElapses, TypeResumes DEF Next
<1> QED BY <1>1, TypeInit, PTL DEF Spec

-----------------------------------------------------------------------------
(* The store, the registry and the registration agree.                     *)

\* The same, when nothing it reads changes.
LEMMA AgreeSame ==
  ASSUME OpenHoldsAgree, UNCHANGED <<row, gen, openIds, hold, opener>>
  PROVE  OpenHoldsAgree'
BY DEF OpenHoldsAgree, OpenKeys, IdsOf

\* A close takes the holds it closes out of both records of them, because no
\* two open holds share a request id.
LEMMA AgreeClose ==
  ASSUME TypeOK, OpenHoldsAgree, NEW K \in SUBSET OpenNow, NEW kind, NEW seen,
         StopAll(K, kind, seen), openIds' = openIds \ IdsOf(K),
         UNCHANGED <<row, gen, opener>>
  PROVE  OpenHoldsAgree'
<1>1. OpenKeys' = OpenKeys \ K
  BY DEF TypeOK, OpenKeys, OpenNow, StopAll
<1>2. \A k \in OpenKeys' : hold'[k] = hold[k]
  BY <1>1 DEF StopAll, OpenKeys
<1>3. \A k, l \in OpenKeys : k[2] = l[2] => k = l
  BY DEF OpenHoldsAgree, OpenKeys, Keys
<1>4. openIds' = IdsOf(OpenKeys')
  BY <1>1, <1>3 DEF OpenHoldsAgree, IdsOf, OpenNow
<1> QED BY <1>1, <1>2, <1>4 DEF OpenHoldsAgree

\* A close of all there is leaves nothing to agree about.
LEMMA AgreeCloseAll ==
  ASSUME TypeOK, OpenHoldsAgree, NEW kind, NEW seen,
         StopAll(OpenNow, kind, seen), openIds' = {}
  PROVE  OpenHoldsAgree'
<1>1. OpenKeys \subseteq OpenNow
  BY DEF OpenHoldsAgree, OpenNow
<1>2. OpenKeys' = {}
  BY <1>1 DEF OpenKeys, StopAll
<1> QED BY <1>2 DEF OpenHoldsAgree, IdsOf

\* Nothing is open at first.
LEMMA AgreeInit == Init => OpenHoldsAgree
BY DEF Init, OpenHoldsAgree, OpenKeys, IdsOf

\* Every step keeps the records in agreement.
LEMMA AgreeStep ==
  ASSUME TypeOK, OpenHoldsAgree, Next
  PROVE  OpenHoldsAgree'
<1>0. /\ OpenNow = OpenKeys
      /\ {k \in OpenNow : k[2] \in openIds} = OpenNow
      /\ \A k \in OpenNow : IdsOf({k}) = {k[2]}
  BY DEF OpenHoldsAgree, OpenNow, IdsOf
<1>n. \A i \in Ids : hold[Now(i)] # 0 => Now(i) \in OpenNow /\ Now(i)[2] = i
  BY TypeFacts DEF OpenNow, OpenKeys, Now
<1>1. ASSUME NEW ev \in Evals, Register(ev)
      PROVE  OpenHoldsAgree'
  <2>1. CASE row # NoEval
    <3>1. openIds' = {}
      BY <1>0, <1>1, <2>1 DEF Register, OpenHoldsAgree
    <3>2. StopAll(OpenNow, "release", 0)
      BY <1>1, <2>1 DEF Register
    <3> QED BY <3>1, <3>2, AgreeCloseAll
  <2>2. CASE row = NoEval
    <3>1. OpenKeys = {}
      BY <2>2 DEF OpenHoldsAgree
    <3>2. UNCHANGED <<hold, openIds>>
      BY <1>1, <2>2 DEF Register
    <3> QED BY <3>1, <3>2 DEF OpenHoldsAgree, OpenKeys, IdsOf
  <2> QED BY <2>1, <2>2
<1>2. ASSUME NEW ev \in Evals, TurnCompletes(ev) \/ SessionEnds(ev)
      PROVE  OpenHoldsAgree'
  BY <1>0, <1>2, AgreeCloseAll DEF TurnCompletes, SessionEnds
<1>3. ASSUME NEW ev \in Evals, NEW i \in Ids, UserCancels(ev, i)
      PROVE  OpenHoldsAgree'
  <2> DEFINE K == {k \in OpenNow : k[2] = i /\ i \in openIds}
  <2>1. openIds' = openIds \ IdsOf(K)
    BY <1>0, <1>3 DEF UserCancels, OpenHoldsAgree, IdsOf
  <2> QED BY <1>3, <2>1, AgreeClose DEF UserCancels, cardVars
<1>4. ASSUME NEW ev \in Evals, NEW i \in Ids, BandAnswers(ev, i)
      PROVE  OpenHoldsAgree'
  <2>1. {Now(i)} \in SUBSET OpenNow /\ IdsOf({Now(i)}) = {i}
    BY <1>0, <1>n, <1>4 DEF BandAnswers
  <2> QED BY <1>4, <2>1, AgreeClose DEF BandAnswers, cardVars
<1>5. ASSUME NEW ev \in Evals, NEW i \in Ids, NEW kind \in {"answer", "release"},
             QuestionSettles(ev, i, kind)
      PROVE  OpenHoldsAgree'
  <2>1. CASE hold[Now(i)] # 0
    <3>1. /\ hold' = [hold EXCEPT ![Now(i)] = 0] /\ openIds' = openIds \ {i}
          /\ UNCHANGED <<row, gen, opener>>
      BY <1>5, <2>1 DEF QuestionSettles, cardVars
    <3>2. OpenKeys' = OpenKeys \ {Now(i)}
      BY <1>n, <3>1 DEF TypeOK, OpenKeys
    <3>3. \A k \in OpenKeys : k[2] = i => k = Now(i)
      BY DEF OpenHoldsAgree, OpenKeys, Keys, Now
    <3>4. openIds' = IdsOf(OpenKeys')
      BY <1>n, <2>1, <3>1, <3>2, <3>3 DEF OpenHoldsAgree, IdsOf
    <3> QED BY <3>1, <3>2, <3>4 DEF TypeOK, OpenHoldsAgree, OpenKeys
  <2>2. CASE hold[Now(i)] = 0
    BY <1>5, <2>2, AgreeSame DEF QuestionSettles, cardVars
  <2> QED BY <2>1, <2>2
<1>6. ASSUME NEW ev \in Evals, NEW c \in Conns, Poll(c, ev)
      PROVE  OpenHoldsAgree'
  BY <1>6, AgreeSame DEF Poll, storeVars, cardVars
<1>7. ASSUME NEW ev \in Evals, NEW c \in Conns, NEW i \in Ids,
             HoldAgain(c, ev, i) \/ HoldSettled(c, ev, i) \/ HoldReleased(c, ev, i)
      PROVE  OpenHoldsAgree'
  BY <1>7, AgreeSame DEF HoldAgain, HoldSettled, HoldReleased, registryVars, cardVars
<1>8. ASSUME NEW ev \in Evals, NEW c \in Conns, NEW i \in Ids, HoldOpened(c, ev, i)
      PROVE  OpenHoldsAgree'
  <2> DEFINE n == opened + 1
  <2>1. /\ hold' = [hold EXCEPT ![Now(i)] = n] /\ openIds' = openIds \cup {i}
        /\ opener' = [opener EXCEPT ![n] = ev] /\ UNCHANGED <<row, gen>>
        /\ row # NoEval /\ PidOf[row] = PidOf[ev] /\ n \in Serials
    BY <1>8, ConstantsAssumption DEF TypeOK, HoldOpened, Speaks, Serials
  <2>2. n # 0 /\ n \notin 0..opened
    BY ConstantsAssumption DEF TypeOK
  <2>3. Now(i) \in Keys /\ Now(i)[1] = gen /\ Now(i)[2] = i
    BY TypeFacts DEF Now
  <2>4. OpenKeys' = OpenKeys \cup {Now(i)}
    BY <2>1, <2>2, <2>3 DEF TypeOK, OpenKeys
  <2>5. ASSUME NEW k \in OpenKeys'
        PROVE  k[1] = gen' /\ row' # NoEval /\ PidOf[row'] = PidOf[opener'[hold'[k]]]
    <3>1. CASE k = Now(i)
      BY <2>1, <2>3, <3>1 DEF TypeOK
    <3>2. CASE k # Now(i)
      <4>1. k \in OpenKeys /\ hold'[k] = hold[k] /\ hold[k] # n
        BY <2>1, <2>2, <2>4, <3>2 DEF TypeOK, OpenKeys
      <4>2. opener'[hold'[k]] = opener[hold[k]]
        BY <2>1, <4>1 DEF TypeOK
      <4> QED BY <2>1, <4>1, <4>2 DEF OpenHoldsAgree
    <3> QED BY <3>1, <3>2
  <2>6. openIds' = IdsOf(OpenKeys')
    BY <2>1, <2>3, <2>4 DEF OpenHoldsAgree, IdsOf
  <2> QED BY <2>5, <2>6 DEF OpenHoldsAgree
<1>9. ASSUME NEW m \in Serials, AppDecides(m) \/ AppAnswers(m)
      PROVE  OpenHoldsAgree'
  <2>1. PICK k \in Held(cardOf[m]), kind \in Human :
          StopAll({k}, kind, m) /\ openIds' = openIds \ {k[2]}
    BY <1>9 DEF AppDecides, AppAnswers, Human
  <2>2. {k} \in SUBSET OpenNow /\ IdsOf({k}) = {k[2]}
    BY <1>0 DEF Held
  <2>3. UNCHANGED <<row, gen, opener>>
    BY <1>9 DEF AppDecides, AppAnswers, cardVars
  <2> QED BY <2>1, <2>2, <2>3, AgreeClose
<1>10. CASE Sweep
  <2>1. CASE RowIsDead
    <3>1. SweepKeys = OpenNow
      BY <1>0, <2>1 DEF RowIsDead, Carried, SweepKeys, Swept
    <3> QED BY <1>10, <2>1, <3>1, AgreeCloseAll DEF Sweep
  <2>2. CASE ~RowIsDead
    BY <1>10, <2>2, AgreeClose DEF Sweep, SweepKeys, cardVars
  <2> QED BY <2>1, <2>2
<1>11. CASE GoesStale
  BY <1>11, AgreeSame DEF GoesStale, storeVars, cardVars
<1>12. ASSUME NEW k \in Keys, TombstoneTrimmed(k) \/ LeaseRunsOut(k)
       PROVE  OpenHoldsAgree'
  BY <1>12, AgreeSame DEF TombstoneTrimmed, LeaseRunsOut, registryVars, cardVars
<1>13. ASSUME NEW p \in Pids, PidDies(p)
       PROVE  OpenHoldsAgree'
  BY <1>13, AgreeSame DEF PidDies, registryVars, storeVars, cardVars
<1>14. ASSUME NEW c \in Conns, \/ ConnCloses(c) \/ WaitEnds(c) \/ WriteCompletes(c)
                               \/ WriteFails(c) \/ ResumeHold(c)
       PROVE  OpenHoldsAgree'
  <2>1. UNCHANGED <<row, gen, openIds, hold, opener>>
    BY <1>14 DEF ConnCloses, WaitEnds, WriteCompletes, WriteFails, ResumeHold,
                 registryVars, storeVars, cardVars
  <2> QED BY <2>1, AgreeSame
<1>15. ASSUME NEW c \in Conns, ResumePoll(c)
       PROVE  OpenHoldsAgree'
  <2>1. UNCHANGED opener
    BY <1>15 DEF ResumePoll, cardVars
  <2>2. CASE UNCHANGED <<registryVars, hold>>
    BY <2>1, <2>2, AgreeSame DEF registryVars
  <2>3. ASSUME NEW i \in Ids, hold[Now(i)] # 0, StopAll({Now(i)}, "release", 0),
               openIds' = openIds \ {i}, UNCHANGED <<row, gen>>
        PROVE  OpenHoldsAgree'
    BY <1>0, <1>n, <2>1, <2>3, AgreeClose
  <2> QED BY <1>15, <2>2, <2>3, PollTargetsAreIds DEF ResumePoll, PollParks, storeVars
<1> QED BY <1>1, <1>2, <1>3, <1>4, <1>5, <1>6, <1>7, <1>8, <1>9, <1>10, <1>11, <1>12,
           <1>13, <1>14, <1>15 DEF Next, Requests, Taps, Elapses, Resumes

\* No record of an earlier registration is ever open, and the registry's list
\* of open holds is the store's.
THEOREM RecordsAgree == Spec => []OpenHoldsAgree
<1>1. TypeOK /\ OpenHoldsAgree /\ [Next]_vars => OpenHoldsAgree'
  <2> SUFFICES ASSUME TypeOK, OpenHoldsAgree, [Next]_vars PROVE OpenHoldsAgree'
    OBVIOUS
  <2>1. CASE UNCHANGED vars
    BY <2>1, AgreeSame DEF vars, registryVars, storeVars, cardVars
  <2> QED BY <2>1, AgreeStep
<1> QED BY <1>1, AgreeInit, TypeCorrect, PTL DEF Spec

\* What TypeOK says of the numbers, key by key and request by request.
LEMMA NumberFacts ==
  ASSUME TypeOK
  PROVE  /\ gen \in Nat /\ opened \in Nat /\ 0 \notin lapsed
         /\ legs \in Legs
         /\ \A k \in Keys : hold[k] \in Nat /\ hold[k] <= opened
         /\ \A n \in lapsed : n \in Nat /\ n <= opened
         /\ \A i \in Ids : Now(i) \in Keys
         /\ \A c \in Conns : /\ legs[c] \in LegRecords /\ LegShape(legs[c])
                             /\ legs[c].gen \in Nat
                             /\ legs[c].kind = "hold" /\ legs[c].st = "parked" => legs[c].id \in Ids
                             /\ legs[c].id # NoId => legs[c].id \in Ids
<1>1. gen \in Nat /\ opened \in Nat /\ 0 \notin lapsed /\ \A g \in Gens : g \in Nat
  BY ConstantsAssumption DEF TypeOK, Gens
<1>2. \A k \in Keys : hold[k] \in Nat /\ hold[k] <= opened
  BY <1>1 DEF TypeOK
<1>3. \A n \in lapsed : n \in Nat /\ n <= opened
  BY <1>1 DEF TypeOK
<1>4. legs \in Legs /\ \A i \in Ids : Now(i) \in Keys
  BY TypeFacts
<1>5. ASSUME NEW c \in Conns
      PROVE  /\ legs[c] \in LegRecords /\ LegShape(legs[c])
             /\ legs[c].gen \in Nat
             /\ legs[c].kind = "hold" /\ legs[c].st = "parked" => legs[c].id \in Ids
             /\ legs[c].id # NoId => legs[c].id \in Ids
  BY <1>1, <1>4 DEF Legs, LegRecords, LegShape
<1> QED
  BY <1>1, <1>2, <1>3, <1>4, <1>5

-----------------------------------------------------------------------------
(* A decision is never in two places.                                      *)

\* The response on connection c carries the outcome of hold n.
Sending(c, n) == legs[c].st = "writing" /\ legs[c].out.no = n

\* OneFate place by place, with what it needs to be kept by every step: an
\* outcome on its way names a hold that was opened, so the next hold to be
\* opened is in no place yet.
Numbered ==
  /\ \A k \in Keys : tomb[k].no <= opened
  /\ \A c \in Conns : legs[c].st = "writing" => legs[c].out.no <= opened
  /\ \A n \in Serials : handed[n] # NoEval => n <= opened

Apart(n) ==
  /\ \A k, l \in Keys : hold[k] = n /\ hold[l] = n => k = l
  /\ \A k, l \in Keys : tomb[k].no = n /\ tomb[l].no = n => k = l
  /\ \A c, d \in Conns : Sending(c, n) /\ Sending(d, n) => c = d
  /\ \A k, l \in Keys : ~(hold[k] = n /\ tomb[l].no = n)
  /\ \A k \in Keys, c \in Conns : Sending(c, n) => hold[k] # n /\ tomb[k].no # n
  /\ handed[n] # NoEval => /\ \A k \in Keys : hold[k] # n /\ tomb[k].no # n
                           /\ \A c \in Conns : ~Sending(c, n)

FateInv == Numbered /\ \A n \in Serials : Apart(n)

\* The invariant says what OneFate says.
LEMMA FateInvImpliesOneFate == FateInv => OneFate
<1> SUFFICES ASSUME FateInv, NEW n \in Serials
             PROVE  /\ \A x, y \in Places(n) : x = y
                    /\ handed[n] # NoEval => Places(n) = {}
  BY DEF OneFate
<1>1. Apart(n)
  BY DEF FateInv
<1> QED BY <1>1 DEF Apart, Places, Opened, Tombs, Writing, Sending

\* Nothing is held at first.
LEMMA FateInit == Init => FateInv
<1> SUFFICES ASSUME Init PROVE FateInv
  OBVIOUS
<1>1. /\ \A k \in Keys : hold[k] = 0 /\ tomb[k].no = 0
      /\ \A c \in Conns : legs[c].st # "writing"
      /\ \A n \in Serials : handed[n] = NoEval /\ n # 0
      /\ opened = 0
  BY DEF Init, Free, NoOut, Serials
<1> QED BY <1>1 DEF FateInv, Numbered, Apart, Sending

\* No response is begun, and none is changed: a wake does this, and so does
\* any change to a request that waits.
KeepsWriting ==
  \A c \in Conns : legs'[c].st = "writing" =>
    legs[c].st = "writing" /\ legs'[c].out = legs[c].out

\* A wake begins no response.
LEMMA WakesKeepWriting ==
  ASSUME NEW L \in Legs, NEW c \in Conns
  PROVE  /\ WakeHolds(L)[c].st = L[c].st /\ WakeHolds(L)[c].out = L[c].out
         /\ WakePolls(L)[c].st = L[c].st /\ WakePolls(L)[c].out = L[c].out
<1> DEFINE h == L[c].woken \/ (L[c].st = "parked" /\ L[c].id # NoId)
           p == L[c].woken \/ (L[c].st = "parked" /\ L[c].kind = "poll")
<1>1. WakeHolds(L)[c] = [L[c] EXCEPT !.woken = h]
  BY Zenon DEF WakeHolds
<1>2. WakePolls(L)[c] = [L[c] EXCEPT !.woken = p]
  BY Zenon DEF WakePolls
<1>3. L[c] \in LegRecords
  BY DEF Legs
<1> HIDE DEF h, p
<1> QED BY <1>1, <1>2, <1>3 DEF LegRecords

\* All the ways the actions wake and free requests begin no response.
LEMMA KeepsWritingCases ==
  ASSUME TypeOK,
         \/ legs' \in {legs, WakeHolds(legs), WakePolls(legs),
                       WakeHolds(WakePolls(legs)), WakePolls(WakeHolds(legs))}
         \/ \E c \in Conns : \/ Finish(c)
                             \/ legs' = WakeHolds([legs EXCEPT ![c] = Free])
                             \/ legs' = WakePolls(WakeHolds([legs EXCEPT ![c] = Free]))
                             \/ \E leg \in LegRecords :
                                  leg.st = "parked" /\ legs' = [legs EXCEPT ![c] = leg]
  PROVE  KeepsWriting
<1>1. CASE legs' \in {legs, WakeHolds(legs), WakePolls(legs),
                      WakeHolds(WakePolls(legs)), WakePolls(WakeHolds(legs))}
  BY <1>1, TypeFacts, WakesKeepWriting DEF KeepsWriting
<1>2. ASSUME NEW c \in Conns
      PROVE  /\ [legs EXCEPT ![c] = Free] \in Legs
             /\ WakeHolds([legs EXCEPT ![c] = Free]) \in Legs
             /\ \A d \in Conns : [legs EXCEPT ![c] = Free][d].st = "writing" =>
                  d # c /\ [legs EXCEPT ![c] = Free][d] = legs[d]
  <2>1. [legs EXCEPT ![c] = Free] \in Legs
    BY TypeFacts, FreeKeepsLegs
  <2>2. WakeHolds([legs EXCEPT ![c] = Free]) \in Legs
    BY <2>1, WakesKeepLegs
  <2> QED BY <2>1, <2>2 DEF Free, TypeOK
<1>3. ASSUME NEW c \in Conns, Finish(c)
      PROVE  KeepsWriting
  BY <1>2, <1>3 DEF KeepsWriting, Finish
<1>4. ASSUME NEW c \in Conns, \/ legs' = WakeHolds([legs EXCEPT ![c] = Free])
                              \/ legs' = WakePolls(WakeHolds([legs EXCEPT ![c] = Free]))
      PROVE  KeepsWriting
  <2> DEFINE L == [legs EXCEPT ![c] = Free]
  <2>1. L \in Legs /\ WakeHolds(L) \in Legs
    BY <1>2
  <2>2. \A d \in Conns : L[d].st = "writing" => L[d] = legs[d]
    BY <1>2
  <2>3. legs' = WakeHolds(L) \/ legs' = WakePolls(WakeHolds(L))
    BY <1>4
  <2> HIDE DEF L
  <2> QED BY <2>1, <2>2, <2>3, WakesKeepWriting DEF KeepsWriting
<1>5. ASSUME NEW c \in Conns, NEW leg \in LegRecords, leg.st = "parked",
             legs' = [legs EXCEPT ![c] = leg]
      PROVE  KeepsWriting
  BY <1>5 DEF KeepsWriting, TypeOK
<1> QED BY <1>1, <1>3, <1>4, <1>5

\* Nothing moves, but outcomes may be dropped and releases without a hold
\* may be filed.
LEMMA FateSame ==
  ASSUME TypeOK, FateInv, KeepsWriting, UNCHANGED <<hold, opened, handed>>,
         \A k \in Keys : tomb'[k] = tomb[k] \/ tomb'[k].no = 0
  PROVE  FateInv'
<1>1. 0 <= opened /\ \A n \in Serials : n # 0
  BY ConstantsAssumption DEF TypeOK, Serials
<1>2. Numbered'
  BY <1>1 DEF FateInv, Numbered, KeepsWriting
<1>3. ASSUME NEW n \in Serials
      PROVE  Apart(n)'
  <2>1. Apart(n)
    BY DEF FateInv
  <2>2. \A c \in Conns : Sending(c, n)' => Sending(c, n)
    BY DEF KeepsWriting, Sending
  <2>3. \A k \in Keys : tomb'[k].no = n => tomb[k].no = n
    BY <1>1
  <2> QED BY <2>1, <2>2, <2>3 DEF Apart
<1> QED BY <1>2, <1>3 DEF FateInv

\* A close moves the outcome of each hold it closes from the open record to
\* the tombstone under the same key.
LEMMA FateClose ==
  ASSUME TypeOK, FateInv, NEW K \in SUBSET OpenKeys, NEW kind, NEW seen,
         StopAll(K, kind, seen), KeepsWriting, UNCHANGED <<opened, handed>>
  PROVE  FateInv'
<1>1. \A k \in Keys : hold[k] \in 0..opened
  BY DEF TypeOK
<1>2. /\ \A k \in Keys : hold'[k] = IF k \in K THEN 0 ELSE hold[k]
      /\ \A k \in Keys : tomb'[k].no = IF k \in K THEN hold[k] ELSE tomb[k].no
  BY DEF StopAll
<1>3. opened \in Nat /\ \A n \in Serials : n # 0
  BY ConstantsAssumption DEF TypeOK, Serials
<1>4. Numbered'
  BY <1>1, <1>2, <1>3 DEF FateInv, Numbered, KeepsWriting
<1>5. ASSUME NEW n \in Serials
      PROVE  Apart(n)'
  <2>1. Apart(n)
    BY DEF FateInv
  <2>2. \A c \in Conns : Sending(c, n)' => Sending(c, n)
    BY DEF KeepsWriting, Sending
  <2> QED BY <1>2, <1>3, <2>1, <2>2 DEF Apart
<1> QED BY <1>4, <1>5 DEF FateInv

\* An outcome that goes out leaves its tombstone, for a response or for good.
LEMMA FateHandOver ==
  ASSUME TypeOK, FateInv, NEW c \in Conns, NEW kind \in {"poll", "hold"}, NEW ev \in Evals,
         NEW i \in Ids, legs[c].st # "writing", HandOver(c, kind, ev, i),
         UNCHANGED <<hold, opened>>
  PROVE  FateInv'
<1> DEFINE k == Now(i)
<1>1. k \in Keys /\ tomb \in [Keys -> Outcomes \cup {NoOut}]
  BY TypeFacts DEF TypeOK
<1>2. tomb'[k].no = 0 /\ \A l \in Keys \ {k} : tomb'[l] = tomb[l]
  BY <1>1 DEF HandOver, NoOut
<1>3. opened \in Nat /\ \A n \in Serials : n # 0
  BY ConstantsAssumption DEF TypeOK, Serials
<1>4. CASE Finish(c) /\ Hand(tomb[k], ev)
  <2>1. KeepsWriting
    BY <1>4, KeepsWritingCases
  <2>2. \A n \in Serials : handed'[n] # handed[n] => n = tomb[k].no
    BY <1>4 DEF Hand, TypeOK
  <2>3. Numbered'
    BY <1>1, <1>2, <1>3, <2>1, <2>2 DEF FateInv, Numbered, KeepsWriting
  <2>4. ASSUME NEW n \in Serials
        PROVE  Apart(n)'
    <3>1. Apart(n)
      BY DEF FateInv
    <3>2. \A d \in Conns : Sending(d, n)' => Sending(d, n)
      BY <2>1 DEF KeepsWriting, Sending
    <3>3. \A l \in Keys : tomb'[l].no = n => l # k /\ tomb[l].no = n
      BY <1>2, <1>3
    <3> QED BY <1>1, <2>2, <3>1, <3>2, <3>3 DEF Apart
  <2> QED BY <2>3, <2>4 DEF FateInv
<1>5. CASE legs' = [legs EXCEPT ![c] = Sends(kind, ev, i, tomb[k])] /\ UNCHANGED handed
  <2>1. /\ legs'[c].st = "writing" /\ legs'[c].out = tomb[k]
        /\ \A d \in Conns \ {c} : legs'[d] = legs[d]
    BY <1>5 DEF TypeOK, Sends
  <2>2. Numbered'
    BY <1>1, <1>2, <1>3, <1>5, <2>1 DEF FateInv, Numbered
  <2>3. ASSUME NEW n \in Serials
        PROVE  Apart(n)'
    <3>1. Apart(n)
      BY DEF FateInv
    <3>2. Sending(c, n)' => tomb[k].no = n
      BY <2>1 DEF Sending
    <3>3. \A d \in Conns \ {c} : Sending(d, n)' => Sending(d, n)
      BY <2>1 DEF Sending
    <3>4. \A l \in Keys : tomb'[l].no = n => l # k /\ tomb[l].no = n
      BY <1>2, <1>3
    <3> QED BY <1>1, <1>5, <3>1, <3>2, <3>3, <3>4 DEF Apart
  <2> QED BY <2>2, <2>3 DEF FateInv
<1> QED BY <1>4, <1>5 DEF HandOver

\* What a step does to the outcomes.  It drops some or files releases that
\* end no hold; closes holds; hands an outcome over; ends a hold with an outcome
\* that the terminal has; opens a hold; completes a response; or puts one back.
Files ==
  /\ KeepsWriting /\ UNCHANGED <<hold, opened, handed>>
  /\ \A k \in Keys : tomb'[k] = tomb[k] \/ tomb'[k].no = 0
Closes ==
  /\ KeepsWriting /\ UNCHANGED <<opened, handed>>
  /\ \E K \in SUBSET OpenKeys : \E kind, seen : StopAll(K, kind, seen)
HandsOver ==
  /\ UNCHANGED <<hold, opened>>
  /\ \E c \in Conns, kind \in {"poll", "hold"}, ev \in Evals, i \in Ids :
       legs[c].st # "writing" /\ HandOver(c, kind, ev, i)
EndsOne ==
  /\ KeepsWriting /\ UNCHANGED <<opened, handed>>
  /\ \E k \in Keys : /\ hold[k] # 0
                     /\ hold' = [hold EXCEPT ![k] = 0]
                     /\ tomb' = [tomb EXCEPT ![k] = NoOut]
OpensOne ==
  /\ opened' = opened + 1 /\ UNCHANGED <<tomb, legs, handed>>
  /\ \E k \in Keys : hold[k] = 0 /\ hold' = [hold EXCEPT ![k] = opened + 1]
Completes == \E c \in Conns : WriteCompletes(c)
PutsBack ==
  /\ KeepsWriting /\ UNCHANGED <<hold, opened, handed>>
  /\ \E c \in Conns, k \in Keys :
       /\ legs[c].st = "writing" /\ legs'[c].st # "writing"
       /\ tomb[k] = NoOut /\ tomb' = [tomb EXCEPT ![k] = legs[c].out] /\ hold[k] = 0

OneKind == Files \/ Closes \/ HandsOver \/ EndsOne \/ OpensOne \/ Completes \/ PutsBack

\* A kind from what an action shows of it.
LEMMA FilesKind ==
  ASSUME KeepsWriting, UNCHANGED <<hold, opened, handed>>,
         \A k \in Keys : tomb'[k] = tomb[k] \/ tomb'[k].no = 0
  PROVE  OneKind
BY DEF Files, OneKind

LEMMA ClosesKind ==
  ASSUME NEW K \in SUBSET OpenKeys, NEW kind, NEW seen, StopAll(K, kind, seen),
         KeepsWriting, UNCHANGED <<opened, handed>>
  PROVE  OneKind
BY Zenon DEF Closes, OneKind

LEMMA HandsOverKind ==
  ASSUME NEW c \in Conns, NEW kind \in {"poll", "hold"}, NEW ev \in Evals, NEW i \in Ids,
         legs[c].st # "writing", HandOver(c, kind, ev, i), UNCHANGED <<hold, opened>>
  PROVE  OneKind
BY Zenon DEF HandsOver, OneKind

\* Every step is of one of these kinds.
LEMMA StepsAreOfAKind ==
  ASSUME TypeOK, Next
  PROVE  OneKind
<1>0. \A K \in SUBSET OpenNow : K \in SUBSET OpenKeys
  BY DEF OpenNow
<1>n. \A i \in Ids : hold[Now(i)] # 0 => {Now(i)} \in SUBSET OpenKeys
  BY TypeFacts DEF OpenKeys
<1>f. \A c \in Conns : legs[c] = Free => legs[c].st # "writing"
  BY DEF Free
<1>1. ASSUME NEW ev \in Evals,
             Register(ev) \/ TurnCompletes(ev) \/ SessionEnds(ev)
      PROVE  OneKind
  <2>1. KeepsWriting /\ UNCHANGED <<opened, handed>>
    BY <1>1, KeepsWritingCases DEF Register, TurnCompletes, SessionEnds, cardVars
  <2>2. CASE UNCHANGED <<hold, tomb>>
    BY <2>1, <2>2, FilesKind
  <2>3. ASSUME NEW K \in SUBSET OpenNow, StopAll(K, "release", 0)
        PROVE  OneKind
    BY <1>0, <2>1, <2>3, ClosesKind
  <2> QED BY <1>1, <2>2, <2>3 DEF Register, TurnCompletes, SessionEnds
<1>2. ASSUME NEW ev \in Evals, NEW i \in Ids, UserCancels(ev, i) \/ BandAnswers(ev, i)
      PROVE  OneKind
  <2>1. KeepsWriting /\ UNCHANGED <<opened, handed>>
    BY <1>2, KeepsWritingCases DEF UserCancels, BandAnswers, cardVars
  <2>2. PICK K \in SUBSET OpenKeys, kind \in {"release", "verdict"} : StopAll(K, kind, 0)
    BY <1>0, <1>2, <1>n DEF UserCancels, BandAnswers
  <2> QED BY <2>1, <2>2, ClosesKind
<1>3. ASSUME NEW ev \in Evals, NEW i \in Ids, NEW kind \in {"answer", "release"},
             QuestionSettles(ev, i, kind)
      PROVE  OneKind
  <2>1. KeepsWriting /\ UNCHANGED <<opened, handed>>
    BY <1>3, KeepsWritingCases DEF QuestionSettles, cardVars
  <2>2. CASE hold[Now(i)] = 0
    BY <1>3, <2>1, <2>2, FilesKind DEF QuestionSettles
  <2>3. CASE hold[Now(i)] # 0
    <3>1. /\ hold' = [hold EXCEPT ![Now(i)] = 0]
          /\ tomb' = [tomb EXCEPT ![Now(i)] = NoOut]
      BY <1>3, <2>3 DEF QuestionSettles
    <3> QED BY <2>1, <2>3, <3>1, TypeFacts DEF EndsOne, OneKind
  <2> QED BY <2>2, <2>3
<1>4. ASSUME NEW ev \in Evals, NEW c \in Conns, Poll(c, ev)
      PROVE  OneKind
  <2>1. Waits("poll", ev, NoId) \in LegRecords /\ Waits("poll", ev, NoId).st = "parked"
    BY WaitsIsALeg DEF Waits
  <2>2. legs' = [legs EXCEPT ![c] = Waits("poll", ev, NoId)]
    BY <1>4 DEF Poll
  <2>3. KeepsWriting
    BY <2>1, <2>2, KeepsWritingCases
  <2> QED BY <1>4, <2>3, FilesKind DEF Poll, storeVars, cardVars
<1>5. ASSUME NEW ev \in Evals, NEW c \in Conns, NEW i \in Ids, HoldAgain(c, ev, i)
      PROVE  OneKind
  <2>1. Waits("hold", ev, i) \in LegRecords /\ Waits("hold", ev, i).st = "parked"
    BY WaitsIsALeg, ConstantsAssumption DEF Waits
  <2>2. legs' = [legs EXCEPT ![c] = Waits("hold", ev, i)]
    BY <1>5 DEF HoldAgain
  <2>3. KeepsWriting
    BY <2>1, <2>2, KeepsWritingCases
  <2> QED BY <1>5, <2>3, FilesKind DEF HoldAgain, cardVars
<1>6. ASSUME NEW ev \in Evals, NEW c \in Conns, NEW i \in Ids, HoldSettled(c, ev, i)
      PROVE  OneKind
  BY <1>6, <1>f, HandsOverKind DEF HoldSettled, cardVars
<1>7. ASSUME NEW ev \in Evals, NEW c \in Conns, NEW i \in Ids, HoldReleased(c, ev, i)
      PROVE  OneKind
  <2>1. \A k \in Keys : tomb'[k] = tomb[k] \/ tomb'[k].no = 0
    BY <1>7 DEF HoldReleased, TypeOK
  <2>2. KeepsWriting
    BY <1>7, KeepsWritingCases DEF HoldReleased
  <2> QED BY <1>7, <2>1, <2>2, FilesKind DEF HoldReleased
<1>8. ASSUME NEW ev \in Evals, NEW c \in Conns, NEW i \in Ids, HoldOpened(c, ev, i)
      PROVE  OneKind
  <2>1. /\ opened' = opened + 1 /\ hold' = [hold EXCEPT ![Now(i)] = opened + 1]
        /\ UNCHANGED <<tomb, legs, handed>>
    BY <1>8 DEF HoldOpened
  <2> QED BY <1>8, <2>1, TypeFacts DEF HoldOpened, FirstOffer, OpensOne, OneKind
<1>9. ASSUME NEW m \in Serials, AppDecides(m) \/ AppAnswers(m)
      PROVE  OneKind
  <2>1. PICK k \in Held(cardOf[m]), kind \in Human : StopAll({k}, kind, m)
    BY <1>9 DEF AppDecides, AppAnswers, Human
  <2>2. {k} \in SUBSET OpenKeys
    BY DEF Held, OpenNow
  <2>3. KeepsWriting /\ UNCHANGED <<opened, handed>>
    BY <1>9, KeepsWritingCases DEF AppDecides, AppAnswers, cardVars
  <2> QED BY <2>1, <2>2, <2>3, ClosesKind
<1>10. CASE Sweep
  <2>1. KeepsWriting /\ UNCHANGED <<opened, handed>>
    BY <1>10, KeepsWritingCases DEF Sweep, cardVars
  <2>2. StopAll(SweepKeys, "release", 0) /\ SweepKeys \in SUBSET OpenKeys
    BY <1>10 DEF Sweep, SweepKeys, OpenNow
  <2> QED BY <2>1, <2>2, ClosesKind
<1>11. ASSUME \/ GoesStale
              \/ \E p \in Pids : PidDies(p)
              \/ \E k \in Keys : TombstoneTrimmed(k)
       PROVE  OneKind
  <2>1. UNCHANGED <<legs, hold, opened, handed>>
    BY <1>11 DEF GoesStale, PidDies, TombstoneTrimmed, storeVars, cardVars
  <2>2. \A k \in Keys : tomb'[k] = tomb[k] \/ tomb'[k].no = 0
    BY <1>11 DEF GoesStale, PidDies, TombstoneTrimmed, storeVars, TypeOK, NoOut
  <2> QED BY <2>1, <2>2, KeepsWritingCases, FilesKind
<1>12. ASSUME NEW k \in Keys, LeaseRunsOut(k)
       PROVE  OneKind
  <2>1. ASSUME NEW c \in Conns
        PROVE  legs'[c].st = legs[c].st /\ legs'[c].out = legs[c].out
    <3> DEFINE b == legs[c].woken \/ (/\ legs[c].st = "parked"
                                      /\ legs[c].kind = "poll"
                                      /\ <<gen, legs[c].id>> = k)
    <3>1. legs'[c] = [legs[c] EXCEPT !.woken = b]
      BY <1>12, Zenon DEF LeaseRunsOut
    <3> HIDE DEF b
    <3> QED BY <3>1 DEF TypeOK, LegRecords
  <2>2. KeepsWriting
    BY <2>1 DEF KeepsWriting
  <2> QED BY <1>12, <2>2, FilesKind DEF LeaseRunsOut, cardVars
<1>13. ASSUME NEW c \in Conns, ConnCloses(c)
       PROVE  OneKind
  <2> DEFINE b == legs[c].st = "parked" /\ legs[c].id # NoId
  <2>1. legs' = [legs EXCEPT ![c] = [legs[c] EXCEPT !.open = FALSE, !.woken = b]]
    BY <1>13 DEF ConnCloses
  <2> HIDE DEF b
  <2>2. \A d \in Conns : legs'[d].st = legs[d].st /\ legs'[d].out = legs[d].out
    BY <2>1 DEF TypeOK, LegRecords
  <2>3. KeepsWriting
    BY <2>2 DEF KeepsWriting
  <2> QED BY <1>13, <2>3, FilesKind DEF ConnCloses, storeVars, cardVars
<1>14. ASSUME NEW c \in Conns, WaitEnds(c)
       PROVE  OneKind
  BY <1>14, KeepsWritingCases, FilesKind DEF WaitEnds, storeVars, cardVars
<1>15. ASSUME NEW c \in Conns, WriteCompletes(c)
       PROVE  OneKind
  BY <1>15 DEF Completes, OneKind
<1>16. ASSUME NEW c \in Conns, WriteFails(c)
       PROVE  OneKind
  <2> DEFINE k == Now(legs[c].id)
  <2>1. UNCHANGED <<hold, opened, handed>>
    BY <1>16 DEF WriteFails, cardVars
  <2>2. CASE Finish(c) /\ UNCHANGED tomb
    BY <2>1, <2>2, KeepsWritingCases, FilesKind
  <2>3. CASE /\ tomb' = [tomb EXCEPT ![k] = legs[c].out]
             /\ legs' = WakePolls(WakeHolds([legs EXCEPT ![c] = Free]))
             /\ tomb[k] = NoOut /\ hold[k] = 0
    <3>1. KeepsWriting
      BY <2>3, KeepsWritingCases
    <3>2. legs'[c].st # "writing"
      <4> DEFINE L == [legs EXCEPT ![c] = Free]
      <4>1. L \in Legs /\ WakeHolds(L) \in Legs
        BY TypeFacts, FreeKeepsLegs, WakesKeepLegs
      <4>2. L[c].st = "free" /\ legs' = WakePolls(WakeHolds(L))
        BY <2>3 DEF TypeOK, Free
      <4> HIDE DEF L
      <4>3. legs'[c].st = L[c].st
        BY <4>1, <4>2, WakesKeepWriting
      <4> QED BY <4>2, <4>3
    <3>3. k \in Keys /\ legs[c].st = "writing"
      BY <1>16, TypeFacts DEF TypeOK, LegRecords, LegShape, WriteFails
    <3> QED BY <2>1, <2>3, <3>1, <3>2, <3>3, Zenon DEF PutsBack, OneKind
  <2> QED BY <1>16, <2>2, <2>3 DEF WriteFails
<1>17. ASSUME NEW c \in Conns, ResumeHold(c) \/ ResumePoll(c)
       PROVE  OneKind
  <2>1. legs[c] \in LegRecords /\ legs[c].st = "parked" /\ legs[c].ev \in Evals
    BY <1>17 DEF TypeOK, LegShape, LegRecords, ResumeHold, ResumePoll
  <2>2. UNCHANGED opened
    BY <1>17 DEF ResumeHold, ResumePoll, cardVars
  <2>3. ASSUME NEW i \in Ids, NEW kind \in {"poll", "hold"}, UNCHANGED hold,
               HandOver(c, kind, legs[c].ev, i)
        PROVE  OneKind
    BY <2>1, <2>2, <2>3, HandsOverKind
  <2>4. CASE Finish(c) /\ UNCHANGED <<hold, tomb, handed>>
    BY <2>2, <2>4, KeepsWritingCases, FilesKind
  <2>5. ASSUME NEW i \in Ids \cup {NoId}, UNCHANGED <<hold, tomb, handed>>,
               \/ legs' = [legs EXCEPT ![c].woken = FALSE, ![c].id = i]
               \/ legs' = [legs EXCEPT ![c].woken = FALSE]
        PROVE  OneKind
    <3>1. PICK j \in Ids \cup {NoId} :
            legs' = [legs EXCEPT ![c] = [legs[c] EXCEPT !.woken = FALSE, !.id = j]]
      <4>1. CASE legs' = [legs EXCEPT ![c].woken = FALSE, ![c].id = i]
        BY <4>1
      <4>2. CASE legs' = [legs EXCEPT ![c].woken = FALSE]
        <5>1. legs[c].id \in Ids \cup {NoId}
          BY <2>1 DEF LegRecords
        <5>2. [legs[c] EXCEPT !.woken = FALSE, !.id = legs[c].id] = [legs[c] EXCEPT !.woken = FALSE]
          BY <2>1 DEF LegRecords
        <5> QED BY <4>2, <5>1, <5>2
      <4> QED BY <2>5, <4>1, <4>2
    <3>2. [legs[c] EXCEPT !.woken = FALSE, !.id = j].st = legs[c].st
      BY <2>1 DEF LegRecords
    <3>3. KeepsWriting
      BY <2>1, <3>1, <3>2 DEF KeepsWriting, TypeOK
    <3> QED BY <2>2, <2>5, <3>3, FilesKind
  <2>6. ASSUME NEW i \in Ids, hold[Now(i)] # 0, StopAll({Now(i)}, "release", 0),
               legs' = WakeHolds([legs EXCEPT ![c] = Free]), UNCHANGED handed
        PROVE  OneKind
    BY <1>n, <2>2, <2>6, KeepsWritingCases, ClosesKind
  <2>7. CASE ResumeHold(c)
    <3>1. legs[c].id \in Ids
      BY <2>7 DEF TypeOK, LegShape, LegRecords, ResumeHold
    <3> QED BY <2>3, <2>4, <2>5, <2>7, <3>1 DEF ResumeHold
  <2>8. CASE ResumePoll(c)
    BY <2>3, <2>4, <2>5, <2>6, <2>8, PollTargetsAreIds
       DEF ResumePoll, PollParks, storeVars
  <2> QED BY <1>17, <2>7, <2>8
<1> QED BY <1>1, <1>2, <1>3, <1>4, <1>5, <1>6, <1>7, <1>8, <1>9, <1>10, <1>11, <1>12, <1>13,
           <1>14, <1>15, <1>16, <1>17 DEF Next, Requests, Taps, Elapses, Resumes

\* Every kind of step keeps the invariant.
LEMMA FateStep ==
  ASSUME TypeOK, FateInv, OneKind
  PROVE  FateInv'
<1>1. CASE Files
  BY <1>1, FateSame DEF Files
<1>2. CASE Closes
  BY <1>2, FateClose DEF Closes
<1>3. CASE HandsOver
  BY <1>3, FateHandOver DEF HandsOver
<1>0. opened \in Nat /\ \A n \in Serials : n # 0
  BY ConstantsAssumption DEF TypeOK, Serials
<1>4. CASE EndsOne
  <2>1. /\ KeepsWriting /\ UNCHANGED <<opened, handed>>
        /\ \A k \in Keys : hold'[k] = hold[k] \/ hold'[k] = 0
        /\ \A k \in Keys : tomb'[k] = tomb[k] \/ tomb'[k].no = 0
    BY <1>4 DEF EndsOne, TypeOK, NoOut
  <2>2. Numbered'
    BY <1>0, <2>1 DEF FateInv, Numbered, KeepsWriting
  <2>3. ASSUME NEW n \in Serials
        PROVE  Apart(n)'
    <3>1. Apart(n)
      BY DEF FateInv
    <3>2. \A c \in Conns : Sending(c, n)' => Sending(c, n)
      BY <2>1 DEF KeepsWriting, Sending
    <3>3. \A k \in Keys : /\ hold'[k] = n => hold[k] = n
                          /\ tomb'[k].no = n => tomb[k].no = n
      BY <1>0, <2>1
    <3> QED BY <2>1, <3>1, <3>2, <3>3 DEF Apart
  <2> QED BY <2>2, <2>3 DEF FateInv
<1>5. CASE OpensOne
  <2>1. opened' = opened + 1 /\ UNCHANGED <<tomb, legs, handed>>
    BY <1>5 DEF OpensOne
  <2>2. PICK k \in Keys : hold' = [hold EXCEPT ![k] = opened + 1]
    BY <1>5 DEF OpensOne
  <2>3. \A c \in Conns : legs[c].st = "writing" => legs[c].out.no \in Nat
    BY ConstantsAssumption DEF TypeOK, LegRecords, Outcomes, NoOut
  <2>4. \A l \in Keys : tomb[l].no \in Nat
    BY ConstantsAssumption DEF TypeOK, Outcomes, NoOut
  <2>5. Numbered'
    BY <1>0, <2>1, <2>3, <2>4, ConstantsAssumption DEF FateInv, Numbered, Serials
  <2>6. ASSUME NEW n \in Serials
        PROVE  Apart(n)'
    <3>1. Apart(n) /\ \A c \in Conns : Sending(c, n)' <=> Sending(c, n)
      BY <2>1 DEF FateInv, Sending
    <3>2. CASE n = opened + 1
      <4>1. /\ \A l \in Keys : hold[l] # n /\ tomb[l].no # n
            /\ \A c \in Conns : ~Sending(c, n)
            /\ handed[n] = NoEval
        BY <1>0, <2>3, <2>4, <3>2, NumberFacts DEF FateInv, Numbered, Sending
      <4>2. \A l \in Keys : hold'[l] = n => l = k
        BY <2>2, <4>1 DEF TypeOK
      <4> QED BY <2>1, <3>1, <4>1, <4>2 DEF Apart
    <3>3. CASE n # opened + 1
      <4>1. \A l \in Keys : hold'[l] = n => hold[l] = n
        BY <2>2, <3>3 DEF TypeOK
      <4> QED BY <2>1, <3>1, <4>1 DEF Apart
    <3> QED BY <3>2, <3>3
  <2> QED BY <2>5, <2>6 DEF FateInv
<1>6. ASSUME NEW c \in Conns, WriteCompletes(c)
      PROVE  FateInv'
  <2>1. KeepsWriting /\ \A d \in Conns : legs'[d].st = "writing" => d # c
    BY <1>6, KeepsWritingCases DEF WriteCompletes, Finish, TypeOK, Free
  <2>2. UNCHANGED <<hold, tomb, opened>>
    BY <1>6 DEF WriteCompletes, storeVars, cardVars
  <2>3. \A n \in Serials : handed'[n] # handed[n] => n = legs[c].out.no
    BY <1>6 DEF WriteCompletes, Hand, TypeOK
  <2>4. Numbered'
    BY <1>6, <2>1, <2>2, <2>3 DEF FateInv, Numbered, KeepsWriting, WriteCompletes
  <2>5. ASSUME NEW n \in Serials
        PROVE  Apart(n)'
    <3>1. Apart(n) /\ (legs[c].out.no = n => Sending(c, n))
      BY <1>6 DEF FateInv, Sending, WriteCompletes
    <3>2. \A d \in Conns : Sending(d, n)' => Sending(d, n) /\ d # c
      BY <2>1 DEF KeepsWriting, Sending
    <3> QED BY <2>2, <2>3, <3>1, <3>2 DEF Apart
  <2> QED BY <2>4, <2>5 DEF FateInv
<1>7. CASE PutsBack
  <2>1. KeepsWriting /\ UNCHANGED <<hold, opened, handed>>
    BY <1>7 DEF PutsBack
  <2>2. PICK c \in Conns, k \in Keys :
          /\ legs[c].st = "writing" /\ legs'[c].st # "writing"
          /\ tomb[k] = NoOut /\ tomb' = [tomb EXCEPT ![k] = legs[c].out] /\ hold[k] = 0
    BY <1>7 DEF PutsBack
  <2>3. \A l \in Keys : tomb'[l] = IF l = k THEN legs[c].out ELSE tomb[l]
    BY <2>2 DEF TypeOK
  <2>4. Numbered'
    BY <2>1, <2>2, <2>3 DEF FateInv, Numbered, KeepsWriting
  <2>5. ASSUME NEW n \in Serials
        PROVE  Apart(n)'
    <3>1. Apart(n) /\ (legs[c].out.no = n => Sending(c, n))
      BY <2>2 DEF FateInv, Sending
    <3>2. \A d \in Conns : Sending(d, n)' => Sending(d, n) /\ d # c
      BY <2>1, <2>2 DEF KeepsWriting, Sending
    <3> QED BY <2>1, <2>2, <2>3, <3>1, <3>2 DEF Apart
  <2> QED BY <2>4, <2>5 DEF FateInv
<1> QED BY <1>1, <1>2, <1>3, <1>4, <1>5, <1>6, <1>7 DEF OneKind, Completes

\* So the invariant always holds.
LEMMA FateAlways == Spec => []FateInv
<1>1. TypeOK /\ FateInv /\ [Next]_vars => FateInv'
  <2> SUFFICES ASSUME TypeOK, FateInv, [Next]_vars PROVE FateInv'
    OBVIOUS
  <2>1. CASE UNCHANGED vars
    BY <2>1, KeepsWritingCases, FateSame DEF vars, storeVars, cardVars
  <2> QED BY <2>1, StepsAreOfAKind, FateStep
<1> QED BY <1>1, FateInit, TypeCorrect, PTL DEF Spec

\* A person's decision is at any moment in one place at most: the open record,
\* a tombstone, a response, or the terminal it went out to.
THEOREM DecisionHasOneFate == Spec => []OneFate
BY FateAlways, FateInvImpliesOneFate, PTL

-----------------------------------------------------------------------------
(* A tap decides the call its card was drawn for.                          *)

\* No two holds share a card: a minted one carries the serial of its hold, and
\* an id of Claude's, once used, is never used again.
CardsDiffer ==
  /\ \A m \in 1..opened : IF cardOf[m].minted THEN cardOf[m].n = m
                                              ELSE cardOf[m].n \in toolCards
  /\ \A m, n \in 1..opened : cardOf[m] = cardOf[n] => m = n

CardInv == CardsDiffer /\ NoBlindDecision

\* The decisions that name no card, and the steps that draw none.
LEMMA CardSame ==
  ASSUME TypeOK, CardInv, UNCHANGED <<cardOf, opened>>, toolCards \subseteq toolCards',
         \A n \in Serials : decision'[n] = decision[n] \/ decision'[n].seen = 0
  PROVE  CardInv'
BY DEF CardInv, CardsDiffer, NoBlindDecision

\* A close of holds that nobody's card is behind.
LEMMA CardClose ==
  ASSUME TypeOK, CardInv, NEW K, NEW kind, StopAll(K, kind, 0), UNCHANGED cardVars
  PROVE  CardInv'
<1>1. \A n \in Serials : decision'[n] = decision[n] \/ decision'[n].seen = 0
  BY DEF StopAll
<1> QED BY <1>1, CardSame DEF cardVars

\* Every step keeps the cards apart and the decisions with their cards.
LEMMA CardStep ==
  ASSUME TypeOK, CardInv, Next
  PROVE  CardInv'
<1>1. ASSUME NEW ev \in Evals,
             \/ Register(ev) \/ TurnCompletes(ev) \/ SessionEnds(ev)
             \/ \E i \in Ids : UserCancels(ev, i) \/ BandAnswers(ev, i)
      PROVE  CardInv'
  <2>1. UNCHANGED cardVars
    BY <1>1 DEF Register, TurnCompletes, SessionEnds, UserCancels, BandAnswers
  <2>2. UNCHANGED decision \/ \E K, kind : StopAll(K, kind, 0)
    BY <1>1 DEF Register, TurnCompletes, SessionEnds, UserCancels, BandAnswers
  <2> QED BY <2>1, <2>2, CardSame, CardClose DEF cardVars
<1>2. ASSUME NEW ev \in Evals, NEW i \in Ids, NEW kind \in {"answer", "release"},
             QuestionSettles(ev, i, kind)
      PROVE  CardInv'
  <2>1. \A n \in Serials : decision'[n] = decision[n] \/ decision'[n].seen = 0
    BY <1>2 DEF QuestionSettles, TypeOK
  <2> QED BY <1>2, <2>1, CardSame DEF QuestionSettles, cardVars
<1>3. ASSUME NEW ev \in Evals, NEW c \in Conns,
             \/ Poll(c, ev)
             \/ \E i \in Ids : \/ HoldAgain(c, ev, i) \/ HoldSettled(c, ev, i)
                               \/ HoldReleased(c, ev, i)
      PROVE  CardInv'
  <2>1. UNCHANGED <<cardOf, opened, decision>> /\ toolCards \subseteq toolCards'
    BY <1>3 DEF Poll, HoldAgain, HoldSettled, HoldReleased, cardVars
  <2> QED BY <2>1, CardSame
<1>4. ASSUME NEW ev \in Evals, NEW c \in Conns, NEW i \in Ids, HoldOpened(c, ev, i)
      PROVE  CardInv'
  <2> DEFINE n    == opened + 1
             card == CardFor(ev, i, n)
  <2>1. /\ opened' = n /\ cardOf' = [cardOf EXCEPT ![n] = card] /\ UNCHANGED decision
        /\ toolCards' = IF IsQuestion[ev][i] THEN toolCards \cup {i} ELSE toolCards
    BY <1>4 DEF HoldOpened
  <2>2. opened \in Nat /\ n \in Serials /\ 1..n = 1..opened \cup {n} /\ n \notin 1..opened
    BY <1>4, ConstantsAssumption DEF TypeOK, HoldOpened, Serials
  <2>3. /\ card.minted => card.n = n
        /\ ~card.minted => card.n = i /\ i \notin toolCards /\ IsQuestion[ev][i]
        /\ card.minted \in BOOLEAN
    BY DEF CardFor
  <2>4. cardOf'[n] = card /\ \A m \in 1..opened : cardOf'[m] = cardOf[m]
    BY <2>1, <2>2, ConstantsAssumption DEF TypeOK, Serials
  <2> HIDE DEF card
  <2>5. \A m \in 1..opened : cardOf[m] # card
    BY <2>2, <2>3 DEF CardInv, CardsDiffer
  <2>6. CardsDiffer'
    BY <2>1, <2>2, <2>3, <2>4, <2>5 DEF CardInv, CardsDiffer
  <2> QED BY <2>1, <2>6 DEF CardInv, NoBlindDecision
<1>5. ASSUME NEW m \in Serials, AppDecides(m) \/ AppAnswers(m)
      PROVE  CardInv'
  <2>1. PICK k \in Held(cardOf[m]), kind \in Human : StopAll({k}, kind, m)
    BY <1>5 DEF AppDecides, AppAnswers, Human
  <2>2. m \in 1..opened /\ UNCHANGED cardVars
    BY <1>5 DEF AppDecides, AppAnswers
  <2>3. cardOf[hold[k]] = cardOf[m] /\ hold[k] \in 1..opened
    BY ConstantsAssumption DEF Held, OpenNow, OpenKeys, TypeOK
  <2>4. hold[k] = m
    BY <2>2, <2>3 DEF CardInv, CardsDiffer
  <2>5. \A n \in Serials : decision'[n] = decision[n] \/ (n = m /\ decision'[n].seen = m)
    BY <2>1, <2>4 DEF StopAll
  <2> QED BY <2>2, <2>5 DEF CardInv, CardsDiffer, NoBlindDecision, cardVars
<1>6. CASE Elapses
  <2>1. UNCHANGED cardVars
    BY <1>6 DEF Elapses, Sweep, GoesStale, TombstoneTrimmed, LeaseRunsOut, PidDies,
                ConnCloses, WaitEnds, WriteCompletes, WriteFails
  <2>2. UNCHANGED decision \/ StopAll(SweepKeys, "release", 0)
    BY <1>6 DEF Elapses, Sweep, GoesStale, TombstoneTrimmed, LeaseRunsOut, PidDies,
                ConnCloses, WaitEnds, WriteCompletes, WriteFails
  <2> QED BY <2>1, <2>2, CardSame, CardClose DEF cardVars
<1>7. CASE Resumes
  <2>1. UNCHANGED cardVars
    BY <1>7 DEF Resumes, ResumeHold, ResumePoll
  <2>2. UNCHANGED decision \/ \E K : StopAll(K, "release", 0)
    BY <1>7 DEF Resumes, ResumeHold, ResumePoll, PollParks
  <2> QED BY <2>1, <2>2, CardSame, CardClose DEF cardVars
<1> QED BY <1>1, <1>2, <1>3, <1>4, <1>5, <1>6, <1>7 DEF Next, Requests, Taps

\* A tap settles the hold its own card was drawn for, and no other one that
\* came to stand under the same request id since.
THEOREM TapsDecideTheirCard == Spec => []NoBlindDecision
<1>1. Init => CardInv
  BY ConstantsAssumption DEF Init, CardInv, CardsDiffer, NoBlindDecision, Undecided
<1>2. TypeOK /\ CardInv /\ [Next]_vars => CardInv'
  <2> SUFFICES ASSUME TypeOK, CardInv, [Next]_vars PROVE CardInv'
    OBVIOUS
  <2>1. CASE UNCHANGED vars
    BY <2>1, CardSame DEF vars, cardVars
  <2> QED BY <2>1, CardStep DEF Next
<1>3. CardInv => NoBlindDecision
  BY DEF CardInv
<1> QED BY <1>1, <1>2, <1>3, TypeCorrect, PTL DEF Spec

-----------------------------------------------------------------------------
(* No request waits in vain.                                               *)

\* The request on c was made under the registration of now.
Claimed(c) == row # NoEval /\ legs[c].gen = gen

\* Two open holds have two numbers.
HoldsDiffer == \A j, k \in OpenKeys : hold[j] = hold[k] => j = k

\* A parked request of this registration is its process's own; a hold leg
\* that can carry an answer keeps the lease running, woken or not; and one
\* that nobody woke waits for what is there.
ParkedFits(c) ==
  /\ legs[c].kind \in {"poll", "hold"} /\ legs[c].gen <= gen
  /\ Claimed(c) => PidOf[legs[c].ev] = PidOf[row]
  /\ legs[c].kind = "hold" /\ ClaimLive(c) => hold[Now(legs[c].id)] \notin lapsed
  /\ legs[c].open /\ ~legs[c].woken /\ alive[PidOf[legs[c].ev]] =>
       /\ Claimed(c)
       /\ legs[c].id # NoId => hold[Now(legs[c].id)] \notin lapsed \cup {0}

ParkedInv == HoldsDiffer /\ \A c \in Conns : legs[c].st = "parked" => ParkedFits(c)

\* Waking changes the wakeups of those it reaches, and nothing else.
LEMMA WakeFields ==
  ASSUME NEW L \in Legs, NEW c \in Conns
  PROVE  /\ WakeHolds(L) \in Legs /\ WakePolls(L) \in Legs
         /\ WakeHolds(L)[c].st = L[c].st /\ WakePolls(L)[c].st = L[c].st
         /\ WakeHolds(L)[c].kind = L[c].kind /\ WakePolls(L)[c].kind = L[c].kind
         /\ WakeHolds(L)[c].ev = L[c].ev /\ WakePolls(L)[c].ev = L[c].ev
         /\ WakeHolds(L)[c].gen = L[c].gen /\ WakePolls(L)[c].gen = L[c].gen
         /\ WakeHolds(L)[c].id = L[c].id /\ WakePolls(L)[c].id = L[c].id
         /\ WakeHolds(L)[c].open = L[c].open /\ WakePolls(L)[c].open = L[c].open
         /\ WakeHolds(L)[c].woken = (L[c].woken \/ (L[c].st = "parked" /\ L[c].id # NoId))
         /\ WakePolls(L)[c].woken = (L[c].woken \/ (L[c].st = "parked" /\ L[c].kind = "poll"))
<1>1. L[c] \in LegRecords
  BY DEF Legs
<1> QED
  BY <1>1, WakesKeepLegs DEF WakeHolds, WakePolls, LegRecords

\* The request on c, if it is parked, is the one it was, and no less woken.
Kept(c) ==
  legs'[c].st = "parked" =>
    /\ legs[c].st = "parked"
    /\ legs'[c].kind = legs[c].kind /\ legs'[c].ev = legs[c].ev
    /\ legs'[c].gen = legs[c].gen /\ legs'[c].id = legs[c].id
    /\ legs'[c].open => legs[c].open
    /\ legs[c].woken => legs'[c].woken

\* What the requests were made for is theirs still, or they are woken.
HoldsKept ==
  /\ \A k \in Keys : hold'[k] = hold[k] \/ hold'[k] = 0
  /\ lapsed' \subseteq lapsed
  /\ \A c \in Conns : legs'[c].st = "parked" /\ ~legs'[c].woken /\ legs'[c].id # NoId =>
       hold'[Now(legs'[c].id)] = hold[Now(legs'[c].id)]

\* Steps under which the registration stays.
LEMMA ParkedSame ==
  ASSUME TypeOK, ParkedInv, \A c \in Conns : Kept(c), HoldsKept,
         row' = row, gen' = gen, \A c \in Conns : legs'[c].st = "parked" /\ alive'[PidOf[legs'[c].ev]]
                                                    => alive[PidOf[legs'[c].ev]]
  PROVE  ParkedInv'
<1>1. HoldsDiffer'
  <2> SUFFICES ASSUME NEW j \in Keys, NEW k \in Keys, hold'[j] # 0, hold'[k] # 0,
                      hold'[j] = hold'[k]
               PROVE  j = k
    BY DEF HoldsDiffer, OpenKeys
  <2> QED
    BY DEF HoldsKept, ParkedInv, HoldsDiffer, OpenKeys
<1>2. ASSUME NEW c \in Conns, legs'[c].st = "parked"
      PROVE  ParkedFits(c)'
  <2>1. /\ ParkedFits(c) /\ legs[c].st = "parked"
        /\ legs'[c].kind = legs[c].kind /\ legs'[c].ev = legs[c].ev
        /\ legs'[c].gen = legs[c].gen /\ legs'[c].id = legs[c].id
        /\ legs'[c].open => legs[c].open
        /\ legs[c].woken => legs'[c].woken
    BY <1>2 DEF ParkedInv, Kept
  <2>2. Now(legs[c].id)' = Now(legs[c].id) /\ Now(legs'[c].id) = Now(legs[c].id)
    BY <2>1 DEF Now
  <2>3. Claimed(c)' <=> Claimed(c)
    BY <2>1 DEF Claimed
  <2>4. ClaimLive(c)' => ClaimLive(c)
    BY <2>1 DEF ClaimLive
  <2>5. legs'[c].kind = "hold" /\ ClaimLive(c)' => hold'[Now(legs[c].id)] \notin lapsed'
    <3> SUFFICES ASSUME legs[c].kind = "hold", ClaimLive(c)
                 PROVE  hold'[Now(legs[c].id)] \notin lapsed'
      BY <2>1, <2>4
    <3>1. hold[Now(legs[c].id)] \notin lapsed /\ Now(legs[c].id) \in Keys
      BY <2>1, NumberFacts DEF ParkedFits
    <3> QED
      BY <3>1, NumberFacts DEF HoldsKept
  <2>6. legs'[c].open /\ ~legs'[c].woken /\ alive'[PidOf[legs'[c].ev]] =>
          /\ Claimed(c)'
          /\ legs'[c].id # NoId => hold'[Now(legs[c].id)] \notin lapsed' \cup {0}
    <3> SUFFICES ASSUME legs'[c].open, ~legs'[c].woken, alive'[PidOf[legs'[c].ev]]
                 PROVE  /\ Claimed(c)'
                        /\ legs'[c].id # NoId => hold'[Now(legs[c].id)] \notin lapsed' \cup {0}
      OBVIOUS
    <3>1. /\ Claimed(c)
          /\ legs[c].id # NoId => hold[Now(legs[c].id)] \notin lapsed \cup {0}
      BY <1>2, <2>1 DEF ParkedFits
    <3> QED
      BY <1>2, <2>1, <2>2, <2>3, <3>1 DEF HoldsKept
  <2> QED
    BY <2>1, <2>2, <2>3, <2>5, <2>6 DEF ParkedFits
<1> QED
  BY <1>1, <1>2 DEF ParkedInv

\* Steps that drop the row: who waits is woken, or is of a dead process.
LEMMA ParkedDropped ==
  ASSUME TypeOK, ParkedInv, \A c \in Conns : Kept(c), gen' = gen, row' = NoEval,
         \A k \in Keys : hold'[k] = hold[k] \/ hold'[k] = 0,
         \A c \in Conns : legs'[c].st = "parked" /\ legs'[c].open /\ ~legs'[c].woken =>
           ~alive'[PidOf[legs'[c].ev]]
  PROVE  ParkedInv'
<1>1. HoldsDiffer'
  <2> SUFFICES ASSUME NEW j \in Keys, NEW k \in Keys, hold'[j] # 0, hold'[k] # 0,
                      hold'[j] = hold'[k]
               PROVE  j = k
    BY DEF HoldsDiffer, OpenKeys
  <2> QED
    BY DEF ParkedInv, HoldsDiffer, OpenKeys
<1>2. ASSUME NEW c \in Conns, legs'[c].st = "parked"
      PROVE  ParkedFits(c)'
  BY <1>2 DEF ParkedInv, Kept, ParkedFits, Claimed, ClaimLive
<1> QED
  BY <1>1, <1>2 DEF ParkedInv

\* The requests of L that are parked are requests that were.
Within(L) == L \in Legs /\ \A c \in Conns : L[c].st = "parked" => L[c] = legs[c]

\* A wake through WakeHolds keeps every request, and leaves nobody asleep
\* who waits for a hold.
LEMMA WakeHoldsKeeps ==
  ASSUME NEW L, Within(L), NEW c \in Conns, legs' = WakeHolds(L)
  PROVE  /\ Kept(c)
         /\ legs'[c].st = "parked" /\ ~legs'[c].woken => legs'[c].id = NoId
<1>1. L \in Legs /\ (L[c].st = "parked" => L[c] = legs[c])
  BY DEF Within
<1>2. /\ legs'[c].st = L[c].st /\ legs'[c].kind = L[c].kind
      /\ legs'[c].ev = L[c].ev /\ legs'[c].gen = L[c].gen
      /\ legs'[c].id = L[c].id /\ legs'[c].open = L[c].open
      /\ legs'[c].woken = (L[c].woken \/ (L[c].st = "parked" /\ L[c].id # NoId))
  BY <1>1, WakeFields, Zenon
<1> QED BY <1>1, <1>2, Zenon DEF Kept

\* A wake through both leaves nobody asleep.
LEMMA WakeBothKeeps ==
  ASSUME TypeOK, ParkedInv, NEW L, Within(L), NEW c \in Conns,
         legs' = WakeHolds(WakePolls(L)) \/ legs' = WakePolls(WakeHolds(L))
  PROVE  /\ Kept(c)
         /\ legs'[c].st = "parked" => legs'[c].woken
<1>1. /\ L \in Legs /\ WakeHolds(L) \in Legs /\ WakePolls(L) \in Legs
      /\ L[c].st = "parked" => L[c] = legs[c]
  BY WakesKeepLegs DEF Within
<1>2. L[c].st = "parked" => L[c].kind = "poll" \/ L[c].id # NoId
  BY <1>1, NumberFacts, ConstantsAssumption DEF ParkedInv, ParkedFits
<1>3. /\ legs'[c].st = L[c].st /\ legs'[c].kind = L[c].kind
      /\ legs'[c].ev = L[c].ev /\ legs'[c].gen = L[c].gen
      /\ legs'[c].id = L[c].id /\ legs'[c].open = L[c].open
      /\ L[c].woken => legs'[c].woken
      /\ L[c].st = "parked" /\ (L[c].id # NoId \/ L[c].kind = "poll") => legs'[c].woken
  <2> DEFINE P == WakePolls(L)
             H == WakeHolds(L)
  <2>1. /\ P[c].st = L[c].st /\ P[c].kind = L[c].kind /\ P[c].ev = L[c].ev
        /\ P[c].gen = L[c].gen /\ P[c].id = L[c].id /\ P[c].open = L[c].open
        /\ P[c].woken = (L[c].woken \/ (L[c].st = "parked" /\ L[c].kind = "poll"))
    BY <1>1, WakeFields, Zenon
  <2>2. /\ H[c].st = L[c].st /\ H[c].kind = L[c].kind /\ H[c].ev = L[c].ev
        /\ H[c].gen = L[c].gen /\ H[c].id = L[c].id /\ H[c].open = L[c].open
        /\ H[c].woken = (L[c].woken \/ (L[c].st = "parked" /\ L[c].id # NoId))
    BY <1>1, WakeFields, Zenon
  <2> HIDE DEF P, H
  <2>3. P \in Legs /\ H \in Legs /\ (legs' = WakeHolds(P) \/ legs' = WakePolls(H))
    BY <1>1 DEF P, H
  <2>4. CASE legs' = WakeHolds(P)
    <3>1. /\ legs'[c].st = P[c].st /\ legs'[c].kind = P[c].kind /\ legs'[c].ev = P[c].ev
          /\ legs'[c].gen = P[c].gen /\ legs'[c].id = P[c].id /\ legs'[c].open = P[c].open
          /\ legs'[c].woken = (P[c].woken \/ (P[c].st = "parked" /\ P[c].id # NoId))
      BY <2>3, <2>4, WakeFields, Zenon
    <3> QED BY <2>1, <3>1, Zenon
  <2>5. CASE legs' = WakePolls(H)
    <3>1. /\ legs'[c].st = H[c].st /\ legs'[c].kind = H[c].kind /\ legs'[c].ev = H[c].ev
          /\ legs'[c].gen = H[c].gen /\ legs'[c].id = H[c].id /\ legs'[c].open = H[c].open
          /\ legs'[c].woken = (H[c].woken \/ (H[c].st = "parked" /\ H[c].kind = "poll"))
      BY <2>3, <2>5, WakeFields, Zenon
    <3> QED BY <2>2, <3>1, Zenon
  <2> QED BY <2>3, <2>4, <2>5
<1> QED BY <1>1, <1>2, <1>3, Zenon DEF Kept

\* The requests of now, with one answered or not.
LEMMA WithinNow ==
  ASSUME TypeOK
  PROVE  Within(legs) /\ \A c \in Conns : Within([legs EXCEPT ![c] = Free])
<1>1. legs \in Legs /\ legs \in [Conns -> LegRecords]
  BY NumberFacts DEF Legs
<1>2. ASSUME NEW c \in Conns PROVE Within([legs EXCEPT ![c] = Free])
  <2>1. [legs EXCEPT ![c] = Free] \in Legs
    BY <1>1, FreeKeepsLegs
  <2>2. ASSUME NEW d \in Conns, [legs EXCEPT ![c] = Free][d].st = "parked"
        PROVE  [legs EXCEPT ![c] = Free][d] = legs[d]
    BY <1>1, <2>2 DEF Free
  <2> QED BY <2>1, <2>2 DEF Within
<1> QED BY <1>1, <1>2 DEF Within

\* A request that is answered, or begins to be, is no longer parked; the
\* others are what they were.
LEMMA AnswerKeeps ==
  ASSUME TypeOK, NEW b \in Conns, NEW c \in Conns,
         NEW leg, leg = Free \/ leg.st = "writing", legs' = [legs EXCEPT ![b] = leg]
  PROVE  /\ Kept(c)
         /\ legs'[c].st = "parked" => legs'[c] = legs[c]
<1>1. legs \in [Conns -> LegRecords] /\ leg.st # "parked"
  BY DEF TypeOK, Free
<1>2. legs'[b].st # "parked" /\ (b # c => legs'[c] = legs[c])
  BY <1>1, Zenon
<1> QED BY <1>2, Zenon DEF Kept

\* Steps that leave the registration, the holds and their leases alone.
LEMMA ParkedKept ==
  ASSUME TypeOK, ParkedInv, UNCHANGED <<row, gen, hold, lapsed, alive>>,
         \A c \in Conns : Kept(c)
  PROVE  ParkedInv'
BY ParkedSame DEF HoldsKept

\* Steps that close holds and wake everybody who waits for one.
LEMMA ParkedClose ==
  ASSUME TypeOK, ParkedInv, UNCHANGED <<row, gen, alive>>,
         NEW K, NEW kind, NEW seen, StopAll(K, kind, seen), \A c \in Conns : Kept(c),
         \A c \in Conns : legs'[c].st = "parked" /\ ~legs'[c].woken => legs'[c].id = NoId
  PROVE  ParkedInv'
<1>1. HoldsKept
  BY DEF HoldsKept, StopAll
<1> QED BY <1>1, ParkedSame

\* Steps that put one request on a connection, or change one there.
LEMMA ParkedOne ==
  ASSUME TypeOK, ParkedInv, UNCHANGED <<row, gen, hold, alive>>, lapsed' \subseteq lapsed,
         NEW c \in Conns, NEW leg, legs' = [legs EXCEPT ![c] = leg], ParkedFits(c)'
  PROVE  ParkedInv'
<1>1. HoldsDiffer'
  BY DEF ParkedInv, HoldsDiffer, OpenKeys
<1>2. ASSUME NEW d \in Conns, d # c, legs'[d].st = "parked"
      PROVE  ParkedFits(d)'
  <2>1. legs'[d] = legs[d]
    BY <1>2 DEF TypeOK
  <2>2. ParkedFits(d)
    BY <1>2, <2>1 DEF ParkedInv
  <2> QED BY <2>1, <2>2 DEF ParkedFits, Claimed, ClaimLive, Now
<1> QED BY <1>1, <1>2 DEF ParkedInv

\* An outcome that goes out takes its request from those that wait.
LEMMA ParkedHandOver ==
  ASSUME TypeOK, ParkedInv, UNCHANGED <<row, gen, hold, lapsed, alive>>,
         NEW c \in Conns, NEW kind, NEW ev, NEW i, HandOver(c, kind, ev, i) \/ Finish(c)
  PROVE  ParkedInv'
<1>1. PICK leg : (leg = Free \/ leg.st = "writing") /\ legs' = [legs EXCEPT ![c] = leg]
  <2>1. Sends(kind, ev, i, tomb[Now(i)]).st = "writing"
    BY DEF Sends
  <2> QED BY <2>1, Zenon DEF HandOver, Finish
<1>2. \A d \in Conns : Kept(d)
  BY <1>1, AnswerKeeps
<1> QED BY <1>2, ParkedKept

\* Steps that close holds and wake everybody who waits.
LEMMA ParkedCloseAll ==
  ASSUME TypeOK, ParkedInv, UNCHANGED <<row, gen, alive>>,
         NEW K, NEW kind, NEW seen, StopAll(K, kind, seen),
         legs' = WakeHolds(WakePolls(legs)) \/ legs' = WakePolls(WakeHolds(legs))
  PROVE  ParkedInv'
<1>1. \A c \in Conns : Kept(c) /\ (legs'[c].st = "parked" => legs'[c].woken)
  BY WithinNow, WakeBothKeeps
<1> QED BY <1>1, ParkedClose

\* A new registration ends the claim of every request that waits.
LEMMA ParkedRegister ==
  ASSUME TypeOK, ParkedInv, NEW ev \in Evals, Register(ev)
  PROVE  ParkedInv'
<1>1. /\ \A k \in Keys : hold'[k] = hold[k] \/ hold'[k] = 0
      /\ gen' = gen + 1 /\ legs' = WakeHolds(WakePolls(legs))
  BY DEF Register, StopAll
<1>2. HoldsDiffer'
  <2> SUFFICES ASSUME NEW j \in Keys, NEW k \in Keys, hold'[j] # 0, hold'[k] # 0,
                      hold'[j] = hold'[k]
               PROVE  j = k
    BY DEF HoldsDiffer, OpenKeys
  <2> QED BY <1>1 DEF ParkedInv, HoldsDiffer, OpenKeys
<1>3. ASSUME NEW c \in Conns, legs'[c].st = "parked"
      PROVE  ParkedFits(c)'
  <2>1. Kept(c) /\ legs'[c].woken
    BY <1>1, <1>3, WithinNow, WakeBothKeeps
  <2>2. legs[c].st = "parked" /\ legs'[c].kind = legs[c].kind /\ legs'[c].gen = legs[c].gen
    BY <1>3, <2>1 DEF Kept
  <2>3. legs'[c].kind \in {"poll", "hold"} /\ legs'[c].gen <= gen
    BY <2>2 DEF ParkedInv, ParkedFits
  <2>4. legs'[c].gen <= gen' /\ legs'[c].gen # gen'
    BY <1>1, <2>2, <2>3, NumberFacts
  <2> QED BY <2>1, <2>3, <2>4 DEF ParkedFits, Claimed, ClaimLive
<1> QED BY <1>2, <1>3 DEF ParkedInv

\* The loss of the row wakes every request that waits.
LEMMA ParkedSessionEnds ==
  ASSUME TypeOK, ParkedInv, NEW ev \in Evals, SessionEnds(ev)
  PROVE  ParkedInv'
<1>1. \A c \in Conns : Kept(c) /\ (legs'[c].st = "parked" => legs'[c].woken)
  BY WithinNow, WakeBothKeeps DEF SessionEnds
<1> QED BY <1>1, ParkedDropped DEF SessionEnds, StopAll

\* A question the terminal settles wakes every request that waits.
LEMMA ParkedQuestion ==
  ASSUME TypeOK, ParkedInv, NEW ev \in Evals, NEW i \in Ids,
         NEW kind \in {"answer", "release"}, QuestionSettles(ev, i, kind)
  PROVE  ParkedInv'
<1>1. \A c \in Conns : Kept(c) /\ (legs'[c].st = "parked" => legs'[c].woken)
  BY WithinNow, WakeBothKeeps DEF QuestionSettles
<1>2. /\ \A k \in Keys : hold'[k] = hold[k] \/ hold'[k] = 0
      /\ lapsed' \subseteq lapsed /\ UNCHANGED <<row, gen, alive>>
  BY DEF QuestionSettles, TypeOK
<1>3. HoldsKept
  BY <1>1, <1>2 DEF HoldsKept
<1> QED BY <1>1, <1>2, <1>3, ParkedSame

\* A request that speaks for the registration waits for what is there.
LEMMA ParkedPoll ==
  ASSUME TypeOK, ParkedInv, NEW ev \in Evals, NEW c \in Conns, Poll(c, ev)
  PROVE  ParkedInv'
<1>1. legs' = [legs EXCEPT ![c] = Waits("poll", ev, NoId)] /\ legs'[c] = Waits("poll", ev, NoId)
  BY DEF Poll, TypeOK
<1>2. gen' = gen /\ row' = row /\ PidOf[ev] = PidOf[row] /\ gen \in Nat
  BY NumberFacts DEF Poll, Speaks
<1>3. /\ legs'[c].kind = "poll" /\ legs'[c].ev = ev /\ legs'[c].gen = gen
      /\ legs'[c].woken
  <2>1. legs'[c].kind = "poll" /\ legs'[c].ev = ev /\ legs'[c].gen = gen
    BY <1>1 DEF Waits
  <2>2. Waits("poll", ev, NoId).woken = ("poll" = "poll")
    BY Zenon DEF Waits
  <2> QED BY <1>1, <2>1, <2>2, Zenon
<1>4. ParkedFits(c)'
  BY <1>2, <1>3 DEF ParkedFits, Claimed, ClaimLive
<1> QED BY <1>1, <1>4, ParkedOne DEF Poll, storeVars

LEMMA ParkedHoldAgain ==
  ASSUME TypeOK, ParkedInv, NEW ev \in Evals, NEW c \in Conns, NEW i \in Ids, HoldAgain(c, ev, i)
  PROVE  ParkedInv'
<1>1. legs' = [legs EXCEPT ![c] = Waits("hold", ev, i)] /\ legs'[c] = Waits("hold", ev, i)
  BY DEF HoldAgain, TypeOK
<1>2. /\ gen' = gen /\ row' = row /\ row # NoEval /\ PidOf[ev] = PidOf[row] /\ gen \in Nat
      /\ hold' = hold /\ hold[Now(i)] # 0 /\ lapsed' = lapsed \ {hold[Now(i)]}
  BY NumberFacts DEF HoldAgain, Speaks, registryVars
<1>3. /\ legs'[c].kind = "hold" /\ legs'[c].ev = ev /\ legs'[c].gen = gen
      /\ Now(legs[c].id)' = Now(i)
  BY <1>1, <1>2 DEF Now, Waits
<1>4. hold'[Now(i)] \notin lapsed' \cup {0}
  BY <1>2
<1>5. ParkedFits(c)'
  BY <1>2, <1>3, <1>4 DEF ParkedFits, Claimed, ClaimLive
<1> QED BY <1>1, <1>2, <1>5, ParkedOne DEF HoldAgain, registryVars

\* A new hold has a number no other has had, and a lease.
LEMMA ParkedOpened ==
  ASSUME TypeOK, ParkedInv, NEW ev \in Evals, NEW c \in Conns, NEW i \in Ids, HoldOpened(c, ev, i)
  PROVE  ParkedInv'
<1>1. /\ UNCHANGED <<row, gen, lapsed, alive, legs>>
      /\ hold' = [hold EXCEPT ![Now(i)] = opened + 1]
  BY DEF HoldOpened
<1>2. /\ Now(i) \in Keys /\ opened + 1 # 0 /\ opened + 1 \notin lapsed
      /\ \A k \in Keys : hold[k] # opened + 1
  BY NumberFacts
<1>3. \A k \in Keys : hold'[k] = IF k = Now(i) THEN opened + 1 ELSE hold[k]
  BY <1>1 DEF TypeOK
<1>4. HoldsDiffer'
  <2> SUFFICES ASSUME NEW j \in Keys, NEW k \in Keys, hold'[j] # 0, hold'[k] # 0,
                      hold'[j] = hold'[k]
               PROVE  j = k
    BY DEF HoldsDiffer, OpenKeys
  <2> QED BY <1>2, <1>3 DEF ParkedInv, HoldsDiffer, OpenKeys
<1>5. ASSUME NEW d \in Conns, legs'[d].st = "parked"
      PROVE  ParkedFits(d)'
  <2>1. ParkedFits(d) /\ Now(legs[d].id)' = Now(legs[d].id) /\ Now(legs'[d].id) = Now(legs[d].id)
    BY <1>1, <1>5 DEF ParkedInv, Now
  <2>2. ASSUME legs[d].id # NoId, hold[Now(legs[d].id)] \notin lapsed
        PROVE  /\ hold'[Now(legs[d].id)] \notin lapsed'
               /\ hold[Now(legs[d].id)] # 0 => hold'[Now(legs[d].id)] # 0
    <3>1. Now(legs[d].id) \in Keys
      BY <2>2, NumberFacts
    <3> QED BY <1>1, <1>2, <1>3, <2>2, <3>1
  <2>3. legs[d].kind = "hold" => legs[d].id # NoId
    BY <1>1, <1>5, NumberFacts, ConstantsAssumption
  <2> QED BY <1>1, <2>1, <2>2, <2>3 DEF ParkedFits, Claimed, ClaimLive
<1> QED BY <1>4, <1>5 DEF ParkedInv

\* A lease that runs out had no hold leg to renew it, and wakes its polls.
LEMMA ParkedLease ==
  ASSUME TypeOK, ParkedInv, NEW k \in Keys, LeaseRunsOut(k)
  PROVE  ParkedInv'
<1>1. /\ UNCHANGED <<row, gen, hold, alive>> /\ hold[k] # 0
      /\ lapsed' = lapsed \cup {hold[k]} /\ ~LiveAsker(k)
  BY DEF LeaseRunsOut, registryVars
<1>2. HoldsDiffer'
  BY <1>1 DEF ParkedInv, HoldsDiffer, OpenKeys
<1>3. ASSUME NEW j \in Keys, j # k, hold[j] \notin lapsed
      PROVE  hold[j] \notin lapsed'
  <2>1. hold[j] # hold[k]
    BY <1>1, <1>3 DEF ParkedInv, HoldsDiffer, OpenKeys
  <2> QED BY <1>1, <1>3, <2>1
<1>4. ASSUME NEW c \in Conns, legs'[c].st = "parked"
      PROVE  ParkedFits(c)'
  <2> DEFINE b == legs[c].woken \/ (/\ legs[c].st = "parked"
                                    /\ legs[c].kind = "poll"
                                    /\ <<gen, legs[c].id>> = k)
  <2>1. legs'[c] = [legs[c] EXCEPT !.woken = b]
    BY Zenon DEF LeaseRunsOut
  <2>2. legs[c] \in LegRecords
    BY NumberFacts
  <2>3. legs'[c].woken = b
    BY <2>1, <2>2, Zenon DEF LegRecords
  <2> HIDE DEF b
  <2>4. /\ legs'[c].st = legs[c].st /\ legs'[c].kind = legs[c].kind
        /\ legs'[c].ev = legs[c].ev /\ legs'[c].gen = legs[c].gen
        /\ legs'[c].id = legs[c].id /\ legs'[c].open = legs[c].open
    BY <2>1, <2>2 DEF LegRecords
  <2>5. /\ ParkedFits(c) /\ legs[c].st = "parked" /\ (legs[c].kind = "hold" => legs[c].id \in Ids)
        /\ legs[c].id # NoId => Now(legs[c].id) \in Keys
    BY <1>4, <2>4, NumberFacts DEF ParkedInv
  <2>6. Now(legs[c].id)' = Now(legs[c].id) /\ Now(legs'[c].id) = Now(legs[c].id)
    BY <1>1, <2>4 DEF Now
  <2>7. ASSUME legs[c].kind = "hold", ClaimLive(c)
        PROVE  hold[Now(legs[c].id)] \notin lapsed'
    <3>1. Now(legs[c].id) # k
      BY <1>1, <2>5, <2>7 DEF LiveAsker, ClaimLive, Now
    <3>2. Now(legs[c].id) \in Keys /\ hold[Now(legs[c].id)] \notin lapsed
      BY <2>5, <2>7, ConstantsAssumption DEF ParkedFits
    <3> QED BY <1>3, <3>1, <3>2
  <2>8. ASSUME legs[c].open, ~b, alive[PidOf[legs[c].ev]], legs[c].id # NoId
        PROVE  hold[Now(legs[c].id)] \notin lapsed' \cup {0}
    <3>1. ~legs[c].woken
      BY <2>8 DEF b
    <3>2. Claimed(c) /\ hold[Now(legs[c].id)] \notin lapsed \cup {0}
      BY <2>5, <2>8, <3>1 DEF ParkedFits
    <3>3. CASE legs[c].kind = "hold"
      BY <2>7, <2>8, <3>2, <3>3 DEF ClaimLive, Claimed
    <3>4. CASE legs[c].kind = "poll"
      <4>1. Now(legs[c].id) # k
        BY <2>5, <2>8, <3>4 DEF b, Now
      <4> QED BY <1>3, <2>5, <2>8, <3>2, <4>1
    <3> QED BY <2>5, <3>3, <3>4 DEF ParkedFits
  <2>9. legs[c].woken => b
    BY DEF b
  <2> QED BY <1>1, <2>3, <2>4, <2>5, <2>6, <2>7, <2>8, <2>9 DEF ParkedFits, Claimed, ClaimLive
<1> QED BY <1>2, <1>4 DEF ParkedInv

\* The sweep drops the row of a dead process, or closes what it lists.
LEMMA ParkedSweep ==
  ASSUME TypeOK, ParkedInv, Sweep
  PROVE  ParkedInv'
<1>1. /\ StopAll(SweepKeys, "release", 0) /\ UNCHANGED <<gen, alive>>
      /\ legs' = legs \/ legs' = WakeHolds(legs)
      /\ SweepKeys # {} => legs' = WakeHolds(legs)
  BY DEF Sweep
<1>2. \A c \in Conns : Kept(c)
  BY <1>1, WithinNow, WakeHoldsKeeps DEF Kept
<1>3. CASE RowIsDead
  <2>1. row' = NoEval /\ \A k \in Keys : hold'[k] = hold[k] \/ hold'[k] = 0
    BY <1>1, <1>3 DEF Sweep, StopAll
  <2>2. ASSUME NEW c \in Conns, legs'[c].st = "parked", legs'[c].open, ~legs'[c].woken
        PROVE  ~alive'[PidOf[legs'[c].ev]]
    <3>1. /\ ParkedFits(c) /\ legs[c].open /\ ~legs[c].woken /\ legs'[c].ev = legs[c].ev
      BY <1>2, <2>2 DEF Kept, ParkedInv
    <3> QED BY <1>1, <1>3, <3>1 DEF RowIsDead, ParkedFits
  <2> QED BY <1>1, <1>2, <2>1, <2>2, ParkedDropped
<1>4. CASE ~RowIsDead
  <2>1. row' = row
    BY <1>4 DEF Sweep
  <2>2. CASE SweepKeys = {}
    <3>1. UNCHANGED <<hold, lapsed>>
      BY <1>1, <2>2 DEF StopAll, TypeOK
    <3> QED BY <1>1, <1>2, <2>1, <3>1, ParkedKept
  <2>3. CASE SweepKeys # {}
    BY <1>1, <1>2, <2>1, <2>3, WithinNow, WakeHoldsKeeps, ParkedClose
  <2> QED BY <2>2, <2>3
<1> QED BY <1>3, <1>4

\* A hang-up is one no wait is asleep after, unless it waits for nothing.
LEMMA ParkedConnCloses ==
  ASSUME TypeOK, ParkedInv, NEW c \in Conns, ConnCloses(c)
  PROVE  ParkedInv'
<1>1. /\ UNCHANGED <<row, gen, hold, lapsed, alive>> /\ ~legs[c].woken
      /\ legs[c] \in LegRecords /\ legs \in [Conns -> LegRecords]
  BY NumberFacts DEF ConnCloses, Quiet, registryVars, storeVars, Legs
<1>2. ASSUME NEW d \in Conns, d # c PROVE legs'[d] = legs[d]
  BY <1>1, <1>2 DEF ConnCloses
<1>3. /\ legs'[c].st = legs[c].st /\ legs'[c].kind = legs[c].kind
      /\ legs'[c].ev = legs[c].ev /\ legs'[c].gen = legs[c].gen
      /\ legs'[c].id = legs[c].id /\ ~legs'[c].open
  BY <1>1 DEF ConnCloses, LegRecords
<1>4. Kept(c)
  BY <1>1, <1>3, Zenon DEF Kept
<1>5. \A d \in Conns : Kept(d)
  BY <1>2, <1>4 DEF Kept
<1> QED BY <1>1, <1>5, ParkedKept

\* A write that failed puts its outcome back and wakes everybody.
LEMMA ParkedWriteFails ==
  ASSUME TypeOK, ParkedInv, NEW c \in Conns, WriteFails(c)
  PROVE  ParkedInv'
<1>1. UNCHANGED <<row, gen, hold, lapsed, alive>>
  BY DEF WriteFails, registryVars
<1>2. CASE legs' = WakePolls(WakeHolds([legs EXCEPT ![c] = Free]))
  <2>1. \A d \in Conns : Kept(d)
    BY <1>2, WithinNow, WakeBothKeeps
  <2> QED BY <1>1, <2>1, ParkedKept
<1>3. CASE Finish(c)
  BY <1>1, <1>3, ParkedHandOver
<1> QED BY <1>2, <1>3 DEF WriteFails

\* A woken hold leg parks again only on a hold whose lease it keeps.
LEMMA ParkedResumeHold ==
  ASSUME TypeOK, ParkedInv, NEW c \in Conns, ResumeHold(c)
  PROVE  ParkedInv'
<1>1. UNCHANGED <<row, gen, hold, lapsed, alive>> /\ legs[c].woken /\ legs[c].kind = "hold"
  BY DEF ResumeHold, registryVars
<1>2. CASE \E kind, ev, i : HandOver(c, kind, ev, i) \/ Finish(c)
  BY <1>1, <1>2, ParkedHandOver
<1>3. CASE /\ ClaimLive(c) /\ hold[Now(legs[c].id)] # 0
           /\ legs' = [legs EXCEPT ![c].woken = FALSE]
  <2> DEFINE leg == [legs[c] EXCEPT !.woken = FALSE]
  <2>1. /\ legs' = [legs EXCEPT ![c] = leg] /\ legs'[c] = leg
        /\ legs[c] \in LegRecords /\ LegShape(legs[c])
    BY <1>3, NumberFacts DEF Legs
  <2>2. /\ leg.kind = legs[c].kind /\ leg.ev = legs[c].ev /\ leg.gen = legs[c].gen
        /\ leg.id = legs[c].id /\ leg.open = legs[c].open
    BY <2>1 DEF LegRecords
  <2>3. ParkedFits(c)
    BY <1>1, <2>1 DEF ParkedInv, LegShape
  <2> HIDE DEF leg
  <2>4. Now(legs[c].id)' = Now(legs[c].id) /\ Now(legs'[c].id) = Now(legs[c].id)
    BY <1>1, <2>1, <2>2 DEF Now
  <2>5. ParkedFits(c)'
    BY <1>1, <1>3, <2>1, <2>2, <2>3, <2>4 DEF ParkedFits, Claimed, ClaimLive
  <2> QED BY <1>1, <2>1, <2>5, ParkedOne
<1> QED BY <1>2, <1>3 DEF ResumeHold

\* So does a woken poll, on an open hold it finds, or on nothing.
LEMMA ParkedPollParks ==
  ASSUME TypeOK, ParkedInv, NEW c \in Conns, NEW i \in Ids \cup {NoId}, alive' = alive,
         legs[c].woken, legs[c].kind = "poll", ClaimLive(c), PollParks(c, i),
         i # NoId => hold[Now(i)] \notin lapsed \cup {0}
  PROVE  ParkedInv'
<1> DEFINE leg == [legs[c] EXCEPT !.woken = FALSE, !.id = i]
<1>1. /\ UNCHANGED <<row, gen, hold, lapsed, alive>>
      /\ legs[c] \in LegRecords /\ LegShape(legs[c])
  BY NumberFacts DEF PollParks, registryVars, storeVars
<1>2. legs' = [legs EXCEPT ![c] = leg] /\ legs'[c] = leg
  BY NumberFacts DEF PollParks, Legs
<1>3. /\ leg.kind = legs[c].kind /\ leg.ev = legs[c].ev /\ leg.gen = legs[c].gen
      /\ leg.id = i /\ leg.open = legs[c].open
  BY <1>1 DEF LegRecords
<1>4. ParkedFits(c)
  BY <1>1 DEF ParkedInv, LegShape
<1> HIDE DEF leg
<1>5. Now(legs[c].id)' = Now(i)
  BY <1>1, <1>2, <1>3 DEF Now
<1>6. ParkedFits(c)'
  BY <1>1, <1>2, <1>3, <1>4, <1>5 DEF ParkedFits, Claimed, ClaimLive
<1> QED BY <1>1, <1>2, <1>6, ParkedOne

LEMMA ParkedResumePoll ==
  ASSUME TypeOK, ParkedInv, NEW c \in Conns, ResumePoll(c)
  PROVE  ParkedInv'
<1>1. /\ legs[c].woken /\ legs[c].kind = "poll" /\ alive' = alive
      /\ PollTargets(c) \subseteq Ids
  BY PollTargetsAreIds DEF ResumePoll
<1>2. CASE /\ UNCHANGED <<row, gen, hold, lapsed>>
           /\ \E kind, ev, i : HandOver(c, kind, ev, i) \/ Finish(c)
  BY <1>1, <1>2, ParkedHandOver
<1>3. CASE ClaimLive(c) /\ PollParks(c, NoId)
  BY <1>1, <1>3, ParkedPollParks
<1>4. ASSUME ClaimLive(c), NEW i \in PollTargets(c), hold[Now(i)] # 0, hold[Now(i)] \notin lapsed,
             PollParks(c, i)
      PROVE  ParkedInv'
  BY <1>1, <1>4, ParkedPollParks
<1>5. ASSUME NEW i \in PollTargets(c), StopAll({Now(i)}, "release", 0), UNCHANGED <<row, gen>>,
             legs' = WakeHolds([legs EXCEPT ![c] = Free])
      PROVE  ParkedInv'
  BY <1>1, <1>5, WithinNow, WakeHoldsKeeps, ParkedClose
<1> QED BY <1>1, <1>2, <1>3, <1>4, <1>5 DEF ResumePoll, registryVars, storeVars

\* Every step keeps it.
LEMMA ParkedStep ==
  ASSUME TypeOK, ParkedInv, Next
  PROVE  ParkedInv'
<1>1. ASSUME NEW ev \in Evals, Requests(ev) PROVE ParkedInv'
  <2>1. CASE Register(ev)
    BY <2>1, ParkedRegister
  <2>2. CASE TurnCompletes(ev)
    BY <2>2, ParkedCloseAll DEF TurnCompletes
  <2>3. CASE SessionEnds(ev)
    BY <2>3, ParkedSessionEnds
  <2>4. ASSUME NEW i \in Ids, UserCancels(ev, i) PROVE ParkedInv'
    BY <2>4, ParkedCloseAll DEF UserCancels
  <2>5. ASSUME NEW i \in Ids, BandAnswers(ev, i) PROVE ParkedInv'
    BY <2>5, ParkedCloseAll DEF BandAnswers
  <2>6. ASSUME NEW i \in Ids, NEW kind \in {"answer", "release"}, QuestionSettles(ev, i, kind)
        PROVE  ParkedInv'
    BY <2>6, ParkedQuestion
  <2>7. ASSUME NEW c \in Conns, Poll(c, ev) PROVE ParkedInv'
    BY <2>7, ParkedPoll
  <2>8. ASSUME NEW c \in Conns, NEW i \in Ids, HoldAgain(c, ev, i) PROVE ParkedInv'
    BY <2>8, ParkedHoldAgain
  <2>9. ASSUME NEW c \in Conns, NEW i \in Ids, HoldSettled(c, ev, i) PROVE ParkedInv'
    BY <2>9, ParkedHandOver DEF HoldSettled, registryVars
  <2>10. ASSUME NEW c \in Conns, NEW i \in Ids, HoldReleased(c, ev, i) PROVE ParkedInv'
    BY <2>10, ParkedKept DEF HoldReleased, registryVars, Kept
  <2>11. ASSUME NEW c \in Conns, NEW i \in Ids, HoldOpened(c, ev, i) PROVE ParkedInv'
    BY <2>11, ParkedOpened
  <2> QED BY <1>1, <2>1, <2>2, <2>3, <2>4, <2>5, <2>6, <2>7, <2>8, <2>9, <2>10, <2>11 DEF Requests
<1>2. ASSUME NEW m \in Serials, AppDecides(m) PROVE ParkedInv'
  BY <1>2, ParkedCloseAll DEF AppDecides
<1>3. ASSUME NEW m \in Serials, AppAnswers(m) PROVE ParkedInv'
  BY <1>3, WithinNow, WakeHoldsKeeps, ParkedClose DEF AppAnswers
<1>4. CASE Elapses
  <2>1. CASE GoesStale
    BY <2>1, ParkedKept DEF GoesStale, storeVars, Kept
  <2>2. ASSUME NEW k \in Keys, TombstoneTrimmed(k) PROVE ParkedInv'
    BY <2>2, ParkedKept DEF TombstoneTrimmed, registryVars, Kept
  <2>3. ASSUME NEW p \in Pids, PidDies(p) PROVE ParkedInv'
    <3>1. UNCHANGED <<row, gen, hold, lapsed, legs>> /\ alive' = [alive EXCEPT ![p] = FALSE]
      BY <2>3 DEF PidDies, registryVars, storeVars
    <3>2. HoldsKept /\ \A c \in Conns : Kept(c)
      BY <3>1 DEF HoldsKept, Kept
    <3>3. \A q : alive'[q] => alive[q] \/ q \notin Pids
      BY <3>1 DEF TypeOK
    <3>4. ASSUME NEW c \in Conns, legs'[c].st = "parked", alive'[PidOf[legs'[c].ev]]
          PROVE  alive[PidOf[legs'[c].ev]]
      <4>1. legs[c].ev \in Evals
        BY <3>1, <3>4, NumberFacts DEF LegShape, LegRecords
      <4>2. PidOf[legs'[c].ev] \in Pids
        BY <3>1, <4>1, ConstantsAssumption
      <4> QED BY <3>3, <3>4, <4>2
    <3> QED BY <3>1, <3>2, <3>4, ParkedSame
  <2>4. ASSUME NEW c \in Conns, WaitEnds(c) PROVE ParkedInv'
    BY <2>4, ParkedHandOver DEF WaitEnds, registryVars, storeVars
  <2>5. ASSUME NEW c \in Conns, WriteCompletes(c) PROVE ParkedInv'
    BY <2>5, ParkedHandOver DEF WriteCompletes, registryVars, storeVars
  <2> QED BY <1>4, <2>1, <2>2, <2>3, <2>4, <2>5, ParkedSweep, ParkedLease, ParkedConnCloses,
             ParkedWriteFails DEF Elapses
<1>5. CASE Resumes
  BY <1>5, ParkedResumeHold, ParkedResumePoll DEF Resumes
<1> QED BY <1>1, <1>2, <1>3, <1>4, <1>5 DEF Next, Taps

\* No lost wakeup: when the loop is idle, a request still parked by a running
\* terminal is of the registration of now, and its hold is open and leased.
THEOREM NobodyWaitsInVain == Spec => []NothingParkedInVain
<1>1. Init => ParkedInv
  BY DEF Init, ParkedInv, HoldsDiffer, OpenKeys, Free
<1>2. TypeOK /\ ParkedInv /\ [Next]_vars => ParkedInv'
  <2> SUFFICES ASSUME TypeOK, ParkedInv, [Next]_vars PROVE ParkedInv'
    OBVIOUS
  <2>1. CASE UNCHANGED vars
    BY <2>1, ParkedKept DEF vars, registryVars, storeVars, Kept
  <2> QED BY <2>1, ParkedStep
<1>3. ParkedInv => NothingParkedInVain
  BY DEF ParkedInv, ParkedFits, Claimed, NothingParkedInVain, Quiet
<1> QED BY <1>1, <1>2, <1>3, TypeCorrect, PTL DEF Spec

-----------------------------------------------------------------------------
(* A call is settled once, in time, and for the terminal that made it.     *)

\* What is held is not settled, and neither is what is yet to be.
StillUndecided ==
  /\ HoldsDiffer
  /\ \A k \in OpenKeys : decision[hold[k]] = Undecided
  /\ \A n \in Serials : n > opened => decision[n] = Undecided

\* The step settles the holds of K alike, and with a person's decision only
\* while their leases run.
Settles(K, kind, seen) ==
  /\ hold' = [k \in Keys |-> IF k \in K THEN 0 ELSE hold[k]]
  /\ decision' = [n \in Serials |->
                    IF n \in {hold[k] : k \in K} THEN [kind |-> kind, seen |-> seen]
                                                 ELSE decision[n]]
  /\ opened' = opened
  /\ seen # 0 \/ kind = "verdict" => \A k \in K : hold[k] \notin lapsed

SettlesSome == \E K \in SUBSET OpenKeys : \E kind, seen : Settles(K, kind, seen)

\* The closes for which no person decided.
LEMMA ReleaseSettles ==
  ASSUME NEW K \in SUBSET OpenKeys, StopAll(K, "release", 0), opened' = opened
  PROVE  SettlesSome
<1>1. Settles(K, "release", 0)
  BY DEF Settles, StopAll
<1> QED BY <1>1, Zenon DEF SettlesSome

\* A close of holds whose leases run.
LEMMA TapSettles ==
  ASSUME NEW K \in SUBSET OpenKeys, NEW kind, NEW seen, StopAll(K, kind, seen),
         opened' = opened, \A k \in K : hold[k] \notin lapsed
  PROVE  SettlesSome
<1>1. Settles(K, kind, seen)
  BY DEF Settles, StopAll
<1> QED BY <1>1, Zenon DEF SettlesSome

\* The terminal's own end of a question is a close of that one hold.
LEMMA QuestionSettlesOne ==
  ASSUME TypeOK, NEW ev \in Evals, NEW i \in Ids, NEW kind \in {"answer", "release"},
         QuestionSettles(ev, i, kind), hold[Now(i)] # 0
  PROVE  SettlesSome
<1>1. {Now(i)} \in SUBSET OpenKeys
  BY NumberFacts DEF OpenKeys
<1>2. /\ hold' = [hold EXCEPT ![Now(i)] = 0]
      /\ decision' = [decision EXCEPT ![hold[Now(i)]] = [kind |-> kind, seen |-> 0]]
      /\ opened' = opened
  BY DEF QuestionSettles, cardVars
<1>3. Settles({Now(i)}, kind, 0)
  <2>1. hold' = [k \in Keys |-> IF k \in {Now(i)} THEN 0 ELSE hold[k]]
    BY <1>2 DEF TypeOK
  <2>2. decision' = [n \in Serials |-> IF n \in {hold[k] : k \in {Now(i)}}
                                       THEN [kind |-> kind, seen |-> 0] ELSE decision[n]]
    BY <1>2 DEF TypeOK
  <2> QED BY <1>2, <2>1, <2>2 DEF Settles
<1> QED BY <1>1, <1>3, Zenon DEF SettlesSome

\* Every step settles some holds, or none, or opens one.
LEMMA SettlesCases ==
  ASSUME TypeOK, Next
  PROVE  \/ UNCHANGED <<hold, decision, opened>>
         \/ SettlesSome
         \/ \E ev \in Evals, c \in Conns, i \in Ids : HoldOpened(c, ev, i)
<1> DEFINE Goal == \/ UNCHANGED <<hold, decision, opened>>
                   \/ SettlesSome
                   \/ \E ev \in Evals, c \in Conns, i \in Ids : HoldOpened(c, ev, i)
<1>o. OpenNow \subseteq OpenKeys
  BY DEF OpenNow
<1>1. ASSUME NEW ev \in Evals, Requests(ev) PROVE Goal
  <2>1. CASE Register(ev)
    BY <1>o, <2>1, ReleaseSettles DEF Register, cardVars
  <2>2. CASE TurnCompletes(ev)
    BY <1>o, <2>2, ReleaseSettles DEF TurnCompletes, cardVars
  <2>3. CASE SessionEnds(ev)
    BY <1>o, <2>3, ReleaseSettles DEF SessionEnds, cardVars
  <2>4. ASSUME NEW i \in Ids, UserCancels(ev, i) PROVE Goal
    BY <1>o, <2>4, ReleaseSettles DEF UserCancels, cardVars
  <2>5. ASSUME NEW i \in Ids, BandAnswers(ev, i) PROVE Goal
    <3>1. {Now(i)} \in SUBSET OpenKeys /\ opened' = opened
      BY <2>5, NumberFacts DEF BandAnswers, OpenKeys, cardVars
    <3>2. CASE hold[Now(i)] \in lapsed
      BY <2>5, <3>1, <3>2, ReleaseSettles DEF BandAnswers
    <3>3. CASE hold[Now(i)] \notin lapsed
      BY <2>5, <3>1, <3>3, TapSettles DEF BandAnswers
    <3> QED BY <3>2, <3>3
  <2>6. ASSUME NEW i \in Ids, NEW kind \in {"answer", "release"}, QuestionSettles(ev, i, kind)
        PROVE  Goal
    <3>1. CASE hold[Now(i)] # 0
      BY <2>6, <3>1, QuestionSettlesOne
    <3>2. CASE hold[Now(i)] = 0
      BY <2>6, <3>2 DEF QuestionSettles, cardVars
    <3> QED BY <3>1, <3>2
  <2>7. ASSUME NEW c \in Conns, NEW i \in Ids, HoldOpened(c, ev, i) PROVE Goal
    BY <2>7
  <2>8. CASE \E c \in Conns : \/ Poll(c, ev)
                             \/ \E i \in Ids : \/ HoldAgain(c, ev, i)
                                               \/ HoldSettled(c, ev, i)
                                               \/ HoldReleased(c, ev, i)
    BY <2>8 DEF Poll, HoldAgain, HoldSettled, HoldReleased, storeVars, cardVars
  <2> QED BY <1>1, <2>1, <2>2, <2>3, <2>4, <2>5, <2>6, <2>7, <2>8 DEF Requests
<1>2. CASE Taps
  <2>1. PICK m \in Serials : AppDecides(m) \/ AppAnswers(m)
    BY <1>2 DEF Taps
  <2>2. PICK k \in Held(cardOf[m]) : \E kind \in {"verdict", "answer"} : StopAll({k}, kind, m)
    BY <2>1 DEF AppDecides, AppAnswers
  <2>3. {k} \in SUBSET OpenKeys /\ hold[k] \notin lapsed /\ opened' = opened
    BY <2>1, <2>2 DEF Held, OpenNow, AppDecides, AppAnswers, cardVars
  <2> QED BY <2>2, <2>3, TapSettles
<1>3. CASE Elapses
  <2>1. CASE Sweep
    BY <1>o, <2>1, ReleaseSettles DEF Sweep, SweepKeys, cardVars
  <2>2. CASE ~Sweep
    BY <1>3, <2>2 DEF Elapses, GoesStale, TombstoneTrimmed, LeaseRunsOut, PidDies, ConnCloses,
                      WaitEnds, WriteCompletes, WriteFails, storeVars, cardVars
  <2> QED BY <2>1, <2>2
<1>4. CASE Resumes
  <2>1. PICK c \in Conns : ResumeHold(c) \/ ResumePoll(c)
    BY <1>4 DEF Resumes
  <2>2. CASE ResumeHold(c)
    BY <2>2 DEF ResumeHold, cardVars
  <2>3. CASE ResumePoll(c)
    <3>1. opened' = opened /\ PollTargets(c) \subseteq Ids
      BY <2>3, PollTargetsAreIds DEF ResumePoll, cardVars
    <3>2. ASSUME NEW i \in PollTargets(c), hold[Now(i)] # 0, StopAll({Now(i)}, "release", 0)
          PROVE  SettlesSome
      <4>1. {Now(i)} \in SUBSET OpenKeys
        BY <3>1, <3>2, NumberFacts DEF OpenKeys
      <4> QED BY <3>1, <3>2, <4>1, ReleaseSettles
    <3> QED BY <2>3, <3>1, <3>2 DEF ResumePoll, PollParks, storeVars
  <2> QED BY <2>1, <2>2, <2>3
<1> QED BY <1>1, <1>2, <1>3, <1>4 DEF Next

\* So what is held stays undecided.
LEMMA UndecidedStep ==
  ASSUME TypeOK, StillUndecided, Next
  PROVE  StillUndecided'
<1>1. CASE UNCHANGED <<hold, decision, opened>>
  BY <1>1 DEF StillUndecided, HoldsDiffer, OpenKeys
<1>2. ASSUME NEW K \in SUBSET OpenKeys, NEW kind, NEW seen, Settles(K, kind, seen)
      PROVE  StillUndecided'
  <2>1. \A k \in OpenKeys' : /\ k \in OpenKeys /\ k \notin K /\ hold'[k] = hold[k]
                             /\ hold[k] \notin {hold[j] : j \in K}
    BY <1>2 DEF Settles, OpenKeys, StillUndecided, HoldsDiffer
  <2>2. HoldsDiffer'
    BY <2>1 DEF StillUndecided, HoldsDiffer
  <2>3. ASSUME NEW k \in OpenKeys' PROVE decision'[hold'[k]] = Undecided
    <3>1. hold[k] \in Serials /\ decision[hold[k]] = Undecided
      BY <2>1, NumberFacts, ConstantsAssumption DEF StillUndecided, OpenKeys, Serials, TypeOK
    <3> QED BY <1>2, <2>1, <3>1 DEF Settles
  <2>4. ASSUME NEW n \in Serials, n > opened' PROVE decision'[n] = Undecided
    <3>1. n > opened /\ n \notin {hold[j] : j \in K}
      BY <1>2, <2>4, NumberFacts DEF Settles, OpenKeys, Serials
    <3> QED BY <1>2, <3>1 DEF Settles, StillUndecided
  <2> QED BY <2>2, <2>3, <2>4 DEF StillUndecided
<1>3. ASSUME NEW ev \in Evals, NEW c \in Conns, NEW i \in Ids, HoldOpened(c, ev, i)
      PROVE  StillUndecided'
  <2>1. /\ UNCHANGED decision /\ opened' = opened + 1 /\ opened + 1 \in Serials
        /\ hold' = [hold EXCEPT ![Now(i)] = opened + 1]
    BY <1>3, NumberFacts, ConstantsAssumption DEF HoldOpened, Serials, TypeOK
  <2>2. \A k \in Keys : hold'[k] = IF k = Now(i) THEN opened + 1 ELSE hold[k]
    BY <2>1 DEF TypeOK
  <2>3. \A k \in Keys : hold[k] # opened + 1
    BY NumberFacts
  <2>4. HoldsDiffer'
    BY <2>2, <2>3 DEF StillUndecided, HoldsDiffer, OpenKeys
  <2>5. decision[opened + 1] = Undecided
    BY <2>1, NumberFacts DEF StillUndecided
  <2>6. \A k \in OpenKeys' : decision'[hold'[k]] = Undecided
    BY <2>1, <2>2, <2>5 DEF StillUndecided, OpenKeys
  <2>7. \A n \in Serials : n > opened' => decision'[n] = Undecided
    BY <2>1, NumberFacts DEF StillUndecided, Serials
  <2> QED BY <2>4, <2>6, <2>7 DEF StillUndecided
<1> QED BY <1>1, <1>2, <1>3, SettlesCases DEF SettlesSome

\* A call is settled at most once; by a person, only while the terminal that
\* made it has the session and its lease runs.
THEOREM CallsAreSettledOnceInTime == Spec => SettledOnceInTime
<1> DEFINE InTime(n) ==
      decision'[n] # decision[n] =>
        /\ decision[n] = Undecided
        /\ decision'[n].seen # 0 \/ decision'[n].kind = "verdict" =>
             row # NoEval /\ PidOf[row] = PidOf[opener[n]] /\ n \notin lapsed
<1>1. Init => StillUndecided
  BY DEF Init, StillUndecided, HoldsDiffer, OpenKeys
<1>2. TypeOK /\ StillUndecided /\ [Next]_vars => StillUndecided'
  <2> SUFFICES ASSUME TypeOK, StillUndecided, [Next]_vars PROVE StillUndecided'
    OBVIOUS
  <2>1. CASE UNCHANGED vars
    BY <2>1 DEF vars, storeVars, cardVars, StillUndecided, HoldsDiffer, OpenKeys
  <2> QED BY <2>1, UndecidedStep
<1>3. TypeOK /\ OpenHoldsAgree /\ StillUndecided /\ [Next]_vars => [\A n \in Serials : InTime(n)]_vars
  <2> SUFFICES ASSUME TypeOK, OpenHoldsAgree, StillUndecided, Next, NEW n \in Serials
               PROVE  InTime(n)
    OBVIOUS
  <2>1. CASE UNCHANGED decision \/ \E ev \in Evals, c \in Conns, i \in Ids : HoldOpened(c, ev, i)
    BY <2>1 DEF HoldOpened
  <2>2. ASSUME NEW K \in SUBSET OpenKeys, NEW kind, NEW seen, Settles(K, kind, seen)
        PROVE  InTime(n)
    <3> SUFFICES ASSUME decision'[n] # decision[n] PROVE InTime(n)
      OBVIOUS
    <3>1. PICK k \in K : hold[k] = n
      BY <2>2 DEF Settles
    <3>2. decision'[n] = [kind |-> kind, seen |-> seen]
      BY <2>2, <3>1 DEF Settles
    <3>3. decision[n] = Undecided /\ row # NoEval /\ PidOf[row] = PidOf[opener[n]]
      BY <3>1 DEF StillUndecided, OpenHoldsAgree
    <3>4. seen # 0 \/ kind = "verdict" => n \notin lapsed
      BY <2>2, <3>1 DEF Settles
    <3> QED BY <3>2, <3>3, <3>4
  <2> QED BY <2>1, <2>2, SettlesCases DEF SettlesSome
<1>4. Spec => [][\A n \in Serials : InTime(n)]_vars
  BY <1>1, <1>2, <1>3, TypeCorrect, RecordsAgree, PTL DEF Spec
<1> QED BY <1>4 DEF SettledOnceInTime

-----------------------------------------------------------------------------
(* The store, its legs and the put-back implement CallOutcome.             *)

InOpen(n)  == \E k \in Keys : hold[k] = n
InTomb(n)  == \E k \in Keys : tomb[k].no = n
InWrite(n) == \E c \in Conns : Sending(c, n)

\* Where the outcome is, place by place, before a step and after it.
Place(n) == IF n > opened THEN "new" ELSE IF InOpen(n) THEN "open"
            ELSE IF InTomb(n) THEN "ready" ELSE IF InWrite(n) THEN "sending" ELSE "over"

LEMMA WhereItIs ==
  ASSUME NEW n \in Serials
  PROVE  WhereIs(n) = Place(n) /\ WhereIs(n)' = Place(n)'
<1>1. /\ Opened(n) # {} <=> InOpen(n)
      /\ Tombs(n) # {} <=> InTomb(n)
      /\ Writing(n) # {} <=> InWrite(n)
  BY DEF Opened, Tombs, Writing, InOpen, InTomb, InWrite, Sending
<1>2. /\ Opened(n)' # {} <=> InOpen(n)'
      /\ Tombs(n)' # {} <=> InTomb(n)'
      /\ Writing(n)' # {} <=> InWrite(n)'
  BY DEF Opened, Tombs, Writing, InOpen, InTomb, InWrite, Sending
<1>3. WhereIs(n) = Place(n)
  BY <1>1 DEF WhereIs, Place
<1>4. WhereIs(n)' = Place(n)'
  BY <1>2 DEF WhereIs, Place
<1> QED BY <1>3, <1>4

\* What a step may do with the outcome of hold n: nothing, or lose it where it
\* waits or is written; close the hold; take the outcome that waits; end its
\* response; or begin the hold.
Left(n)  == /\ n > opened' <=> n > opened
            /\ InOpen(n)' <=> InOpen(n)
            /\ InTomb(n)' => InTomb(n)
            /\ InWrite(n)' => InWrite(n)
            /\ handed'[n] = handed[n]
Shut(n)  == /\ opened' = opened /\ handed'[n] = handed[n]
            /\ InOpen(n) /\ ~InOpen(n)' /\ ~InWrite(n)'
Taken(n) == /\ opened' = opened /\ InTomb(n)
            /\ ~InOpen(n)' /\ ~InTomb(n)' /\ (InWrite(n)' => handed'[n] = handed[n])
Ended(n) == /\ opened' = opened /\ InWrite(n)
            /\ ~InOpen(n)' /\ ~InWrite(n)' /\ (InTomb(n)' => handed'[n] = handed[n])
Begun(n) == /\ n > opened /\ ~(n > opened') /\ InOpen(n)' /\ handed'[n] = handed[n]

Moves(n) == Left(n) \/ Shut(n) \/ Taken(n) \/ Ended(n) \/ Begun(n)

\* A call's move is one CallOutcome has, and it is told as it ends.
LEMMA MovesAreAllowed ==
  ASSUME TypeOK, FateInv, NEW n \in Serials, Moves(n)
  PROVE  /\ WhereIs(n)' # WhereIs(n) => <<WhereIs(n), WhereIs(n)'>> \in Outcome!Moves
         /\ handed'[n] # NoEval /\ handed[n] = NoEval =>
              WhereIs(n) \in {"ready", "sending"} /\ WhereIs(n)' = "over"
         /\ handed[n] # NoEval => handed'[n] # NoEval
<1>1. Apart(n) /\ opened \in Nat /\ n \in Nat \ {0}
  BY ConstantsAssumption DEF FateInv, TypeOK, Serials
<1>2. /\ ~(InOpen(n) /\ InTomb(n)) /\ ~(InOpen(n) /\ InWrite(n)) /\ ~(InTomb(n) /\ InWrite(n))
      /\ handed[n] # NoEval => ~InOpen(n) /\ ~InTomb(n) /\ ~InWrite(n)
  BY <1>1 DEF Apart, InOpen, InTomb, InWrite
<1>3. n > opened => ~InOpen(n) /\ ~InTomb(n) /\ ~InWrite(n) /\ handed[n] = NoEval
  <2>1. n > opened => ~InOpen(n)
    BY <1>1, NumberFacts DEF InOpen
  <2>2. \A k \in Keys : tomb[k].no \in Nat /\ tomb[k].no <= opened
    BY ConstantsAssumption DEF TypeOK, Outcomes, NoOut, FateInv, Numbered
  <2>3. \A c \in Conns : legs[c].st = "writing" => legs[c].out.no \in Nat /\ legs[c].out.no <= opened
    BY ConstantsAssumption DEF TypeOK, LegRecords, Outcomes, NoOut, FateInv, Numbered
  <2> QED BY <1>1, <2>1, <2>2, <2>3 DEF InTomb, InWrite, Sending, FateInv, Numbered
<1>4. WhereIs(n) = Place(n) /\ WhereIs(n)' = Place(n)'
  BY WhereItIs
<1> QED BY <1>2, <1>3, <1>4 DEF Place, Moves, Left, Shut, Taken, Ended, Begun, Outcome!Moves

\* Every step moves a call in one of these ways.
LEMMA StepsMove ==
  ASSUME TypeOK, FateInv, OneKind, NEW n \in Serials
  PROVE  Moves(n)
<1>0. Apart(n) /\ opened \in Nat /\ n \in Nat \ {0}
  BY ConstantsAssumption DEF FateInv, TypeOK, Serials
<1>w. KeepsWriting => \A c \in Conns : Sending(c, n)' => Sending(c, n)
  BY DEF KeepsWriting, Sending
<1>1. CASE Files
  <2>1. \A k \in Keys : tomb'[k].no = n => tomb[k].no = n
    BY <1>0, <1>1 DEF Files
  <2> QED BY <1>1, <1>w, <2>1 DEF Files, Moves, Left, InOpen, InTomb, InWrite
<1>2. CASE Closes
  <2>1. PICK K \in SUBSET OpenKeys :
          /\ \A k \in Keys : hold'[k] = IF k \in K THEN 0 ELSE hold[k]
          /\ \A k \in Keys : tomb'[k].no = IF k \in K THEN hold[k] ELSE tomb[k].no
    BY <1>2 DEF Closes, StopAll
  <2>2. KeepsWriting /\ UNCHANGED <<opened, handed>>
    BY <1>2 DEF Closes
  <2>3. CASE \E k \in K : hold[k] = n
    <3>1. InOpen(n) /\ ~InWrite(n)
      BY <1>0, <2>3 DEF InOpen, InWrite, Apart, OpenKeys
    <3>2. ~InOpen(n)'
      BY <1>0, <2>1, <2>3 DEF InOpen, Apart, OpenKeys
    <3>3. ~InWrite(n)'
      BY <1>w, <2>2, <3>1 DEF InWrite
    <3> QED BY <2>2, <3>1, <3>2, <3>3 DEF Moves, Shut
  <2>4. CASE \A k \in K : hold[k] # n
    <3>1. InOpen(n)' <=> InOpen(n)
      BY <1>0, <2>1, <2>4 DEF InOpen
    <3>2. InTomb(n)' => InTomb(n)
      BY <2>1, <2>4 DEF InTomb
    <3>3. InWrite(n)' => InWrite(n)
      BY <1>w, <2>2 DEF InWrite
    <3> QED BY <2>2, <3>1, <3>2, <3>3 DEF Moves, Left
  <2> QED BY <2>3, <2>4
<1>3. CASE HandsOver
  <2>1. PICK c \in Conns, kind \in {"poll", "hold"}, ev \in Evals, i \in Ids :
          legs[c].st # "writing" /\ HandOver(c, kind, ev, i)
    BY <1>3 DEF HandsOver
  <2>2. UNCHANGED <<hold, opened>>
    BY <1>3 DEF HandsOver
  <2> DEFINE k == Now(i)
  <2>3. /\ k \in Keys /\ tomb'[k].no = 0
        /\ \A l \in Keys \ {k} : tomb'[l] = tomb[l]
    BY <2>1, TypeFacts DEF HandOver, NoOut, TypeOK
  <2>4. \A m \in Serials : handed'[m] # handed[m] => m = tomb[k].no
    BY <2>1 DEF HandOver, Hand, TypeOK
  <2>5. \A d \in Conns : legs'[d].st = "writing" =>
          \/ legs'[d] = legs[d]
          \/ d = c /\ legs'[d].out = tomb[k] /\ UNCHANGED handed
    BY <2>1 DEF HandOver, Finish, Free, Sends, TypeOK
  <2>6. CASE tomb[k].no = n
    <3>1. InTomb(n) /\ ~InOpen(n) /\ ~InWrite(n)
      BY <1>0, <2>3, <2>6 DEF InOpen, InTomb, InWrite, Apart
    <3>2. ~InOpen(n)'
      BY <2>2, <3>1 DEF InOpen
    <3>3. ~InTomb(n)'
      BY <1>0, <2>3, <2>6 DEF InTomb, Apart
    <3>4. InWrite(n)' => UNCHANGED handed
      BY <2>5, <3>1 DEF InWrite, Sending
    <3> QED BY <2>2, <3>1, <3>2, <3>3, <3>4 DEF Moves, Taken
  <2>7. CASE tomb[k].no # n
    <3>1. InOpen(n)' <=> InOpen(n)
      BY <2>2 DEF InOpen
    <3>2. InTomb(n)' => InTomb(n)
      BY <1>0, <2>3 DEF InTomb
    <3>3. InWrite(n)' => InWrite(n)
      BY <2>5, <2>7 DEF InWrite, Sending
    <3> QED BY <2>2, <2>4, <2>7, <3>1, <3>2, <3>3 DEF Moves, Left
  <2> QED BY <2>6, <2>7
<1>4. CASE EndsOne
  <2>1. PICK k \in Keys : /\ hold[k] # 0
                          /\ hold' = [hold EXCEPT ![k] = 0]
                          /\ tomb' = [tomb EXCEPT ![k] = NoOut]
    BY <1>4 DEF EndsOne
  <2>2. KeepsWriting /\ UNCHANGED <<opened, handed>>
    BY <1>4 DEF EndsOne
  <2>3. /\ \A l \in Keys : hold'[l] = IF l = k THEN 0 ELSE hold[l]
        /\ \A l \in Keys : tomb'[l] = IF l = k THEN NoOut ELSE tomb[l]
    BY <2>1 DEF TypeOK
  <2>4. CASE hold[k] = n
    <3>1. InOpen(n) /\ ~InWrite(n)
      BY <1>0, <2>4 DEF InOpen, InWrite, Apart
    <3>2. ~InOpen(n)'
      BY <1>0, <2>3, <2>4 DEF InOpen, Apart
    <3>3. ~InWrite(n)'
      BY <1>w, <2>2, <3>1 DEF InWrite
    <3> QED BY <2>2, <3>1, <3>2, <3>3 DEF Moves, Shut
  <2>5. CASE hold[k] # n
    <3>1. InOpen(n)' <=> InOpen(n)
      BY <1>0, <2>3, <2>5 DEF InOpen
    <3>2. InTomb(n)' => InTomb(n)
      BY <1>0, <2>3 DEF InTomb, NoOut
    <3>3. InWrite(n)' => InWrite(n)
      BY <1>w, <2>2 DEF InWrite
    <3> QED BY <2>2, <3>1, <3>2, <3>3 DEF Moves, Left
  <2> QED BY <2>4, <2>5
<1>5. CASE OpensOne
  <2>1. opened' = opened + 1 /\ UNCHANGED <<tomb, legs, handed>>
    BY <1>5 DEF OpensOne
  <2>2. PICK k \in Keys : hold[k] = 0 /\ hold' = [hold EXCEPT ![k] = opened + 1]
    BY <1>5 DEF OpensOne
  <2>3. \A l \in Keys : hold'[l] = IF l = k THEN opened + 1 ELSE hold[l]
    BY <2>2 DEF TypeOK
  <2>4. CASE n = opened + 1
    <3>1. InOpen(n)'
      BY <2>3, <2>4 DEF InOpen
    <3>2. n > opened /\ ~(n > opened')
      BY <1>0, <2>1, <2>4
    <3> QED BY <2>1, <3>1, <3>2 DEF Moves, Begun
  <2>5. CASE n # opened + 1
    <3>1. n > opened' <=> n > opened
      BY <1>0, <2>1, <2>5
    <3>2. InOpen(n)' <=> InOpen(n)
      BY <1>0, <2>2, <2>3, <2>5 DEF InOpen
    <3>3. (InTomb(n)' => InTomb(n)) /\ (InWrite(n)' => InWrite(n))
      BY <2>1 DEF InTomb, InWrite, Sending
    <3> QED BY <2>1, <3>1, <3>2, <3>3 DEF Moves, Left
  <2> QED BY <2>4, <2>5
<1>6. ASSUME NEW c \in Conns, WriteCompletes(c)
      PROVE  Moves(n)
  <2>1. /\ UNCHANGED <<hold, tomb, opened>> /\ legs[c].st = "writing"
        /\ \A m \in Serials : handed'[m] # handed[m] => m = legs[c].out.no
    BY <1>6 DEF WriteCompletes, storeVars, cardVars, Hand, TypeOK
  <2>2. \A d \in Conns : legs'[d].st = "writing" => d # c /\ legs'[d] = legs[d]
    BY <1>6 DEF WriteCompletes, Finish, TypeOK, Free
  <2>3. (InOpen(n)' <=> InOpen(n)) /\ (InTomb(n)' <=> InTomb(n))
    BY <2>1 DEF InOpen, InTomb
  <2>4. CASE legs[c].out.no = n
    <3>1. InWrite(n) /\ ~InOpen(n) /\ ~InTomb(n)
      BY <1>0, <2>1, <2>4 DEF InOpen, InTomb, InWrite, Sending, Apart
    <3>2. ~InWrite(n)'
      BY <1>0, <2>1, <2>2, <2>4 DEF InWrite, Sending, Apart
    <3> QED BY <2>1, <2>3, <3>1, <3>2 DEF Moves, Ended
  <2>5. CASE legs[c].out.no # n
    <3>1. InWrite(n)' => InWrite(n)
      BY <2>2 DEF InWrite, Sending
    <3> QED BY <2>1, <2>3, <2>5, <3>1 DEF Moves, Left
  <2> QED BY <2>4, <2>5
<1>7. CASE PutsBack
  <2>1. KeepsWriting /\ UNCHANGED <<hold, opened, handed>>
    BY <1>7 DEF PutsBack
  <2>2. PICK c \in Conns, k \in Keys :
          /\ legs[c].st = "writing" /\ legs'[c].st # "writing"
          /\ tomb[k] = NoOut /\ tomb' = [tomb EXCEPT ![k] = legs[c].out] /\ hold[k] = 0
    BY <1>7 DEF PutsBack
  <2>3. \A l \in Keys : tomb'[l] = IF l = k THEN legs[c].out ELSE tomb[l]
    BY <2>2 DEF TypeOK
  <2>4. (InOpen(n)' <=> InOpen(n)) /\ (InWrite(n)' => InWrite(n))
    BY <1>w, <2>1 DEF InOpen, InWrite
  <2>5. CASE legs[c].out.no = n
    <3>1. InWrite(n) /\ ~InOpen(n)
      BY <1>0, <2>2, <2>5 DEF InOpen, InWrite, Sending, Apart
    <3>2. ~InWrite(n)'
      BY <1>0, <1>w, <2>1, <2>2, <2>5 DEF InWrite, Sending, Apart
    <3> QED BY <2>1, <2>4, <3>1, <3>2 DEF Moves, Ended
  <2>6. CASE legs[c].out.no # n
    <3>1. InTomb(n)' => InTomb(n)
      BY <2>3, <2>6 DEF InTomb
    <3> QED BY <2>1, <2>4, <3>1 DEF Moves, Left
  <2> QED BY <2>5, <2>6
<1> QED BY <1>1, <1>2, <1>3, <1>4, <1>5, <1>6, <1>7 DEF OneKind, Completes

\* ModHolds implements CallOutcome: a held call is decided at most once, and
\* its outcome is told at most once or lost, and never comes back.
THEOREM HoldsImplementCallOutcome == Spec => EveryCallEndsOnce
<1> DEFINE S == [n \in Serials |-> WhereIs(n)]
           T == {n \in Serials : handed[n] # NoEval}
<1>1. Init => Outcome!Init
  <2> SUFFICES ASSUME Init PROVE Outcome!Init
    OBVIOUS
  <2>1. ASSUME NEW n \in Serials PROVE WhereIs(n) = "new"
    BY ConstantsAssumption DEF Init, WhereIs, Serials
  <2>2. T = {}
    BY DEF Init
  <2> QED BY <2>1, <2>2 DEF Outcome!Init
<1>2. TypeOK /\ FateInv /\ [Next]_vars => [Outcome!Next]_<<S, T>>
  <2> SUFFICES ASSUME TypeOK, FateInv, [Next]_vars PROVE [Outcome!Next]_<<S, T>>
    OBVIOUS
  <2>1. CASE UNCHANGED vars
    <3>1. \A n \in Serials : WhereIs(n)' = WhereIs(n)
      BY <2>1 DEF vars, storeVars, cardVars, WhereIs, Opened, Tombs, Writing
    <3>2. S' = S /\ T' = T
      BY <2>1, <3>1 DEF vars
    <3> QED BY <3>2
  <2>2. CASE Next
    <3>1. ASSUME NEW n \in Serials
          PROVE  /\ WhereIs(n)' # WhereIs(n) => <<WhereIs(n), WhereIs(n)'>> \in Outcome!Moves
                 /\ handed'[n] # NoEval /\ handed[n] = NoEval =>
                      WhereIs(n) \in {"ready", "sending"} /\ WhereIs(n)' = "over"
                 /\ handed[n] # NoEval => handed'[n] # NoEval
      BY <2>2, StepsAreOfAKind, StepsMove, MovesAreAllowed
    <3>2. Outcome!Next
      BY <3>1 DEF Outcome!Next
    <3> QED BY <3>2
  <2> QED BY <2>1, <2>2
<1>3. Spec => []FateInv
  BY FateAlways
<1>4. Spec => Outcome!Spec
  BY <1>1, <1>2, <1>3, TypeCorrect, PTL DEF Spec, Outcome!Spec
<1> QED BY <1>4 DEF EveryCallEndsOnce

=============================================================================
