------------------------- MODULE GameManagerProofs -------------------------
(***************************************************************************)
(* Theorems about GameManager, for every set of games, models and servers, *)
(* every board size and every number of failing publications.              *)
(***************************************************************************)
EXTENDS GameManager, TLAPS

(* Helpers of the model stay within their types.                           *)
LEMMA OtherSeat ==
  ASSUME NEW s \in Seat
  PROVE  Other(s) \in Seat /\ Other(s) # s /\ Other(Other(s)) = s
BY DEF Seat, Other

(* A sequence with one element more.                                       *)
LEMMA AppendType ==
  ASSUME NEW S, NEW seq \in Seq(S), NEW x \in S
  PROVE  Append(seq, x) \in Seq(S)
OBVIOUS

(* Responses that are put back are responses.                              *)
LEMMA RequeuedType ==
  ASSUME NEW from \in SUBSET Response
  PROVE  Requeued(from) \in SUBSET Response
BY DEF Requeued, Response

(* A response that is put back still answers its request.                  *)
LEMMA RequeuedAsk ==
  ASSUME NEW m \in Response
  PROVE  \E n \in Requeued({m}) : n.ask = m.ask
<1>1. [m EXCEPT !.redelivered = TRUE].ask = m.ask
  BY DEF Response
<1>2. [m EXCEPT !.redelivered = TRUE] \in Requeued({m})
  BY DEF Requeued
<1> QED
  BY <1>1, <1>2

(* An answer names the request it answers.                                 *)
LEMMA AnswerAsk ==
  ASSUME NEW kind, NEW ask, NEW s, NEW ok
  PROVE  Answer(kind, ask, s, ok).ask = ask
BY DEF Answer

(* An answer is a response.                                                *)
LEMMA AnswerType ==
  ASSUME NEW kind \in {"inference", "load"}, NEW ask \in Ask,
         NEW s \in Servers, NEW ok \in BOOLEAN
  PROVE  Answer(kind, ask, s, ok) \in Response
BY DEF Answer, Response

(* The entries of a game that is gone and of a new one.                    *)
LEMMA EntryTypes ==
  /\ NoEntry \in Entry
  /\ NewEntry \in Entry
BY DEF NoEntry, NewEntry, Entry, Verdict, Seat

(* The entry of a game after a move.                                       *)
LEMMA AfterMoveType ==
  ASSUME NEW e \in Entry, NEW phase \in Verdict
  PROVE  AfterMove(e, phase) \in Entry
<1>1. Other(e.seat) \in Seat /\ Other(e.player) \in Seat
  BY OtherSeat DEF Entry
<1> DEFINE player == IF phase = "over" THEN e.player ELSE Other(e.player)
<1>2. player \in Seat /\ e.turn + 1 \in Nat /\ phase \in Verdict \cup {"absent"}
  BY <1>1 DEF Entry
<1>3. AfterMove(e, phase) =
        [e EXCEPT !.phase = phase, !.turn = @ + 1, !.seat = Other(@),
                  !.player = player]
  BY DEF AfterMove
<1> HIDE DEF player
<1> QED
  BY <1>1, <1>2, <1>3 DEF Entry

(* A progress publication keeps its variables well formed.                 *)
LEMMA BroadcastType ==
  ASSUME TypeOK, NEW g \in Games, NEW report \in Report,
         NEW from \in SUBSET Response, NEW ends \in BOOLEAN,
         Broadcast(g, report, from, ends)
  PROVE  /\ feed' \in [Games -> Seq(Report)]
         /\ reporting' \subseteq Reporting
         /\ failures' \in [Games -> Nat]
<1>1. feed[g] \in Seq(Report) /\ Append(feed[g], report) \in Seq(Report)
  BY DEF TypeOK
<1>2. \A sent \in BOOLEAN :
        [g |-> g, from |-> from, ends |-> ends, sent |-> sent] \in Reporting
  BY DEF Reporting
<1>3. feed' = [feed EXCEPT ![g] = Append(@, report)] \/ feed' = feed
  BY DEF Broadcast
<1>4. failures' = [failures EXCEPT ![g] = @ + 1] \/ failures' = failures
  BY DEF Broadcast
<1>5. \E sent \in BOOLEAN : reporting' = reporting \cup
        {[g |-> g, from |-> from, ends |-> ends, sent |-> sent]}
  BY DEF Broadcast
<1>6. feed' \in [Games -> Seq(Report)]
  BY <1>1, <1>3 DEF TypeOK
<1>7. failures' \in [Games -> Nat]
  <2>1. failures \in [Games -> Nat] /\ failures[g] + 1 \in Nat
    BY DEF TypeOK
  <2> QED
    BY <1>4, <2>1
<1>8. reporting' \subseteq Reporting
  BY <1>2, <1>5 DEF TypeOK
<1> QED
  BY <1>6, <1>7, <1>8

(* So does asking for the next move.                                       *)
LEMMA ProceedTurnType ==
  ASSUME TypeOK, NEW g \in Games, NEW from \in SUBSET Response,
         ProceedTurn(g, from)
  PROVE  /\ asked' \in [Games -> Nat]
         /\ table' \in [Games -> Entry]
         /\ asking' \subseteq Asking
<1>1. CASE ~Live(g)
  BY <1>1 DEF ProceedTurn, TypeOK
<1>2. CASE Live(g)
  <2> DEFINE seat == table[g].seat
             ask == [g |-> g, id |-> asked[g] + 1, model |-> models[g][seat]]
  <2>1. seat \in Seat /\ table[g] \in Entry /\ models[g] \in [Seat -> Models]
    BY DEF TypeOK, Entry
  <2>2. ask \in Ask /\ asked[g] + 1 \in Nat
    BY <2>1 DEF Ask, TypeOK
  <2>3. [ask |-> ask, from |-> from, url |-> seat \in urls[g]] \in Asking
    BY <2>2 DEF Asking
  <2>4. [table[g] EXCEPT !.pending = {ask}] \in Entry
    BY <2>1, <2>2 DEF Entry
  <2>5. /\ asked' = [asked EXCEPT ![g] = @ + 1]
        /\ table' = [table EXCEPT ![g].pending = {ask}]
        /\ asking' = asking \cup
             {[ask |-> ask, from |-> from, url |-> seat \in urls[g]]}
    BY <1>2 DEF ProceedTurn
  <2> HIDE DEF ask, seat
  <2> QED
    BY <2>2, <2>3, <2>4, <2>5 DEF TypeOK
<1> QED
  BY <1>1, <1>2

(* The tables are empty at the start.                                      *)
LEMMA InitType == Init => TypeOK
  BY GMAssumption, EntryTypes DEF Init, TypeOK, GMAssumption

(* The tables, queues and waiting handlers always have the shapes the      *)
(* handlers rely on.                                                       *)
THEOREM TypeCorrect == Spec => []TypeOK
<1>1. Init => TypeOK
  BY InitType
<1>2. TypeOK /\ [Next]_vars => TypeOK'
  <2> SUFFICES ASSUME TypeOK, [Next]_vars
               PROVE  TypeOK'
    OBVIOUS
  <2>1. ASSUME NEW g \in Games, AcceptGame(g)
        PROVE  TypeOK'
    <3>1. BoardReport("open") \in Report
      BY DEF BoardReport, Report
    <3>2. /\ feed' \in [Games -> Seq(Report)]
          /\ reporting' \subseteq Reporting
          /\ failures' \in [Games -> Nat]
      BY <2>1, <3>1, BroadcastType DEF AcceptGame
    <3> QED
      BY <2>1, <3>2, EntryTypes DEF AcceptGame, TypeOK, fixed
  <2>2. ASSUME NEW m \in responses, PlayAnswer(m)
        PROVE  TypeOK'
    <3> DEFINE g == m.ask.g
    <3>1. m \in Response /\ g \in Games /\ m.ask \in Ask
      BY DEF TypeOK, Response, Ask
    <3>2. PICK phase \in PhasesAfter(g) :
            /\ table' = [table EXCEPT ![g] = AfterMove(@, phase)]
            /\ Broadcast(g, BoardReport(phase), {m}, phase = "over")
      BY <2>2 DEF PlayAnswer
    <3>3. phase \in Verdict
      BY GMAssumption DEF PhasesAfter, GMAssumption, Verdict
    <3>4. BoardReport(phase) \in Report
      BY DEF BoardReport, Report
    <3>5. /\ feed' \in [Games -> Seq(Report)]
          /\ reporting' \subseteq Reporting
          /\ failures' \in [Games -> Nat]
      BY <3>1, <3>2, <3>4, BroadcastType
    <3>6. table' \in [Games -> Entry]
      BY <3>1, <3>2, <3>3, AfterMoveType DEF TypeOK
    <3>7. played' \in [Games -> Seq([player : Seat, ask : Ask])]
      <4>1. [player |-> table[g].player, ask |-> m.ask]
              \in [player : Seat, ask : Ask]
        BY <3>1 DEF TypeOK, Entry
      <4>2. played' = [played EXCEPT ![g] =
              Append(@, [player |-> table[g].player, ask |-> m.ask])]
        BY <2>2 DEF PlayAnswer
      <4>3. played \in [Games -> Seq([player : Seat, ask : Ask])]
        BY DEF TypeOK
      <4>4. Append(played[g], [player |-> table[g].player, ask |-> m.ask])
              \in Seq([player : Seat, ask : Ask])
        <5>1. played[g] \in Seq([player : Seat, ask : Ask])
          BY <3>1, <4>3, Zenon
        <5> QED
          BY <4>1, <5>1, AppendType, Zenon
      <4> QED
        BY <3>1, <4>2, <4>3, <4>4, Zenon
    <3> QED
      BY <2>2, <3>5, <3>6, <3>7 DEF PlayAnswer, TypeOK, fixed
  <2>3. ASSUME NEW m \in responses, FailGame(m)
        PROVE  TypeOK'
    <3>1. m \in Response /\ m.ask.g \in Games
      BY DEF TypeOK, Response, Ask
    <3>2. FailureReport \in Report
      BY DEF FailureReport, Report
    <3>3. /\ feed' \in [Games -> Seq(Report)]
          /\ reporting' \subseteq Reporting
          /\ failures' \in [Games -> Nat]
      BY <2>3, <3>1, <3>2, BroadcastType DEF FailGame
    <3> QED
      BY <2>3, <3>3 DEF FailGame, TypeOK, fixed
  <2>4. ASSUME NEW m \in responses, IgnoreAnswer(m)
        PROVE  TypeOK'
    BY <2>4 DEF IgnoreAnswer, TypeOK, fixed
  <2>5. ASSUME NEW m \in responses, ResumeAfterLoad(m)
        PROVE  TypeOK'
    <3>1. m \in Response /\ m.ask.g \in Games
      BY DEF TypeOK, Response, Ask
    <3>2. /\ asked' \in [Games -> Nat]
          /\ table' \in [Games -> Entry]
          /\ asking' \subseteq Asking
      BY <2>5, <3>1, ProceedTurnType DEF ResumeAfterLoad
    <3> QED
      BY <2>5, <3>2 DEF ResumeAfterLoad, TypeOK, fixed
  <2>6. ASSUME NEW m \in responses, OrphanResponse(m)
        PROVE  TypeOK'
    <3>1. Requeued({m}) \in SUBSET Response
      BY RequeuedType DEF TypeOK
    <3> QED
      BY <2>6, <3>1 DEF OrphanResponse, TypeOK, fixed
  <2>7. ASSUME NEW t \in reporting, Reported(t)
        PROVE  TypeOK'
    <3>1. t.g \in Games /\ t.from \in SUBSET Response
      BY DEF TypeOK, Reporting
    <3>2. /\ asked' \in [Games -> Nat]
          /\ table' \in [Games -> Entry]
          /\ asking' \subseteq Asking
      <4>1. CASE t.ends
        BY <2>7, <3>1, <4>1, EntryTypes DEF Reported, TypeOK
      <4>2. CASE ~t.ends
        BY <2>7, <3>1, <4>2, ProceedTurnType DEF Reported
      <4> QED
        BY <4>1, <4>2
    <3> QED
      BY <2>7, <3>2 DEF Reported, TypeOK, fixed
  <2>8. ASSUME NEW t \in reporting, ReportRaised(t)
        PROVE  TypeOK'
    <3>1. Requeued(t.from) \in SUBSET Response
      BY RequeuedType DEF TypeOK, Reporting
    <3> QED
      BY <2>8, <3>1 DEF ReportRaised, TypeOK, fixed
  <2>9. ASSUME NEW t \in asking, RequestRouted(t)
        PROVE  TypeOK'
    <3>1. {[server |-> s, ask |-> t.ask] : s \in Bound(t.ask.model)}
            \subseteq [server : Servers, ask : Ask]
      BY DEF TypeOK, Asking, Bound
    <3> QED
      BY <2>9, <3>1 DEF RequestRouted, TypeOK, fixed
  <2>10. ASSUME NEW t \in asking, RequestReturned(t)
         PROVE  TypeOK'
    <3>1. loads' \subseteq Ask
      BY <2>10 DEF RequestReturned, TypeOK, Asking
    <3> QED
      BY <2>10, <3>1 DEF RequestReturned, TypeOK, fixed
  <2>11. ASSUME NEW t \in asking, RequestRaised(t)
         PROVE  TypeOK'
    <3>1. t.ask.g \in Games /\ Requeued(t.from) \in SUBSET Response
      BY RequeuedType DEF TypeOK, Asking, Ask
    <3>2. failures' \in [Games -> Nat]
      <4>1. failures \in [Games -> Nat] /\ failures[t.ask.g] + 1 \in Nat
        BY <3>1 DEF TypeOK
      <4> QED
        BY <2>11, <4>1 DEF RequestRaised
    <3> QED
      BY <2>11, <3>1, <3>2 DEF RequestRaised, TypeOK, fixed
  <2>12. ASSUME NEW e \in inbox, ServeInference(e)
         PROVE  TypeOK'
    <3>1. responses' \subseteq Response
      BY <2>12, AnswerType DEF ServeInference, TypeOK
    <3> QED
      BY <2>12, <3>1 DEF ServeInference, TypeOK, fixed
  <2>13. ASSUME NEW s \in Servers, NEW ask \in loads, ServeLoad(s, ask)
         PROVE  TypeOK'
    <3>1. ask \in Ask /\ ask.model \in Models
      BY DEF TypeOK, Ask
    <3>2. responses' \subseteq Response
      BY <2>13, <3>1, AnswerType DEF ServeLoad, TypeOK
    <3>3. bound' \in [Servers -> SUBSET Models]
      BY <2>13, <3>1 DEF ServeLoad, TypeOK
    <3> QED
      BY <2>13, <3>2, <3>3 DEF ServeLoad, TypeOK, fixed
  <2>14. CASE UNCHANGED vars
    BY <2>14 DEF vars, TypeOK
  <2> QED
    BY <2>1, <2>2, <2>3, <2>4, <2>5, <2>6, <2>7, <2>8, <2>9, <2>10, <2>11,
       <2>12, <2>13, <2>14
       DEF Next, HandleResponse, Resume, AIServers
<1> QED
  BY <1>1, <1>2, PTL DEF Spec

-----------------------------------------------------------------------------
(***************************************************************************)
(* NotStranded is inductive together with what ties the waiting handlers,  *)
(* the pending requests and the failure counts to their games.             *)
(***************************************************************************)
RaisedIsCounted == \A t \in reporting : ~t.sent => failures[t.g] # 0

HandlersOwnGame == \A t \in reporting : \A m \in t.from : m.ask.g = t.g

PendingOwnGame ==
  \A g \in Games : \A ask \in table[g].pending :
    ask.g = g /\ table[g].pending = {ask}

UrlIsKnown == \A t \in asking : urls[t.ask.g] = Seat => t.url

CarryInv ==
  /\ TypeOK /\ RaisedIsCounted /\ HandlersOwnGame /\ PendingOwnGame
  /\ UrlIsKnown /\ NotStranded

(* Effects of the two helpers every handler ends in.                       *)
LEMMA BroadcastEffect ==
  ASSUME TypeOK, RaisedIsCounted, NEW g \in Games, NEW report \in Report,
         NEW from \in SUBSET Response, NEW ends \in BOOLEAN,
         Broadcast(g, report, from, ends)
  PROVE  /\ reporting \subseteq reporting'
         /\ \E t \in reporting' : t.g = g /\ t.from = from
         /\ \A t \in reporting' \ reporting : t.g = g /\ t.from = from
         /\ \A h \in Games : failures'[h] = 0 => failures[h] = 0
         /\ RaisedIsCounted'
<1>1. failures \in [Games -> Nat] /\ reporting \subseteq Reporting
  BY DEF TypeOK
<1>2. ASSUME NEW sent \in BOOLEAN,
             reporting' = reporting \cup
               {[g |-> g, from |-> from, ends |-> ends, sent |-> sent]}
      PROVE  /\ reporting \subseteq reporting'
             /\ \E t \in reporting' : t.g = g /\ t.from = from
             /\ \A t \in reporting' \ reporting :
                  t.g = g /\ t.from = from /\ t.sent = sent
  <2> DEFINE rec == [g |-> g, from |-> from, ends |-> ends, sent |-> sent]
  <2>1. rec.g = g /\ rec.from = from /\ rec.sent = sent
    OBVIOUS
  <2>2. reporting' = reporting \cup {rec}
    BY <1>2
  <2> HIDE DEF rec
  <2> QED
    BY <2>1, <2>2
<1>3. CASE failures' = failures
           /\ reporting' = reporting \cup
               {[g |-> g, from |-> from, ends |-> ends, sent |-> TRUE]}
  BY <1>2, <1>3 DEF RaisedIsCounted
<1>4. CASE failures' = [failures EXCEPT ![g] = @ + 1]
           /\ reporting' = reporting \cup
               {[g |-> g, from |-> from, ends |-> ends, sent |-> FALSE]}
  <2>1. \A h \in Games : failures'[h] = 0 => failures[h] = 0
    BY <1>1, <1>4
  <2>2. failures'[g] # 0
    BY <1>1, <1>4
  <2> QED
    BY <1>1, <1>2, <1>4, <2>1, <2>2 DEF RaisedIsCounted, Reporting
<1> QED
  BY <1>3, <1>4 DEF Broadcast

(* proceed_turn makes the request it hands over the pending one.           *)
LEMMA ProceedTurnEffect ==
  ASSUME TypeOK, PendingOwnGame, UrlIsKnown, NEW g \in Games,
         NEW from \in SUBSET Response, ProceedTurn(g, from)
  PROVE  /\ asking \subseteq asking'
         /\ \A h \in Games \ {g} : table'[h] = table[h]
         /\ table'[g].phase = table[g].phase
         /\ Live(g) => \E ask \in table'[g].pending :
                         \E t \in asking' : t.ask = ask
         /\ PendingOwnGame'
         /\ UNCHANGED urls => UrlIsKnown'
<1>1. CASE ~Live(g)
  BY <1>1 DEF ProceedTurn, PendingOwnGame, UrlIsKnown
<1>2. CASE Live(g)
  <2> DEFINE seat == table[g].seat
             ask == [g |-> g, id |-> asked[g] + 1, model |-> models[g][seat]]
  <2>1. /\ table' = [table EXCEPT ![g].pending = {ask}]
        /\ asking' = asking \cup
             {[ask |-> ask, from |-> from, url |-> seat \in urls[g]]}
    BY <1>2 DEF ProceedTurn
  <2>2. seat \in Seat /\ ask.g = g /\ table \in [Games -> Entry]
    BY DEF TypeOK, Entry
  <2>3. table'[g].pending = {ask} /\ table'[g].phase = table[g].phase
    BY <2>1, <2>2 DEF Entry
  <2>4. \A h \in Games \ {g} : table'[h] = table[h]
    BY <2>1, <2>2
  <2> DEFINE new == [ask |-> ask, from |-> from, url |-> seat \in urls[g]]
  <2>a. new.ask = ask /\ (urls[g] = Seat => new.url)
    BY <2>2
  <2>b. asking' = asking \cup {new}
    BY <2>1
  <2> HIDE DEF ask, seat, new
  <2>5. PendingOwnGame'
    BY <2>2, <2>3, <2>4 DEF PendingOwnGame
  <2>6. UNCHANGED urls => UrlIsKnown'
    BY <2>2, <2>a, <2>b DEF UrlIsKnown
  <2> QED
    BY <2>a, <2>b, <2>3, <2>4, <2>5, <2>6
<1> QED
  BY <1>1, <1>2

(* A game the step leaves alone is carried on, as long as the work for its *)
(* pending request is kept or handed on.                                   *)
LEMMA CarriedKept ==
  ASSUME NEW g \in Games, Carried(g), table'[g].pending = table[g].pending,
         \A t \in reporting \ reporting' : t.g = g => t.from # {},
         \A ask \in table[g].pending : WorkFor(ask) => WorkFor(ask)'
  PROVE  Carried(g)'
<1>1. CASE \E t \in reporting : t.g = g /\ t.from = {}
  BY <1>1 DEF Carried
<1>2. CASE \E ask \in table[g].pending : WorkFor(ask)
  BY <1>2 DEF Carried
<1> QED
  BY <1>1, <1>2 DEF Carried

(* The parts a step that starts no handler and changes no entry keeps.     *)
LEMMA FramedParts ==
  ASSUME CarryInv, UNCHANGED <<table, urls>>, reporting' \subseteq reporting,
         asking' \subseteq asking,
         failures \in [Games -> Nat],
         \A h \in Games : failures'[h] = 0 => failures[h] = 0
  PROVE  RaisedIsCounted' /\ HandlersOwnGame' /\ PendingOwnGame' /\ UrlIsKnown'
<1>1. \A t \in reporting : t.g \in Games
  BY DEF CarryInv, TypeOK, Reporting
<1>2. RaisedIsCounted'
  BY <1>1 DEF CarryInv, RaisedIsCounted
<1>3. HandlersOwnGame' /\ PendingOwnGame' /\ UrlIsKnown'
  BY DEF CarryInv, HandlersOwnGame, PendingOwnGame, UrlIsKnown
<1> QED
  BY <1>2, <1>3

(* What a step must keep for the games that have to be carried.            *)
LEMMA StrandedStep ==
  ASSUME NotStranded,
         \A h \in Games : Live(h)' /\ failures'[h] = 0 =>
           \/ Carried(h)'
           \/ Live(h) /\ failures[h] = 0 /\ urls[h] = urls'[h]
              /\ (urls'[h] = Seat /\ Carried(h) => Carried(h)')
  PROVE  NotStranded'
BY DEF NotStranded

(* Handlers that report what an answer did, then act on the publication.   *)
LEMMA ReportingStep ==
  ASSUME CarryInv, TypeOK', NEW m \in responses, NEW report \in Report,
         NEW ends \in BOOLEAN, Broadcast(m.ask.g, report, {m}, ends),
         responses' = responses \ {m},
         \A h \in Games : /\ table'[h].pending = table[h].pending
                          /\ Live(h)' => Live(h),
         UNCHANGED <<urls, inbox, loads, asking>>
  PROVE  CarryInv'
<1>. USE DEF CarryInv
<1>1. {m} \in SUBSET Response /\ m.ask.g \in Games
  BY DEF TypeOK, Response, Ask
<1>2. /\ reporting \subseteq reporting'
      /\ \E t \in reporting' : t.g = m.ask.g /\ t.from = {m}
      /\ \A t \in reporting' \ reporting : t.g = m.ask.g /\ t.from = {m}
      /\ \A h \in Games : failures'[h] = 0 => failures[h] = 0
      /\ RaisedIsCounted'
  BY <1>1, BroadcastEffect
<1>3. HandlersOwnGame'
  BY <1>2 DEF HandlersOwnGame
<1>4. PendingOwnGame' /\ UrlIsKnown'
  BY DEF PendingOwnGame, UrlIsKnown
<1>5. ASSUME NEW h \in Games, Carried(h)
      PROVE  Carried(h)'
  <2>1. \A ask \in table[h].pending : WorkFor(ask) => WorkFor(ask)'
    BY <1>2 DEF WorkFor
  <2> QED
    BY <1>2, <1>5, <2>1, CarriedKept
<1>6. NotStranded'
  BY <1>2, <1>5, StrandedStep
<1> QED
  BY <1>2, <1>3, <1>4, <1>6

(* Handlers that end in proceed_turn for the game they were started for.   *)
LEMMA ProceedingStep ==
  ASSUME CarryInv, TypeOK', NEW g \in Games, NEW from \in SUBSET Response,
         ProceedTurn(g, from), reporting' \subseteq reporting,
         \A t \in reporting \ reporting' : t.g = g,
         responses' \subseteq responses,
         \A m \in responses \ responses' : m.ask.g = g,
         UNCHANGED <<urls, inbox, loads, failures>>
  PROVE  CarryInv'
<1>. USE DEF CarryInv
<1>1. /\ asking \subseteq asking'
      /\ \A h \in Games \ {g} : table'[h] = table[h]
      /\ table'[g].phase = table[g].phase
      /\ Live(g) => \E ask \in table'[g].pending :
                      \E t \in asking' : t.ask = ask
      /\ PendingOwnGame'
      /\ UrlIsKnown'
  BY ProceedTurnEffect
<1>2. RaisedIsCounted' /\ HandlersOwnGame'
  BY DEF RaisedIsCounted, HandlersOwnGame
<1>3. ASSUME Live(g)
      PROVE  Carried(g)'
  BY <1>1, <1>3 DEF Carried, WorkFor
<1>4. ASSUME NEW h \in Games \ {g}, Carried(h)
      PROVE  Carried(h)'
  <2>1. ASSUME NEW ask \in table[h].pending, WorkFor(ask)
        PROVE  WorkFor(ask)'
    <3>1. ask.g = h
      BY DEF PendingOwnGame
    <3> QED
      BY <1>1, <2>1, <3>1 DEF WorkFor, HandlersOwnGame
  <2> QED
    BY <1>1, <1>4, <2>1, CarriedKept
<1>5. \A h \in Games : Live(h)' => Live(h)
  BY <1>1 DEF Live
<1>6. NotStranded'
  BY <1>3, <1>4, <1>5, StrandedStep
<1> QED
  BY <1>1, <1>2, <1>6

(* Steps that only move requests and responses: enough that no game loses  *)
(* the work for its pending request unless a publication for it raised.    *)
LEMMA FramedStep ==
  ASSUME CarryInv, TypeOK', UNCHANGED <<table, urls>>,
         reporting' \subseteq reporting, asking' \subseteq asking,
         \A h \in Games : failures'[h] = 0 => failures[h] = 0,
         \A t \in reporting \ reporting' : failures'[t.g] # 0,
         \A h \in Games : \A ask \in table[h].pending :
           failures'[h] = 0 /\ urls[h] = Seat /\ WorkFor(ask) => WorkFor(ask)'
  PROVE  CarryInv'
<1>. USE DEF CarryInv
<1>1. RaisedIsCounted' /\ HandlersOwnGame' /\ PendingOwnGame' /\ UrlIsKnown'
  BY FramedParts DEF TypeOK
<1>2. ASSUME NEW h \in Games, failures'[h] = 0, urls[h] = Seat, Carried(h)
      PROVE  Carried(h)'
  BY <1>2, CarriedKept
<1>3. \A h \in Games : Live(h)' => Live(h)
  BY DEF Live
<1>4. NotStranded'
  BY <1>2, <1>3, StrandedStep
<1> QED
  BY <1>1, <1>4

(* CarryInv is an invariant.                                               *)
LEMMA Carrying == Spec => []CarryInv
<1>1. Init => CarryInv
  <2> SUFFICES ASSUME Init
               PROVE  CarryInv
    OBVIOUS
  <2>1. TypeOK
    BY InitType
  <2>2. \A g \in Games : table[g].phase = "absent" /\ table[g].pending = {}
    BY DEF Init, NoEntry
  <2>3. reporting = {} /\ asking = {}
    BY DEF Init
  <2> QED
    BY <2>1, <2>2, <2>3 DEF CarryInv, RaisedIsCounted, HandlersOwnGame,
       PendingOwnGame, UrlIsKnown, NotStranded, Live
<1>2. CarryInv /\ TypeOK' /\ [Next]_vars => CarryInv'
  <2> SUFFICES ASSUME CarryInv, TypeOK', [Next]_vars
               PROVE  CarryInv'
    OBVIOUS
  <2>a. /\ TypeOK /\ RaisedIsCounted /\ HandlersOwnGame /\ PendingOwnGame
        /\ UrlIsKnown /\ NotStranded
    BY DEF CarryInv
  <2>b. \A m \in responses : m \in Response /\ m.ask \in Ask
                             /\ m.ask.g \in Games
    BY <2>a DEF TypeOK, Response, Ask
  <2>1. ASSUME NEW g \in Games, AcceptGame(g)
        PROVE  CarryInv'
    <3>1. BoardReport("open") \in Report /\ {} \in SUBSET Response
      BY DEF BoardReport, Report
    <3>2. Broadcast(g, BoardReport("open"), {}, FALSE)
      BY <2>1 DEF AcceptGame
    <3>3. /\ reporting \subseteq reporting'
          /\ \E t \in reporting' : t.g = g /\ t.from = {}
          /\ \A t \in reporting' \ reporting : t.g = g /\ t.from = {}
          /\ \A h \in Games : failures'[h] = 0 => failures[h] = 0
          /\ RaisedIsCounted'
      BY <2>a, <3>1, <3>2, BroadcastEffect
    <3>4. /\ table' = [table EXCEPT ![g] = NewEntry]
          /\ UNCHANGED <<urls, responses, inbox, loads, asking>>
      BY <2>1 DEF AcceptGame, fixed
    <3>5. HandlersOwnGame'
      BY <2>a, <3>3 DEF HandlersOwnGame
    <3>6. /\ table'[g].pending = {}
          /\ \A h \in Games \ {g} : table'[h] = table[h]
      BY <2>a, <3>4 DEF TypeOK, NewEntry, NoEntry
    <3>7. PendingOwnGame' /\ UrlIsKnown'
      BY <2>a, <3>4, <3>6 DEF PendingOwnGame, UrlIsKnown
    <3>8. Carried(g)'
      BY <3>3 DEF Carried
    <3>9. ASSUME NEW h \in Games \ {g}, Carried(h)
          PROVE  Carried(h)'
      <4>1. \A ask \in table[h].pending : WorkFor(ask) => WorkFor(ask)'
        BY <3>3, <3>4 DEF WorkFor
      <4> QED
        BY <3>3, <3>6, <3>9, <4>1, CarriedKept
    <3>10. \A h \in Games \ {g} : Live(h)' => Live(h)
      BY <3>6 DEF Live
    <3>11. NotStranded'
      BY <2>a, <3>3, <3>4, <3>8, <3>9, <3>10, StrandedStep
    <3> QED
      BY <3>3, <3>5, <3>7, <3>11 DEF CarryInv
  <2>2. ASSUME NEW m \in responses, PlayAnswer(m)
        PROVE  CarryInv'
    <3> DEFINE g == m.ask.g
    <3>1. PICK phase \in PhasesAfter(g) :
            /\ table' = [table EXCEPT ![g] = AfterMove(@, phase)]
            /\ Broadcast(g, BoardReport(phase), {m}, phase = "over")
      BY <2>2 DEF PlayAnswer
    <3>2. BoardReport(phase) \in Report /\ (phase = "over") \in BOOLEAN
      BY DEF BoardReport, Report
    <3>3. Live(g) /\ responses' = responses \ {m}
          /\ UNCHANGED <<urls, inbox, loads, asking>>
      BY <2>2 DEF PlayAnswer, fixed
    <3>4. \A h \in Games : /\ table'[h].pending = table[h].pending
                           /\ Live(h)' => Live(h)
      <4>1. AfterMove(table[g], phase).pending = table[g].pending
        BY <2>a, <2>b DEF TypeOK, Entry, AfterMove
      <4> QED
        BY <2>a, <2>b, <3>1, <3>3, <4>1 DEF TypeOK, Live
    <3> QED
      BY <3>1, <3>2, <3>3, <3>4, ReportingStep
  <2>3. ASSUME NEW m \in responses, FailGame(m)
        PROVE  CarryInv'
    <3>1. FailureReport \in Report /\ TRUE \in BOOLEAN
      BY DEF FailureReport, Report
    <3>2. /\ Broadcast(m.ask.g, FailureReport, {m}, TRUE)
          /\ responses' = responses \ {m}
          /\ UNCHANGED <<urls, inbox, loads, asking, table>>
      BY <2>3 DEF FailGame, fixed
    <3>3. \A h \in Games : /\ table'[h].pending = table[h].pending
                           /\ Live(h)' => Live(h)
      BY <3>2 DEF Live
    <3> QED
      BY <3>1, <3>2, <3>3, ReportingStep
  <2>4. ASSUME NEW m \in responses, IgnoreAnswer(m)
        PROVE  CarryInv'
    <3>1. /\ responses' = responses \ {m}
          /\ UNCHANGED <<urls, table, reporting, asking, inbox, loads, failures>>
      BY <2>4 DEF IgnoreAnswer, fixed
    <3>2. \A h \in Games : \A ask \in table[h].pending : m.ask # ask
      BY <2>4, <2>a DEF IgnoreAnswer, Current, PendingOwnGame
    <3>3. \A h \in Games : \A ask \in table[h].pending :
            WorkFor(ask) => WorkFor(ask)'
      BY <3>1, <3>2 DEF WorkFor
    <3> QED
      BY <3>1, <3>3, FramedStep
  <2>5. ASSUME NEW m \in responses, ResumeAfterLoad(m)
        PROVE  CarryInv'
    <3>1. /\ ProceedTurn(m.ask.g, {m}) /\ responses' = responses \ {m}
          /\ UNCHANGED <<urls, reporting, inbox, loads, failures>>
      BY <2>5 DEF ResumeAfterLoad, fixed
    <3>2. {m} \in SUBSET Response
      BY <2>b
    <3> QED
      BY <2>b, <3>1, <3>2, ProceedingStep
  <2>6. ASSUME NEW m \in responses, OrphanResponse(m)
        PROVE  CarryInv'
    <3>1. /\ responses' = (responses \ {m}) \cup Requeued({m})
          /\ UNCHANGED <<urls, table, reporting, asking, inbox, loads, failures>>
      BY <2>6 DEF OrphanResponse, fixed
    <3>2. \E n \in responses' : n.ask = m.ask
      BY <2>b, <3>1, RequeuedAsk
    <3>3. \A h \in Games : \A ask \in table[h].pending :
            WorkFor(ask) => WorkFor(ask)'
      BY <3>1, <3>2 DEF WorkFor
    <3> QED
      BY <3>1, <3>3, FramedStep
  <2>7. ASSUME NEW t \in reporting, Reported(t)
        PROVE  CarryInv'
    <3>1. t.g \in Games /\ t.from \in SUBSET Response
      BY <2>a DEF TypeOK, Reporting
    <3>2. /\ reporting' = reporting \ {t}
          /\ UNCHANGED <<urls, responses, inbox, loads, failures>>
      BY <2>7 DEF Reported, fixed
    <3>3. CASE t.ends
      <4>1. table' = [table EXCEPT ![t.g] = NoEntry] /\ UNCHANGED asking
        BY <2>7, <3>3 DEF Reported
      <4>2. /\ table'[t.g].pending = {} /\ ~Live(t.g)'
            /\ \A h \in Games \ {t.g} : table'[h] = table[h]
        BY <2>a, <3>1, <4>1 DEF TypeOK, NoEntry, Live
      <4>3. /\ RaisedIsCounted' /\ HandlersOwnGame' /\ PendingOwnGame'
            /\ UrlIsKnown'
        BY <2>a, <3>2, <4>1, <4>2 DEF RaisedIsCounted, HandlersOwnGame,
           PendingOwnGame, UrlIsKnown
      <4>4. ASSUME NEW h \in Games \ {t.g}, Carried(h)
            PROVE  Carried(h)'
        <5>1. \A ask \in table[h].pending : WorkFor(ask) => WorkFor(ask)'
          BY <2>a, <3>2, <4>1 DEF WorkFor, HandlersOwnGame, PendingOwnGame
        <5> QED
          BY <3>2, <4>2, <4>4, <5>1, CarriedKept
      <4>5. \A h \in Games \ {t.g} : Live(h)' => Live(h)
        BY <4>2 DEF Live
      <4>6. NotStranded'
        BY <2>a, <3>2, <4>2, <4>4, <4>5, StrandedStep
      <4> QED
        BY <4>3, <4>6 DEF CarryInv
    <3>4. CASE ~t.ends
      <4>1. ProceedTurn(t.g, t.from)
        BY <2>7, <3>4 DEF Reported
      <4> QED
        BY <3>1, <3>2, <4>1, ProceedingStep
    <3> QED
      BY <3>3, <3>4
  <2>8. ASSUME NEW t \in reporting, ReportRaised(t)
        PROVE  CarryInv'
    <3>1. /\ reporting' = reporting \ {t} /\ responses \subseteq responses'
          /\ UNCHANGED <<urls, table, asking, inbox, loads, failures>>
      BY <2>8 DEF ReportRaised, fixed
    <3>2. failures[t.g] # 0
      BY <2>8, <2>a DEF ReportRaised, RaisedIsCounted
    <3>3. \A h \in Games : \A ask \in table[h].pending :
            failures[h] = 0 /\ WorkFor(ask) => WorkFor(ask)'
      BY <2>a, <3>1, <3>2 DEF WorkFor, HandlersOwnGame, PendingOwnGame
    <3> QED
      BY <3>1, <3>2, <3>3, FramedStep
  <2>9. ASSUME NEW t \in asking, RequestRouted(t)
        PROVE  CarryInv'
    <3>1. /\ asking' = asking \ {t} /\ inbox \subseteq inbox'
          /\ UNCHANGED <<urls, table, reporting, responses, loads, failures>>
      BY <2>9 DEF RequestRouted, fixed
    <3>2. \E e \in inbox' : e.ask = t.ask
      <4>1. PICK s \in Servers : s \in Bound(t.ask.model)
        BY <2>9 DEF RequestRouted, Bound
      <4>2. [server |-> s, ask |-> t.ask] \in inbox'
        BY <2>9, <4>1 DEF RequestRouted
      <4> QED
        BY <4>2
    <3>3. \A h \in Games : \A ask \in table[h].pending :
            WorkFor(ask) => WorkFor(ask)'
      BY <3>1, <3>2 DEF WorkFor
    <3> QED
      BY <3>1, <3>3, FramedStep
  <2>10. ASSUME NEW t \in asking, RequestReturned(t)
         PROVE  CarryInv'
    <3>1. /\ asking' = asking \ {t} /\ loads \subseteq loads'
          /\ t.url => t.ask \in loads'
          /\ UNCHANGED <<urls, table, reporting, responses, inbox, failures>>
      BY <2>10 DEF RequestReturned, fixed
    <3>2. \A h \in Games : \A ask \in table[h].pending :
            urls[h] = Seat /\ WorkFor(ask) => WorkFor(ask)'
      BY <2>a, <3>1 DEF WorkFor, UrlIsKnown, PendingOwnGame
    <3> QED
      BY <3>1, <3>2, FramedStep
  <2>11. ASSUME NEW t \in asking, RequestRaised(t)
         PROVE  CarryInv'
    <3>1. /\ asking' = asking \ {t} /\ responses \subseteq responses'
          /\ failures' = [failures EXCEPT ![t.ask.g] = @ + 1]
          /\ UNCHANGED <<urls, table, reporting, inbox, loads>>
      BY <2>11 DEF RequestRaised, fixed
    <3>2. t.ask.g \in Games /\ failures \in [Games -> Nat]
      BY <2>a DEF TypeOK, Asking, Ask
    <3>3. /\ failures'[t.ask.g] # 0
          /\ \A h \in Games : failures'[h] = 0 => failures[h] = 0
      BY <3>1, <3>2
    <3>4. \A h \in Games : \A ask \in table[h].pending :
            failures'[h] = 0 /\ WorkFor(ask) => WorkFor(ask)'
      BY <2>a, <3>1, <3>3 DEF WorkFor, PendingOwnGame
    <3> QED
      BY <3>1, <3>3, <3>4, FramedStep
  <2>12. ASSUME NEW e \in inbox, ServeInference(e)
         PROVE  CarryInv'
    <3>1. /\ inbox' = inbox \ {e} /\ responses \subseteq responses'
          /\ \E m \in responses' : m.ask = e.ask
          /\ UNCHANGED <<urls, table, reporting, asking, loads, failures>>
      BY <2>12, AnswerAsk DEF ServeInference, fixed
    <3>2. \A h \in Games : \A ask \in table[h].pending :
            WorkFor(ask) => WorkFor(ask)'
      BY <3>1 DEF WorkFor
    <3> QED
      BY <3>1, <3>2, FramedStep
  <2>13. ASSUME NEW s \in Servers, NEW load \in loads, ServeLoad(s, load)
         PROVE  CarryInv'
    <3>1. /\ loads' = loads \ {load} /\ responses \subseteq responses'
          /\ \E m \in responses' : m.ask = load
          /\ UNCHANGED <<urls, table, reporting, asking, inbox, failures>>
      BY <2>13, AnswerAsk DEF ServeLoad, fixed
    <3>2. \A h \in Games : \A ask \in table[h].pending :
            WorkFor(ask) => WorkFor(ask)'
      BY <3>1 DEF WorkFor
    <3> QED
      BY <3>1, <3>2, FramedStep
  <2>14. CASE UNCHANGED vars
    <3>1. \A g \in Games : Live(g)' = Live(g) /\ Carried(g)' = Carried(g)
      BY <2>14 DEF vars, Live, Carried, WorkFor
    <3> QED
      BY <2>14, <2>a, <3>1 DEF vars, CarryInv, RaisedIsCounted, HandlersOwnGame,
         PendingOwnGame, UrlIsKnown, NotStranded
  <2> QED
    BY <2>1, <2>2, <2>3, <2>4, <2>5, <2>6, <2>7, <2>8, <2>9, <2>10, <2>11,
       <2>12, <2>13, <2>14
       DEF Next, HandleResponse, Resume, AIServers
<1> QED
  BY <1>1, <1>2, TypeCorrect, PTL DEF Spec

(* No game in the tables is ever left without a handler or work for its    *)
(* pending request, unless a publication for it raised or no url is known. *)
THEOREM NeverStranded == Spec => []NotStranded
<1>1. CarryInv => NotStranded
  BY DEF CarryInv
<1> QED
  BY <1>1, Carrying, PTL

-----------------------------------------------------------------------------
(***************************************************************************)
(* A handler that is about to drop its game, and whose publication was     *)
(* accepted, has told the clients that it is over.                         *)
(***************************************************************************)
Told(g) == \E i \in DOMAIN feed[g] : feed[g][i].finished

ToldBeforeDrop == \A t \in reporting : t.ends /\ t.sent => Told(t.g)

(* A broadcast takes no message back; one that was accepted is the last.   *)
LEMMA BroadcastTells ==
  ASSUME TypeOK, ToldBeforeDrop, NEW g \in Games, NEW report \in Report,
         NEW from, NEW ends \in BOOLEAN, Broadcast(g, report, from, ends),
         ends => report.finished
  PROVE  ToldBeforeDrop'
<1>1. feed \in [Games -> Seq(Report)] /\ reporting \subseteq Reporting
  BY DEF TypeOK
<1>2. ASSUME NEW sent \in BOOLEAN,
             reporting' = reporting \cup
               {[g |-> g, from |-> from, ends |-> ends, sent |-> sent]},
             \A h \in Games : Told(h) => Told(h)',
             sent /\ report.finished => Told(g)'
      PROVE  ToldBeforeDrop'
  <2> DEFINE rec == [g |-> g, from |-> from, ends |-> ends, sent |-> sent]
  <2>1. rec.g = g /\ rec.ends = ends /\ rec.sent = sent
    OBVIOUS
  <2>2. reporting' = reporting \cup {rec}
    BY <1>2
  <2>3. \A t \in reporting : t.g \in Games
    BY <1>1 DEF Reporting
  <2> HIDE DEF rec
  <2> QED
    BY <1>2, <2>1, <2>2, <2>3 DEF ToldBeforeDrop
<1>3. CASE feed' = [feed EXCEPT ![g] = Append(@, report)]
           /\ reporting' = reporting \cup
               {[g |-> g, from |-> from, ends |-> ends, sent |-> TRUE]}
  <2>1. feed[g] \in Seq(Report) /\ feed'[g] = Append(feed[g], report)
    BY <1>1, <1>3
  <2>2. /\ DOMAIN feed'[g] = 1 .. Len(feed[g]) + 1
        /\ feed'[g][Len(feed[g]) + 1] = report
        /\ \A i \in 1 .. Len(feed[g]) : feed'[g][i] = feed[g][i]
        /\ DOMAIN feed[g] = 1 .. Len(feed[g]) /\ Len(feed[g]) \in Nat
    BY <2>1
  <2>3. report.finished => Told(g)'
    BY <2>2 DEF Told
  <2>4. Told(g) => Told(g)'
    BY <2>2 DEF Told
  <2>5. \A h \in Games \ {g} : feed'[h] = feed[h]
    BY <1>1, <1>3
  <2>6. \A h \in Games : Told(h) => Told(h)'
    BY <2>4, <2>5 DEF Told
  <2> QED
    BY <1>2, <1>3, <2>3, <2>6
<1>4. CASE feed' = feed
           /\ reporting' = reporting \cup
               {[g |-> g, from |-> from, ends |-> ends, sent |-> FALSE]}
  <2>1. \A h \in Games : Told(h) => Told(h)'
    BY <1>4 DEF Told
  <2> QED
    BY <1>2, <1>4, <2>1
<1> QED
  BY <1>3, <1>4 DEF Broadcast

(* A game leaves the tables only after a final message for it was accepted *)
(* by the broker, for any number of AI servers and failures.               *)
THEOREM ToldFirst == Spec => AnnouncedBeforeDrop
<1>1. Init => ToldBeforeDrop
  BY DEF Init, ToldBeforeDrop
<1>2. TypeOK /\ ToldBeforeDrop /\ [Next]_vars => ToldBeforeDrop'
  <2> SUFFICES ASSUME TypeOK, ToldBeforeDrop, [Next]_vars
               PROVE  ToldBeforeDrop'
    OBVIOUS
  <2>a. \A m \in responses : m \in Response /\ m.ask.g \in Games
    BY DEF TypeOK, Response, Ask
  <2>b. ASSUME reporting' \subseteq reporting, UNCHANGED feed
        PROVE  ToldBeforeDrop'
    BY <2>b DEF ToldBeforeDrop, Told
  <2>1. ASSUME NEW g \in Games, AcceptGame(g)
        PROVE  ToldBeforeDrop'
    <3>1. BoardReport("open") \in Report
      BY DEF BoardReport, Report
    <3> QED
      BY <2>1, <3>1, BroadcastTells DEF AcceptGame
  <2>2. ASSUME NEW m \in responses, PlayAnswer(m)
        PROVE  ToldBeforeDrop'
    <3>1. PICK phase \in PhasesAfter(m.ask.g) :
            Broadcast(m.ask.g, BoardReport(phase), {m}, phase = "over")
      BY <2>2 DEF PlayAnswer
    <3>2. /\ BoardReport(phase) \in Report
          /\ phase = "over" => BoardReport(phase).finished
      BY DEF BoardReport, Report
    <3> QED
      BY <2>a, <3>1, <3>2, BroadcastTells
  <2>3. ASSUME NEW m \in responses, FailGame(m)
        PROVE  ToldBeforeDrop'
    <3>1. FailureReport \in Report /\ FailureReport.finished
      BY DEF FailureReport, Report
    <3> QED
      BY <2>3, <2>a, <3>1, BroadcastTells DEF FailGame
  <2>4. ASSUME NEW m \in responses,
               IgnoreAnswer(m) \/ ResumeAfterLoad(m) \/ OrphanResponse(m)
        PROVE  ToldBeforeDrop'
    BY <2>4, <2>b DEF IgnoreAnswer, ResumeAfterLoad, OrphanResponse
  <2>5. ASSUME NEW t \in reporting, Reported(t) \/ ReportRaised(t)
        PROVE  ToldBeforeDrop'
    <3>1. reporting' = reporting \ {t} /\ UNCHANGED feed
      BY <2>5 DEF Reported, ReportRaised
    <3> QED
      BY <2>b, <3>1
  <2>6. ASSUME NEW t \in asking,
               RequestRouted(t) \/ RequestReturned(t) \/ RequestRaised(t)
        PROVE  ToldBeforeDrop'
    BY <2>6, <2>b DEF RequestRouted, RequestReturned, RequestRaised
  <2>7. CASE AIServers
    <3>1. UNCHANGED <<reporting, feed>>
      BY <2>7 DEF AIServers, ServeInference, ServeLoad
    <3> QED
      BY <2>b, <3>1
  <2>8. CASE UNCHANGED vars
    BY <2>8, <2>b DEF vars
  <2> QED
    BY <2>1, <2>2, <2>3, <2>4, <2>5, <2>6, <2>7, <2>8
       DEF Next, HandleResponse, Resume
<1>3. TypeOK /\ ToldBeforeDrop /\ [Next]_vars =>
        [\A g \in Games : Live(g) /\ ~Live(g)' => Told(g)]_vars
  <2> SUFFICES ASSUME TypeOK, ToldBeforeDrop, Next,
                      NEW g \in Games, Live(g), ~Live(g)'
               PROVE  Told(g)
    OBVIOUS
  <2>1. table \in [Games -> Entry] /\ table'[g].phase # table[g].phase
    BY DEF Live, TypeOK
  <2>2. ASSUME NEW h \in Games, NEW from, ProceedTurn(h, from)
        PROVE  FALSE
    BY <2>1, <2>2 DEF ProceedTurn, Entry
  <2>3. ASSUME NEW h \in Games, NEW e \in Entry, e.phase # "absent",
               table' = [table EXCEPT ![h] = e]
        PROVE  FALSE
    BY <2>1, <2>3 DEF Live
  <2>4. ASSUME NEW h \in Games, AcceptGame(h)
        PROVE  FALSE
    <3>1. NewEntry \in Entry /\ NewEntry.phase # "absent"
      BY EntryTypes DEF NewEntry, NoEntry
    <3> QED
      BY <2>3, <2>4, <3>1 DEF AcceptGame
  <2>5. ASSUME NEW m \in responses, PlayAnswer(m)
        PROVE  FALSE
    <3>1. m.ask.g \in Games /\ table[m.ask.g] \in Entry
      BY DEF TypeOK, Response, Ask
    <3>2. PICK phase \in PhasesAfter(m.ask.g) :
            table' = [table EXCEPT ![m.ask.g] = AfterMove(@, phase)]
      BY <2>5 DEF PlayAnswer
    <3>3. phase \in Verdict
      BY GMAssumption DEF PhasesAfter, GMAssumption, Verdict
    <3>4. AfterMove(table[m.ask.g], phase) \in Entry
      BY <3>1, <3>3, AfterMoveType
    <3>5. AfterMove(table[m.ask.g], phase).phase = phase
      BY <3>1 DEF AfterMove, Entry
    <3>6. table' = [table EXCEPT ![m.ask.g] = AfterMove(table[m.ask.g], phase)]
      BY <3>2
    <3>7. phase # "absent"
      BY <3>3 DEF Verdict
    <3> QED
      BY <2>3, <3>1, <3>4, <3>5, <3>6, <3>7
  <2>6. ASSUME NEW t \in reporting, Reported(t)
        PROVE  Told(g)
    <3>1. t.g \in Games /\ t.from \in SUBSET Response
      BY DEF TypeOK, Reporting
    <3>2. t.ends /\ t.sent /\ table' = [table EXCEPT ![t.g] = NoEntry]
      BY <2>2, <2>6, <3>1 DEF Reported
    <3>3. t.g = g
      BY <2>1, <3>1, <3>2
    <3> QED
      BY <3>2, <3>3 DEF ToldBeforeDrop
  <2>7. ASSUME NEW m \in responses, ResumeAfterLoad(m)
        PROVE  FALSE
    BY <2>2, <2>7 DEF ResumeAfterLoad, TypeOK, Response, Ask
  <2>8. ASSUME UNCHANGED table
        PROVE  FALSE
    BY <2>1, <2>8
  <2>9. ASSUME NEW m \in responses,
               FailGame(m) \/ IgnoreAnswer(m) \/ OrphanResponse(m)
        PROVE  FALSE
    BY <2>8, <2>9 DEF FailGame, IgnoreAnswer, OrphanResponse
  <2>10. ASSUME NEW t \in reporting, ReportRaised(t)
         PROVE  FALSE
    BY <2>8, <2>10 DEF ReportRaised
  <2>11. ASSUME NEW t \in asking,
                RequestRouted(t) \/ RequestReturned(t) \/ RequestRaised(t)
         PROVE  FALSE
    BY <2>8, <2>11 DEF RequestRouted, RequestReturned, RequestRaised
  <2>12. CASE AIServers
    BY <2>8, <2>12 DEF AIServers, ServeInference, ServeLoad
  <2> QED
    BY <2>4, <2>5, <2>6, <2>7, <2>9, <2>10, <2>11, <2>12
       DEF Next, HandleResponse, Resume
<1>4. Spec => [][\A g \in Games : Live(g) /\ ~Live(g)' => Told(g)]_vars
  BY <1>1, <1>2, <1>3, TypeCorrect, PTL DEF Spec
<1> QED
  BY <1>4 DEF AnnouncedBeforeDrop, Told
=============================================================================
