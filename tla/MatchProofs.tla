---------------------------- MODULE MatchProofs ----------------------------
(***************************************************************************)
(* What GameManager promises when its requests are answered by one AI      *)
(* server, for every set of games and models and every board size.         *)
(***************************************************************************)
EXTENDS GameManagerProofs

OneServer == \A s, t \in Servers : s = t

-----------------------------------------------------------------------------
(***************************************************************************)
(* The token of a game: the one thing on the way that will continue it, be *)
(* it a waiting handler, a request or a response.                          *)
(***************************************************************************)
Token(kind, g, at) == [kind |-> kind, g |-> g, at |-> at]

Tokens ==
  {Token("reporting", t.g, t) : t \in reporting}
    \cup {Token("asking", t.ask.g, t) : t \in asking}
    \cup {Token("inbox", e.ask.g, e) : e \in inbox}
    \cup {Token("load", ask.g, ask) : ask \in loads}
    \cup {Token("response", m.ask.g, m) : m \in responses}

OneToken == \A x, y \in Tokens : x.g = y.g => x = y

(* A handler holds at most one response, one of its own game.              *)
OneFrom ==
  /\ \A t \in reporting : \A m, n \in t.from : m = n /\ m.ask.g = t.g
  /\ \A t \in asking : \A m, n \in t.from : m = n /\ m.ask.g = t.ask.g

(* Nothing is known of a game that waits in the queue.                     *)
Untouched ==
  /\ \A x \in Tokens : x.g \notin requests
  /\ \A g \in requests : /\ ~Live(g) /\ asked[g] = 0
                         /\ feed[g] = <<>> /\ played[g] = <<>>

TokenInv == OneToken /\ OneFrom /\ Untouched

(* The parts of a token.                                                   *)
LEMMA TokenFields ==
  ASSUME NEW kind, NEW g, NEW at
  PROVE  /\ Token(kind, g, at).kind = kind
         /\ Token(kind, g, at).g = g
         /\ Token(kind, g, at).at = at
BY DEF Token

(* The tokens of game g are those of the given sets.                       *)
Only(g, handlers, requesters, copies, orders, answers) ==
  /\ \A t \in reporting : t.g = g => t \in handlers
  /\ \A t \in asking : t.ask.g = g => t \in requesters
  /\ \A e \in inbox : e.ask.g = g => e \in copies
  /\ \A ask \in loads : ask.g = g => ask \in orders
  /\ \A m \in responses : m.ask.g = g => m \in answers

(* What holds a token is all there is of its game.                         *)
LEMMA Alone ==
  ASSUME OneToken
  PROVE  /\ \A t \in reporting : Only(t.g, {t}, {}, {}, {}, {})
         /\ \A t \in asking : Only(t.ask.g, {}, {t}, {}, {}, {})
         /\ \A e \in inbox : Only(e.ask.g, {}, {}, {e}, {}, {})
         /\ \A ask \in loads : Only(ask.g, {}, {}, {}, {ask}, {})
         /\ \A m \in responses : Only(m.ask.g, {}, {}, {}, {}, {m})
<1>1. /\ \A t \in reporting : Token("reporting", t.g, t) \in Tokens
      /\ \A t \in asking : Token("asking", t.ask.g, t) \in Tokens
      /\ \A e \in inbox : Token("inbox", e.ask.g, e) \in Tokens
      /\ \A ask \in loads : Token("load", ask.g, ask) \in Tokens
      /\ \A m \in responses : Token("response", m.ask.g, m) \in Tokens
  BY DEF Tokens
<1>2. ASSUME NEW k1, NEW k2, NEW g, NEW a1, NEW a2,
             Token(k1, g, a1) \in Tokens, Token(k2, g, a2) \in Tokens
      PROVE  k1 = k2 /\ a1 = a2
  BY <1>2, TokenFields DEF OneToken
<1>3. \A t \in reporting : Only(t.g, {t}, {}, {}, {}, {})
  BY <1>1, <1>2 DEF Only
<1>4. \A t \in asking : Only(t.ask.g, {}, {t}, {}, {}, {})
  BY <1>1, <1>2 DEF Only
<1>5. \A e \in inbox : Only(e.ask.g, {}, {}, {e}, {}, {})
  BY <1>1, <1>2 DEF Only
<1>6. \A ask \in loads : Only(ask.g, {}, {}, {}, {ask}, {})
  BY <1>1, <1>2 DEF Only
<1>7. \A m \in responses : Only(m.ask.g, {}, {}, {}, {}, {m})
  BY <1>1, <1>2 DEF Only
<1> QED
  BY <1>3, <1>4, <1>5, <1>6, <1>7

(* A game's token is kept, dropped or handed on to one other holder.       *)
LEMMA Handover ==
  ASSUME OneToken, \A x \in Tokens : x.g \notin requests,
         requests' \subseteq requests,
         NEW old \in Tokens, NEW new, new.g = old.g,
         \A x \in Tokens' : x = new \/ (x \in Tokens /\ x # old)
  PROVE  OneToken' /\ (\A x \in Tokens' : x.g \notin requests')
<1>1. \A x \in Tokens' : x # new => x \in Tokens /\ x.g # new.g
  BY DEF OneToken
<1>2. ASSUME NEW x \in Tokens', NEW y \in Tokens', x.g = y.g
      PROVE  x = y
  BY <1>1, <1>2 DEF OneToken
<1>3. \A x \in Tokens' : x.g \notin requests'
  OBVIOUS
<1> QED
  BY <1>2, <1>3 DEF OneToken

(* A step that only removes tokens leaves at most one of each game.        *)
LEMMA Dropped ==
  ASSUME OneToken, \A x \in Tokens : x.g \notin requests,
         requests' \subseteq requests, Tokens' \subseteq Tokens
  PROVE  OneToken' /\ (\A x \in Tokens' : x.g \notin requests')
BY DEF OneToken

(* A handler puts back at most the one response it holds.                  *)
LEMMA RequeuedOne ==
  ASSUME NEW from \in SUBSET Response, NEW g,
         \A m, n \in from : m = n /\ m.ask.g = g
  PROVE  \/ Requeued(from) = {}
         \/ \E r \in Response : Requeued(from) = {r} /\ r.ask.g = g
<1>1. CASE from = {}
  BY <1>1 DEF Requeued
<1>2. CASE from # {}
  <2>1. PICK m \in from : TRUE
    BY <1>2
  <2>2. from = {m} /\ m \in Response /\ m.ask.g = g
    BY <2>1
  <2> DEFINE r == [m EXCEPT !.redelivered = TRUE]
  <2>3. r \in Response /\ r.ask = m.ask
    BY <2>2 DEF Response
  <2>4. Requeued(from) = {r}
    BY <2>2 DEF Requeued
  <2> HIDE DEF r
  <2> QED
    BY <2>2, <2>3, <2>4
<1> QED
  BY <1>1, <1>2

(* Effects of the two helpers on the tokens.                               *)
LEMMA BroadcastRecord ==
  ASSUME NEW g \in Games, NEW report, NEW from, NEW ends,
         Broadcast(g, report, from, ends)
  PROVE  \E rec :
           /\ reporting' = reporting \cup {rec}
           /\ rec.g = g /\ rec.from = from /\ rec.ends = ends
           /\ rec.sent \in BOOLEAN
           /\ IF rec.sent
              THEN /\ feed' = [feed EXCEPT ![g] = Append(@, report)]
                   /\ UNCHANGED failures
              ELSE /\ failures' = [failures EXCEPT ![g] = @ + 1]
                   /\ UNCHANGED feed
<1> DEFINE rec(sent) == [g |-> g, from |-> from, ends |-> ends, sent |-> sent]
<1>1. \A sent : /\ rec(sent).g = g /\ rec(sent).from = from
                /\ rec(sent).ends = ends /\ rec(sent).sent = sent
  OBVIOUS
<1>2. \/ /\ feed' = [feed EXCEPT ![g] = Append(@, report)]
         /\ reporting' = reporting \cup {rec(TRUE)}
         /\ UNCHANGED failures
      \/ /\ failures' = [failures EXCEPT ![g] = @ + 1]
         /\ reporting' = reporting \cup {rec(FALSE)}
         /\ UNCHANGED feed
  BY DEF Broadcast
<1> HIDE DEF rec
<1> QED
  BY <1>1, <1>2

(* The request proceed_turn draws up for a game in the tables.             *)
LEMMA ProceedTurnRecord ==
  ASSUME TypeOK, NEW g \in Games, NEW from, ProceedTurn(g, from), Live(g)
  PROVE  \E rec :
           /\ asking' = asking \cup {rec}
           /\ rec.from = from /\ rec.ask.g = g /\ rec.ask.id = asked[g] + 1
           /\ rec.ask.model = models[g][table[g].seat]
           /\ asked' = [asked EXCEPT ![g] = @ + 1]
           /\ table' = [table EXCEPT ![g].pending = {rec.ask}]
<1> DEFINE seat == table[g].seat
           ask == [g |-> g, id |-> asked[g] + 1, model |-> models[g][seat]]
           rec == [ask |-> ask, from |-> from, url |-> seat \in urls[g]]
<1>1. /\ asked' = [asked EXCEPT ![g] = @ + 1]
      /\ table' = [table EXCEPT ![g].pending = {ask}]
      /\ asking' = asking \cup {rec}
  BY DEF ProceedTurn
<1>2. /\ rec.ask = ask /\ rec.from = from /\ ask.g = g
      /\ ask.id = asked[g] + 1 /\ ask.model = models[g][table[g].seat]
  OBVIOUS
<1> HIDE DEF rec, ask
<1> QED
  BY <1>1, <1>2

(* A step concerns one game, whatever it does to that one.                 *)
Elsewhere(g) ==
  \A h \in Games \ {g} :
    UNCHANGED <<table[h], asked[h], feed[h], played[h], failures[h]>>

(* A broadcast concerns the feed and the failures of its game.             *)
LEMMA BroadcastElsewhere ==
  ASSUME TypeOK, NEW g \in Games, NEW report, NEW from, NEW ends,
         Broadcast(g, report, from, ends)
  PROVE  \A h \in Games \ {g} : UNCHANGED <<feed[h], failures[h]>>
<1>1. \/ UNCHANGED feed \/ feed' = [feed EXCEPT ![g] = Append(@, report)]
  BY DEF Broadcast
<1>2. \/ UNCHANGED failures \/ failures' = [failures EXCEPT ![g] = @ + 1]
  BY DEF Broadcast
<1>3. \A h \in Games \ {g} : UNCHANGED feed[h]
  BY <1>1 DEF TypeOK
<1>4. \A h \in Games \ {g} : UNCHANGED failures[h]
  BY <1>2 DEF TypeOK
<1> QED
  BY <1>3, <1>4

(* proceed_turn concerns the entry and the ids of its game.                *)
LEMMA ProceedTurnElsewhere ==
  ASSUME TypeOK, NEW g \in Games, NEW from, ProceedTurn(g, from)
  PROVE  \A h \in Games \ {g} : UNCHANGED <<table[h], asked[h]>>
<1>1. CASE Live(g)
  <2>1. PICK rec : /\ asked' = [asked EXCEPT ![g] = @ + 1]
                   /\ table' = [table EXCEPT ![g].pending = {rec.ask}]
    BY <1>1, ProceedTurnRecord
  <2> QED
    BY <2>1 DEF TypeOK
<1>2. CASE ~Live(g)
  BY <1>2 DEF ProceedTurn
<1> QED
  BY <1>1, <1>2

(* Every action concerns the game of its request, response or handler.     *)
LEMMA Local ==
  ASSUME TypeOK
  PROVE  /\ \A g \in Games : AcceptGame(g) => Elsewhere(g)
         /\ \A m \in responses : HandleResponse(m) => Elsewhere(m.ask.g)
         /\ \A t \in reporting :
              Reported(t) \/ ReportRaised(t) => Elsewhere(t.g)
         /\ \A t \in asking :
              RequestRouted(t) \/ RequestReturned(t) \/ RequestRaised(t)
                => Elsewhere(t.ask.g)
         /\ AIServers => UNCHANGED <<table, asked, feed, played, failures>>
<1>1. ASSUME NEW g \in Games, AcceptGame(g)
      PROVE  Elsewhere(g)
  <2>1. /\ table' = [table EXCEPT ![g] = NewEntry] /\ UNCHANGED <<asked, played>>
        /\ Broadcast(g, BoardReport("open"), {}, FALSE)
    BY <1>1 DEF AcceptGame
  <2>2. \A h \in Games \ {g} : UNCHANGED <<feed[h], failures[h]>>
    BY <2>1, BroadcastElsewhere
  <2>3. \A h \in Games \ {g} : UNCHANGED table[h]
    BY <2>1 DEF TypeOK
  <2> QED
    BY <2>1, <2>2, <2>3 DEF Elsewhere
<1>2. ASSUME NEW m \in responses, HandleResponse(m)
      PROVE  Elsewhere(m.ask.g)
  <2>1. m.ask.g \in Games
    BY DEF TypeOK, Response, Ask
  <2>2. CASE PlayAnswer(m)
    <3>1. PICK phase \in PhasesAfter(m.ask.g) :
            /\ table' = [table EXCEPT ![m.ask.g] = AfterMove(@, phase)]
            /\ Broadcast(m.ask.g, BoardReport(phase), {m}, phase = "over")
      BY <2>2 DEF PlayAnswer
    <3>2. \A h \in Games \ {m.ask.g} : UNCHANGED <<feed[h], failures[h]>>
      BY <2>1, <3>1, BroadcastElsewhere
    <3>3. \A h \in Games \ {m.ask.g} : UNCHANGED table[h]
      BY <2>1, <3>1 DEF TypeOK
    <3>4. UNCHANGED asked /\ played' = [played EXCEPT ![m.ask.g] =
            Append(@, [player |-> table[m.ask.g].player, ask |-> m.ask])]
      BY <2>2 DEF PlayAnswer
    <3>5. \A h \in Games \ {m.ask.g} : UNCHANGED played[h]
      BY <3>4 DEF TypeOK
    <3> QED
      BY <3>2, <3>3, <3>4, <3>5 DEF Elsewhere
  <2>3. CASE FailGame(m)
    <3>1. /\ UNCHANGED <<table, asked, played>>
          /\ Broadcast(m.ask.g, FailureReport, {m}, TRUE)
      BY <2>3 DEF FailGame
    <3> QED
      BY <2>1, <3>1, BroadcastElsewhere DEF Elsewhere
  <2>4. CASE ResumeAfterLoad(m)
    <3>1. /\ UNCHANGED <<feed, played, failures>> /\ ProceedTurn(m.ask.g, {m})
      BY <2>4 DEF ResumeAfterLoad
    <3> QED
      BY <2>1, <3>1, ProceedTurnElsewhere DEF Elsewhere
  <2>5. CASE IgnoreAnswer(m) \/ OrphanResponse(m)
    BY <2>5 DEF IgnoreAnswer, OrphanResponse, Elsewhere
  <2> QED
    BY <1>2, <2>2, <2>3, <2>4, <2>5 DEF HandleResponse
<1>3. ASSUME NEW t \in reporting, Reported(t) \/ ReportRaised(t)
      PROVE  Elsewhere(t.g)
  <2>1. t.g \in Games
    BY DEF TypeOK, Reporting
  <2>2. CASE ReportRaised(t)
    BY <2>2 DEF ReportRaised, Elsewhere
  <2>3. CASE Reported(t)
    <3>1. UNCHANGED <<feed, played, failures>>
      BY <2>3 DEF Reported
    <3>2. \/ table' = [table EXCEPT ![t.g] = NoEntry] /\ UNCHANGED asked
          \/ ProceedTurn(t.g, t.from)
      BY <2>3 DEF Reported
    <3>3. \A h \in Games \ {t.g} : UNCHANGED <<table[h], asked[h]>>
      BY <2>1, <3>2, ProceedTurnElsewhere DEF TypeOK
    <3> QED
      BY <3>1, <3>3 DEF Elsewhere
  <2> QED
    BY <1>3, <2>2, <2>3
<1>4. ASSUME NEW t \in asking,
             RequestRouted(t) \/ RequestReturned(t) \/ RequestRaised(t)
      PROVE  Elsewhere(t.ask.g)
  <2>1. UNCHANGED <<table, asked, feed, played>>
    BY <1>4 DEF RequestRouted, RequestReturned, RequestRaised
  <2>2. \/ UNCHANGED failures
        \/ failures' = [failures EXCEPT ![t.ask.g] = @ + 1]
    BY <1>4 DEF RequestRouted, RequestReturned, RequestRaised
  <2>3. \A h \in Games \ {t.ask.g} : UNCHANGED failures[h]
    BY <2>2 DEF TypeOK
  <2> QED
    BY <2>1, <2>3 DEF Elsewhere
<1>5. AIServers => UNCHANGED <<table, asked, feed, played, failures>>
  BY DEF AIServers, ServeInference, ServeLoad
<1> QED
  BY <1>1, <1>2, <1>3, <1>4, <1>5

-----------------------------------------------------------------------------
(* What is left to show once a step's token is accounted for.              *)
LEMMA UntouchedStep ==
  ASSUME TypeOK, Untouched, requests' \subseteq requests,
         \A x \in Tokens' : x.g \notin requests',
         NEW g, g \notin requests', Elsewhere(g)
  PROVE  Untouched'
<1>1. \A h \in requests' : h \in Games \ {g} /\ h \in requests
  BY DEF TypeOK
<1>2. \A h \in requests' : /\ ~Live(h)' /\ asked'[h] = 0
                           /\ feed'[h] = <<>> /\ played'[h] = <<>>
  BY <1>1 DEF Untouched, Elsewhere, Live
<1> QED
  BY <1>2 DEF Untouched

(* Every step hands the token of its game on, or drops it, or accepts a    *)
(* game from the queue, which had none.                                    *)
LEMMA TokenStep ==
  ASSUME OneServer, TypeOK, TypeOK', TokenInv, [Next]_vars
  PROVE  TokenInv'
<1>a. OneToken /\ OneFrom /\ Untouched /\ (\A x \in Tokens : x.g \notin requests)
  BY DEF TokenInv, Untouched
<1>b. /\ \A t \in reporting : /\ Token("reporting", t.g, t) \in Tokens
                              /\ t.g \in Games /\ t.g \notin requests
                              /\ t.from \in SUBSET Response
      /\ \A t \in asking : /\ Token("asking", t.ask.g, t) \in Tokens
                           /\ t.ask.g \in Games /\ t.ask.g \notin requests
                           /\ t.from \in SUBSET Response
      /\ \A m \in responses : /\ Token("response", m.ask.g, m) \in Tokens
                              /\ m.ask.g \in Games /\ m.ask.g \notin requests
                              /\ m \in Response
      /\ \A e \in inbox : /\ Token("inbox", e.ask.g, e) \in Tokens
                          /\ e.ask.g \in Games /\ e.ask.g \notin requests
                          /\ e.server \in Servers
                          /\ e = [server |-> e.server, ask |-> e.ask]
      /\ \A ask \in loads : /\ Token("load", ask.g, ask) \in Tokens
                            /\ ask.g \in Games /\ ask.g \notin requests
  <2>1. /\ \A t \in reporting : Token("reporting", t.g, t) \in Tokens
        /\ \A t \in asking : Token("asking", t.ask.g, t) \in Tokens
        /\ \A e \in inbox : Token("inbox", e.ask.g, e) \in Tokens
        /\ \A ask \in loads : Token("load", ask.g, ask) \in Tokens
        /\ \A m \in responses : Token("response", m.ask.g, m) \in Tokens
    BY DEF Tokens
  <2>2. /\ \A t \in reporting : t.g \in Games /\ t.from \in SUBSET Response
        /\ \A t \in asking : t.ask.g \in Games /\ t.from \in SUBSET Response
        /\ \A m \in responses : m.ask.g \in Games /\ m \in Response
    BY DEF TypeOK, Reporting, Asking, Response, Ask
  <2>3. /\ \A e \in inbox : /\ e.ask.g \in Games /\ e.server \in Servers
                            /\ e = [server |-> e.server, ask |-> e.ask]
        /\ \A ask \in loads : ask.g \in Games
    BY DEF TypeOK, Ask
  <2>4. \A k, g, at : Token(k, g, at) \in Tokens => g \notin requests
    BY <1>a, TokenFields
  <2> QED
    BY <2>1, <2>2, <2>3, <2>4
<1>c. \A k, g, at : Token(k, g, at).g = g
  BY TokenFields
<1>d. ASSUME NEW old \in Tokens, NEW new, new.g = old.g, UNCHANGED requests,
             \A x \in Tokens' : x = new \/ (x \in Tokens /\ x # old),
             Elsewhere(old.g), OneFrom'
      PROVE  TokenInv'
  <2>1. OneToken' /\ \A x \in Tokens' : x.g \notin requests'
    BY <1>a, <1>d, Handover
  <2>2. Untouched'
    BY <1>a, <1>d, <2>1, UntouchedStep
  <2> QED
    BY <1>d, <2>1, <2>2 DEF TokenInv
<1>e. ASSUME NEW old \in Tokens, UNCHANGED requests, Tokens' \subseteq Tokens,
             Elsewhere(old.g), OneFrom'
      PROVE  TokenInv'
  <2>1. OneToken' /\ \A x \in Tokens' : x.g \notin requests'
    BY <1>a, <1>e, Dropped
  <2>2. Untouched'
    BY <1>a, <1>e, <2>1, UntouchedStep
  <2> QED
    BY <1>e, <2>1, <2>2 DEF TokenInv
<1> HIDE DEF OneServer
<1>1. ASSUME NEW g \in Games, AcceptGame(g)
      PROVE  TokenInv'
  <2>1. \E report, ends : Broadcast(g, report, {}, ends)
    BY <1>1 DEF AcceptGame
  <2>2. PICK rec : /\ reporting' = reporting \cup {rec}
                   /\ rec.g = g /\ rec.from = {}
    BY <2>1, BroadcastRecord
  <2>3. /\ requests' = requests \ {g} /\ g \in requests
        /\ UNCHANGED <<asking, inbox, loads, responses>>
    BY <1>1 DEF AcceptGame
  <2>4. \A x \in Tokens' : x \in Tokens \/ x = Token("reporting", g, rec)
    BY <2>2, <2>3 DEF Tokens
  <2>5. OneToken'
    BY <1>a, <1>c, <2>3, <2>4 DEF OneToken
  <2>6. \A x \in Tokens' : x.g \notin requests'
    BY <1>a, <1>c, <2>3, <2>4
  <2>7. OneFrom'
    BY <1>a, <2>2, <2>3 DEF OneFrom
  <2>8. Elsewhere(g)
    BY <1>1, Local
  <2>9. Untouched'
    BY <1>a, <2>3, <2>6, <2>8, UntouchedStep
  <2> QED
    BY <2>5, <2>7, <2>9 DEF TokenInv
<1>2. ASSUME NEW m \in responses, HandleResponse(m)
      PROVE  TokenInv'
  <2> DEFINE old == Token("response", m.ask.g, m)
  <2>1. /\ old \in Tokens /\ old.g = m.ask.g /\ Elsewhere(old.g)
        /\ m \in Response
    BY <1>2, <1>b, <1>c, Local
  <2>2. CASE PlayAnswer(m) \/ FailGame(m)
    <3>1. /\ responses' = responses \ {m}
          /\ UNCHANGED <<requests, asking, inbox, loads>>
          /\ \E report, ends : Broadcast(m.ask.g, report, {m}, ends)
      BY <2>2 DEF PlayAnswer, FailGame
    <3>2. PICK rec : /\ reporting' = reporting \cup {rec}
                     /\ rec.g = m.ask.g /\ rec.from = {m}
      BY <3>1, <1>b, BroadcastRecord
    <3>3. \A x \in Tokens' : x = Token("reporting", m.ask.g, rec)
                             \/ (x \in Tokens /\ x # old)
      BY <3>1, <3>2, TokenFields DEF Tokens
    <3>4. OneFrom'
      BY <1>a, <3>1, <3>2 DEF OneFrom
    <3> HIDE DEF old
    <3> QED
      BY <1>c, <1>d, <2>1, <3>1, <3>3, <3>4
  <2>3. CASE IgnoreAnswer(m)
    <3>1. /\ responses' = responses \ {m}
          /\ UNCHANGED <<requests, reporting, asking, inbox, loads>>
      BY <2>3 DEF IgnoreAnswer
    <3>2. Tokens' \subseteq Tokens
      BY <3>1 DEF Tokens
    <3>3. OneFrom'
      BY <1>a, <3>1 DEF OneFrom
    <3> HIDE DEF old
    <3> QED
      BY <1>e, <2>1, <3>1, <3>2, <3>3
  <2>4. CASE ResumeAfterLoad(m)
    <3>1. /\ responses' = responses \ {m} /\ ProceedTurn(m.ask.g, {m})
          /\ UNCHANGED <<requests, reporting, inbox, loads>>
      BY <2>4 DEF ResumeAfterLoad
    <3>2. CASE Live(m.ask.g)
      <4>1. PICK rec : /\ asking' = asking \cup {rec}
                       /\ rec.from = {m} /\ rec.ask.g = m.ask.g
        BY <3>1, <3>2, <1>b, ProceedTurnRecord
      <4>2. \A x \in Tokens' : x = Token("asking", m.ask.g, rec)
                               \/ (x \in Tokens /\ x # old)
        BY <3>1, <4>1, TokenFields DEF Tokens
      <4>3. OneFrom'
        BY <1>a, <3>1, <4>1 DEF OneFrom
      <4> HIDE DEF old
      <4> QED
        BY <1>c, <1>d, <2>1, <3>1, <4>2, <4>3
    <3>3. CASE ~Live(m.ask.g)
      <4>1. UNCHANGED asking
        BY <3>1, <3>3 DEF ProceedTurn
      <4>2. Tokens' \subseteq Tokens
        BY <3>1, <4>1 DEF Tokens
      <4>3. OneFrom'
        BY <1>a, <3>1, <4>1 DEF OneFrom
      <4> HIDE DEF old
      <4> QED
        BY <1>e, <2>1, <3>1, <4>2, <4>3
    <3> QED
      BY <3>2, <3>3
  <2>5. CASE OrphanResponse(m)
    <3>1. /\ responses' = (responses \ {m}) \cup Requeued({m})
          /\ UNCHANGED <<requests, reporting, asking, inbox, loads>>
      BY <2>5 DEF OrphanResponse
    <3>2. \/ Requeued({m}) = {}
          \/ \E r \in Response : Requeued({m}) = {r} /\ r.ask.g = m.ask.g
      <4>1. {m} \in SUBSET Response
        BY <2>1
      <4>2. \A n, o \in {m} : n = o /\ n.ask.g = m.ask.g
        OBVIOUS
      <4> QED
        BY <4>1, <4>2, RequeuedOne
    <3>3. OneFrom'
      BY <1>a, <3>1 DEF OneFrom
    <3>4. CASE Requeued({m}) = {}
      <4>1. Tokens' \subseteq Tokens
        BY <3>1, <3>4 DEF Tokens
      <4> HIDE DEF old
      <4> QED
        BY <1>e, <2>1, <3>1, <3>3, <4>1
    <3>5. ASSUME NEW r \in Response, Requeued({m}) = {r}, r.ask.g = m.ask.g
          PROVE  TokenInv'
      <4>1. /\ \A n \in responses' : n = r \/ (n \in responses /\ n # m)
            /\ UNCHANGED <<reporting, asking, inbox, loads>>
        BY <3>1, <3>5
      <4>2. r.ask.g = m.ask.g
        BY <3>5
      <4>3. \A x \in Tokens' : x = Token("response", m.ask.g, r)
                               \/ (x \in Tokens /\ x # old)
        BY <4>1, <4>2, TokenFields DEF Tokens
      <4> HIDE DEF old
      <4> QED
        BY <1>c, <1>d, <2>1, <3>1, <3>3, <4>3
    <3> QED
      BY <3>2, <3>4, <3>5
  <2> QED
    BY <1>2, <2>2, <2>3, <2>4, <2>5 DEF HandleResponse
<1>3. ASSUME NEW t \in reporting, Reported(t) \/ ReportRaised(t)
      PROVE  TokenInv'
  <2> DEFINE old == Token("reporting", t.g, t)
  <2>1. /\ old \in Tokens /\ old.g = t.g /\ Elsewhere(old.g)
        /\ reporting' = reporting \ {t} /\ UNCHANGED <<requests, inbox, loads>>
    BY <1>3, <1>b, <1>c, Local DEF Reported, ReportRaised
  <2>2. \A m, n \in t.from : m = n /\ m.ask.g = t.g
    BY <1>a DEF OneFrom
  <2>3. CASE UNCHANGED <<asking, responses>>
    <3>1. Tokens' \subseteq Tokens
      BY <2>1, <2>3 DEF Tokens
    <3>2. OneFrom'
      BY <1>a, <2>1, <2>3 DEF OneFrom
    <3> HIDE DEF old
    <3> QED
      BY <1>e, <2>1, <3>1, <3>2
  <2>4. CASE ReportRaised(t)
    <3>1. responses' = responses \cup Requeued(t.from) /\ UNCHANGED asking
      BY <2>4 DEF ReportRaised
    <3>2. \/ Requeued(t.from) = {}
          \/ \E r \in Response : Requeued(t.from) = {r} /\ r.ask.g = t.g
      BY <1>b, <2>2, RequeuedOne
    <3>3. OneFrom'
      BY <1>a, <2>1, <3>1 DEF OneFrom
    <3>4. ASSUME NEW r \in Response, Requeued(t.from) = {r}, r.ask.g = t.g
          PROVE  TokenInv'
      <4>1. \A x \in Tokens' : x = Token("response", t.g, r)
                               \/ (x \in Tokens /\ x # old)
        BY <2>1, <3>1, <3>4, TokenFields DEF Tokens
      <4> HIDE DEF old
      <4> QED
        BY <1>c, <1>d, <2>1, <3>3, <4>1
    <3> QED
      BY <2>3, <3>1, <3>2, <3>4
  <2>5. CASE Reported(t)
    <3>1. UNCHANGED responses
      BY <2>5 DEF Reported
    <3>2. CASE ProceedTurn(t.g, t.from) /\ Live(t.g)
      <4>1. PICK rec : /\ asking' = asking \cup {rec}
                       /\ rec.from = t.from /\ rec.ask.g = t.g
        BY <3>2, <1>b, ProceedTurnRecord
      <4>2. \A x \in Tokens' : x = Token("asking", t.g, rec)
                               \/ (x \in Tokens /\ x # old)
        BY <2>1, <3>1, <4>1, TokenFields DEF Tokens
      <4>3. OneFrom'
        BY <1>a, <2>1, <2>2, <4>1 DEF OneFrom
      <4> HIDE DEF old
      <4> QED
        BY <1>c, <1>d, <2>1, <4>2, <4>3
    <3>3. CASE UNCHANGED asking
      BY <2>3, <3>1, <3>3
    <3>4. UNCHANGED asking \/ (ProceedTurn(t.g, t.from) /\ Live(t.g))
      BY <2>5 DEF Reported, ProceedTurn
    <3> QED
      BY <3>2, <3>3, <3>4
  <2> QED
    BY <1>3, <2>4, <2>5
<1>4. ASSUME NEW t \in asking,
             RequestRouted(t) \/ RequestReturned(t) \/ RequestRaised(t)
      PROVE  TokenInv'
  <2> DEFINE old == Token("asking", t.ask.g, t)
  <2>1. /\ old \in Tokens /\ old.g = t.ask.g /\ Elsewhere(old.g)
        /\ asking' = asking \ {t} /\ UNCHANGED <<requests, reporting>>
    BY <1>4, <1>b, <1>c, Local DEF RequestRouted, RequestReturned, RequestRaised
  <2>2. OneFrom'
    BY <1>a, <2>1 DEF OneFrom
  <2>3. CASE UNCHANGED <<inbox, loads, responses>>
    <3>1. Tokens' \subseteq Tokens
      BY <2>1, <2>3 DEF Tokens
    <3> HIDE DEF old
    <3> QED
      BY <1>e, <2>1, <2>2, <3>1
  <2>4. CASE RequestRouted(t)
    <3>1. /\ inbox' = inbox \cup {[server |-> s, ask |-> t.ask] :
                                    s \in Bound(t.ask.model)}
          /\ Bound(t.ask.model) # {} /\ UNCHANGED <<loads, responses>>
      BY <2>4 DEF RequestRouted
    <3>2. PICK s \in Servers : s \in Bound(t.ask.model)
      BY <3>1 DEF Bound
    <3>3. Bound(t.ask.model) = {s}
      BY <3>2 DEF OneServer, Bound
    <3> DEFINE e == [server |-> s, ask |-> t.ask]
    <3>4. inbox' = inbox \cup {e} /\ e.ask.g = t.ask.g
      BY <3>1, <3>3
    <3> HIDE DEF e
    <3>5. \A x \in Tokens' : x = Token("inbox", t.ask.g, e)
                             \/ (x \in Tokens /\ x # old)
      BY <2>1, <3>1, <3>4, TokenFields DEF Tokens
    <3> HIDE DEF old
    <3> QED
      BY <1>c, <1>d, <2>1, <2>2, <3>5
  <2>5. CASE RequestReturned(t)
    <3>1. /\ loads' = IF t.url THEN loads \cup {t.ask} ELSE loads
          /\ UNCHANGED <<inbox, responses>>
      BY <2>5 DEF RequestReturned
    <3>2. CASE t.url
      <4>1. \A x \in Tokens' : x = Token("load", t.ask.g, t.ask)
                               \/ (x \in Tokens /\ x # old)
        BY <2>1, <3>1, <3>2, TokenFields DEF Tokens
      <4> HIDE DEF old
      <4> QED
        BY <1>c, <1>d, <2>1, <2>2, <4>1
    <3> QED
      BY <2>3, <3>1, <3>2
  <2>6. CASE RequestRaised(t)
    <3>1. /\ responses' = responses \cup Requeued(t.from)
          /\ UNCHANGED <<inbox, loads>>
      BY <2>6 DEF RequestRaised
    <3>2. \/ Requeued(t.from) = {}
          \/ \E r \in Response : Requeued(t.from) = {r} /\ r.ask.g = t.ask.g
      <4>1. \A m, n \in t.from : m = n /\ m.ask.g = t.ask.g
        BY <1>a DEF OneFrom
      <4> QED
        BY <1>b, <4>1, RequeuedOne
    <3>3. ASSUME NEW r \in Response, Requeued(t.from) = {r}, r.ask.g = t.ask.g
          PROVE  TokenInv'
      <4>1. \A x \in Tokens' : x = Token("response", t.ask.g, r)
                               \/ (x \in Tokens /\ x # old)
        BY <2>1, <3>1, <3>3, TokenFields DEF Tokens
      <4> HIDE DEF old
      <4> QED
        BY <1>c, <1>d, <2>1, <2>2, <4>1
    <3> QED
      BY <2>3, <3>1, <3>2, <3>3
  <2> QED
    BY <1>4, <2>4, <2>5, <2>6
<1>5. CASE AIServers
  <2>1. /\ UNCHANGED <<requests, reporting, asking>>
        /\ UNCHANGED <<table, asked, feed, played, failures>>
    BY <1>5 DEF AIServers, ServeInference, ServeLoad
  <2>2. OneFrom' /\ \A g : Elsewhere(g)
    BY <1>a, <2>1 DEF OneFrom, Elsewhere
  <2>3. ASSUME NEW e \in inbox, ServeInference(e)
        PROVE  TokenInv'
    <3> DEFINE old == Token("inbox", e.ask.g, e)
    <3>1. PICK m : /\ responses' = responses \cup {m} /\ m.ask = e.ask
                   /\ inbox' = inbox \ {e} /\ UNCHANGED loads
      BY <2>3, AnswerAsk DEF ServeInference
    <3>2. \A x \in Tokens' : x = Token("response", e.ask.g, m)
                             \/ (x \in Tokens /\ x # old)
      BY <2>1, <3>1, TokenFields DEF Tokens
    <3>3. old \in Tokens /\ old.g = e.ask.g
      BY <1>b, <1>c
    <3> HIDE DEF old
    <3> QED
      BY <1>c, <1>d, <2>1, <2>2, <3>2, <3>3
  <2>4. ASSUME NEW s \in Servers, NEW ask \in loads, ServeLoad(s, ask)
        PROVE  TokenInv'
    <3> DEFINE old == Token("load", ask.g, ask)
    <3>1. PICK m : /\ responses' = responses \cup {m} /\ m.ask = ask
                   /\ loads' = loads \ {ask} /\ UNCHANGED inbox
      BY <2>4, AnswerAsk DEF ServeLoad
    <3>2. \A x \in Tokens' : x = Token("response", ask.g, m)
                             \/ (x \in Tokens /\ x # old)
      BY <2>1, <3>1, TokenFields DEF Tokens
    <3>3. old \in Tokens /\ old.g = ask.g
      BY <1>b, <1>c
    <3> HIDE DEF old
    <3> QED
      BY <1>c, <1>d, <2>1, <2>2, <3>2, <3>3
  <2> QED
    BY <1>5, <2>3, <2>4 DEF AIServers
<1>6. CASE UNCHANGED vars
  <2>1. UNCHANGED Tokens
    BY <1>6 DEF vars, Tokens
  <2>2. UNCHANGED <<OneToken, OneFrom, Untouched>>
    BY <1>6, <2>1 DEF vars, OneToken, OneFrom, Untouched, Live
  <2> QED
    BY <1>a, <2>2 DEF TokenInv
<1> QED
  BY <1>1, <1>2, <1>3, <1>4, <1>5, <1>6 DEF Next, Resume

(* With one AI server at most one thing on the way continues a game.       *)
LEMMA TokenAlways == OneServer => (Spec => []TokenInv)
<1> SUFFICES ASSUME OneServer
             PROVE  Spec => []TokenInv
  OBVIOUS
<1>1. Init => TokenInv
  <2> SUFFICES ASSUME Init
               PROVE  TokenInv
    OBVIOUS
  <2>1. Tokens = {} /\ reporting = {} /\ asking = {}
    BY DEF Init, Tokens
  <2>2. \A g \in requests : /\ ~Live(g) /\ asked[g] = 0
                            /\ feed[g] = <<>> /\ played[g] = <<>>
    BY DEF Init, Live, NoEntry
  <2> QED
    BY <2>1, <2>2 DEF TokenInv, OneToken, OneFrom, Untouched
<1>2. TypeOK /\ TypeOK' /\ TokenInv /\ [Next]_vars => TokenInv'
  BY TokenStep
<1> QED
  BY <1>1, <1>2, TypeCorrect, PTL DEF Spec

-----------------------------------------------------------------------------
(***************************************************************************)
(* Final messages are final.                                               *)
(***************************************************************************)
(* A game on which a final message was sent is not open any more, or about *)
(* to be dropped by the handler that sent it.                              *)
ClosedOnceTold(g) ==
  table[g].phase = "open" /\ Told(g) =>
    \E t \in reporting : t.g = g /\ t.ends /\ t.sent

FinalMessages(g) ==
  \A i, j \in DOMAIN feed[g] :
    i < j /\ feed[g][i].finished => feed[g][j].finished

FeedInv == \A g \in Games : ClosedOnceTold(g) /\ FinalMessages(g)

(* A broadcast keeps the final messages last, if it is itself final or     *)
(* the first of them has not been sent.                                    *)
LEMMA BroadcastFeed ==
  ASSUME TypeOK, NEW g \in Games, NEW report \in Report, NEW from,
         NEW ends \in BOOLEAN, Broadcast(g, report, from, ends)
  PROVE  \E rec :
           /\ reporting' = reporting \cup {rec} /\ rec.g = g
           /\ ends => rec.ends
           /\ rec.sent \in BOOLEAN
           /\ rec.sent = FALSE \/ ~report.finished => (Told(g)' => Told(g))
           /\ FinalMessages(g) /\ (report.finished \/ ~Told(g))
                => FinalMessages(g)'
<1>1. PICK rec :
        /\ reporting' = reporting \cup {rec} /\ rec.g = g
        /\ rec.ends = ends /\ rec.sent \in BOOLEAN
        /\ IF rec.sent THEN feed' = [feed EXCEPT ![g] = Append(@, report)]
                       ELSE UNCHANGED feed
  BY BroadcastRecord
<1>2. CASE rec.sent
  <2>1. feed[g] \in Seq(Report) /\ feed'[g] = Append(feed[g], report)
    BY <1>1, <1>2 DEF TypeOK
  <2>2. /\ DOMAIN feed'[g] = 1 .. Len(feed[g]) + 1
        /\ feed'[g][Len(feed[g]) + 1] = report
        /\ \A i \in 1 .. Len(feed[g]) : feed'[g][i] = feed[g][i]
        /\ DOMAIN feed[g] = 1 .. Len(feed[g]) /\ Len(feed[g]) \in Nat
    BY <2>1
  <2>3. Told(g)' => Told(g) \/ report.finished
    BY <2>2 DEF Told
  <2>4. FinalMessages(g) /\ (report.finished \/ ~Told(g)) => FinalMessages(g)'
    BY <2>2 DEF Told, FinalMessages
  <2> QED
    BY <1>1, <1>2, <2>3, <2>4
<1>3. CASE ~rec.sent
  <2>1. UNCHANGED feed
    BY <1>1, <1>3
  <2> QED
    BY <1>1, <2>1 DEF Told, FinalMessages
<1> QED
  BY <1>2, <1>3

(* A step that keeps FeedInv for its own game keeps it.                    *)
LEMMA FeedElsewhere ==
  ASSUME FeedInv, NEW g, Elsewhere(g),
         \A t \in reporting : t.g # g => t \in reporting',
         g \in Games => (ClosedOnceTold(g) /\ FinalMessages(g))'
  PROVE  FeedInv'
<1>1. \A h \in Games \ {g} : UNCHANGED <<table[h], feed[h]>>
  BY DEF Elsewhere
<1>2. ASSUME NEW h \in Games \ {g}
      PROVE  ClosedOnceTold(h)' /\ FinalMessages(h)'
  <2>1. UNCHANGED <<Told(h), table[h], feed[h]>>
    BY <1>1 DEF Told
  <2> QED
    BY <2>1 DEF FeedInv, ClosedOnceTold, FinalMessages
<1> QED
  BY <1>2 DEF FeedInv

(* proceed_turn does not touch the board.                                  *)
LEMMA ProceedTurnPhase ==
  ASSUME TypeOK, NEW g \in Games, NEW from, ProceedTurn(g, from)
  PROVE  UNCHANGED table[g].phase
<1>1. CASE Live(g)
  <2>1. PICK rec : table' = [table EXCEPT ![g].pending = {rec.ask}]
    BY <1>1, ProceedTurnRecord
  <2> QED
    BY <2>1 DEF TypeOK, Entry
<1>2. CASE ~Live(g)
  BY <1>2 DEF ProceedTurn
<1> QED
  BY <1>1, <1>2

(* FeedInv is inductive: a game can be played on, or reported as open,     *)
(* only by the holder of its token, which is not the handler that gave it  *)
(* up.                                                                     *)
LEMMA FeedStep ==
  ASSUME TypeOK, TokenInv, FeedInv, [Next]_vars
  PROVE  FeedInv'
<1>a. OneToken /\ Untouched
  BY DEF TokenInv
<1>b. /\ \A t \in reporting : t.g \in Games
      /\ \A m \in responses : m.ask.g \in Games
  BY DEF TypeOK, Reporting, Response, Ask
<1>c. \A g \in Games : ClosedOnceTold(g) /\ FinalMessages(g)
  BY DEF FeedInv
<1>d. ASSUME NEW g \in Games, Elsewhere(g), UNCHANGED <<feed, reporting>>,
             table'[g].phase = "open" => table[g].phase = "open"
      PROVE  FeedInv'
  <2>1. (ClosedOnceTold(g) /\ FinalMessages(g))'
    BY <1>c, <1>d DEF ClosedOnceTold, FinalMessages, Told
  <2> QED
    BY <1>d, <2>1, FeedElsewhere
<1>1. ASSUME NEW g \in Games, AcceptGame(g)
      PROVE  FeedInv'
  <2>1. Broadcast(g, BoardReport("open"), {}, FALSE)
    BY <1>1 DEF AcceptGame
  <2>2. BoardReport("open") \in Report /\ ~BoardReport("open").finished
    BY DEF BoardReport, Report
  <2>3. ~Told(g)
    BY <1>1, <1>a DEF AcceptGame, Untouched, Told
  <2> HIDE DEF BoardReport
  <2>4. PICK rec : /\ reporting' = reporting \cup {rec}
                   /\ Told(g)' => Told(g) \/ BoardReport("open").finished
                   /\ FinalMessages(g) /\ ~Told(g) => FinalMessages(g)'
    BY <2>1, <2>2, BroadcastFeed
  <2>5. (ClosedOnceTold(g) /\ FinalMessages(g))'
    BY <1>c, <2>2, <2>3, <2>4 DEF ClosedOnceTold
  <2>6. Elsewhere(g)
    BY <1>1, Local
  <2> QED
    BY <2>4, <2>5, <2>6, FeedElsewhere
<1>2. ASSUME NEW m \in responses, PlayAnswer(m)
      PROVE  FeedInv'
  <2> DEFINE g == m.ask.g
  <2>1. PICK phase \in PhasesAfter(g) :
          /\ table' = [table EXCEPT ![g] = AfterMove(@, phase)]
          /\ Broadcast(g, BoardReport(phase), {m}, phase = "over")
    BY <1>2 DEF PlayAnswer
  <2>2. /\ table[g].phase = "over" => phase = "over"
        /\ table[g].phase \in {"open", "over"}
    BY <1>2, <2>1 DEF PlayAnswer, HasMove, PhasesAfter
  <2>3. table'[g].phase = phase
    BY <1>b, <2>1 DEF TypeOK, Entry, AfterMove
  <2>4. /\ BoardReport(phase) \in Report
        /\ BoardReport(phase).finished = (phase # "open")
    BY DEF BoardReport, Report
  <2>5. \A t \in reporting : t.g # g
    BY <1>a, Alone DEF Only
  <2>6. table[g].phase = "open" => ~Told(g)
    BY <1>b, <1>c, <2>5 DEF ClosedOnceTold
  <2>7. g \in Games /\ Elsewhere(g)
    BY <1>2, <1>b, Local DEF HandleResponse
  <2> HIDE DEF BoardReport, g
  <2>8. PICK rec : /\ reporting' = reporting \cup {rec}
                   /\ Told(g)' => Told(g) \/ BoardReport(phase).finished
                   /\ FinalMessages(g) /\ (BoardReport(phase).finished \/ ~Told(g))
                        => FinalMessages(g)'
    BY <2>1, <2>4, <2>7, BroadcastFeed
  <2>9. (ClosedOnceTold(g) /\ FinalMessages(g))'
    BY <1>c, <2>2, <2>3, <2>4, <2>6, <2>7, <2>8 DEF ClosedOnceTold
  <2> QED
    BY <2>7, <2>8, <2>9, FeedElsewhere
<1>3. ASSUME NEW m \in responses, FailGame(m)
      PROVE  FeedInv'
  <2> DEFINE g == m.ask.g
  <2>1. /\ Broadcast(g, FailureReport, {m}, TRUE) /\ UNCHANGED table
        /\ FailureReport \in Report /\ FailureReport.finished
    BY <1>3 DEF FailGame, FailureReport, Report
  <2>2. g \in Games /\ Elsewhere(g)
    BY <1>3, <1>b, Local DEF HandleResponse
  <2> HIDE DEF g
  <2>3. PICK report \in Report :
          report.finished /\ Broadcast(g, report, {m}, TRUE)
    BY <2>1
  <2>4. PICK rec : /\ reporting' = reporting \cup {rec}
                   /\ rec.g = g /\ rec.ends
                   /\ rec.sent = FALSE => (Told(g)' => Told(g))
                   /\ rec.sent \in BOOLEAN
                   /\ FinalMessages(g) /\ (report.finished \/ ~Told(g))
                        => FinalMessages(g)'
    BY <2>2, <2>3, BroadcastFeed
  <2>5. (ClosedOnceTold(g) /\ FinalMessages(g))'
    BY <1>c, <2>1, <2>2, <2>3, <2>4 DEF ClosedOnceTold
  <2> QED
    BY <2>2, <2>4, <2>5, FeedElsewhere
<1>4. ASSUME NEW m \in responses,
             IgnoreAnswer(m) \/ ResumeAfterLoad(m) \/ OrphanResponse(m)
      PROVE  FeedInv'
  <2>1. m.ask.g \in Games /\ Elsewhere(m.ask.g)
    BY <1>4, <1>b, Local DEF HandleResponse
  <2>2. UNCHANGED <<feed, reporting>>
    BY <1>4 DEF IgnoreAnswer, ResumeAfterLoad, OrphanResponse
  <2>3. UNCHANGED table \/ ProceedTurn(m.ask.g, {m})
    BY <1>4 DEF IgnoreAnswer, ResumeAfterLoad, OrphanResponse
  <2>4. UNCHANGED table[m.ask.g].phase
    BY <2>1, <2>3, ProceedTurnPhase
  <2> QED
    BY <1>d, <2>1, <2>2, <2>4
<1>5. ASSUME NEW t \in reporting, Reported(t) \/ ReportRaised(t)
      PROVE  FeedInv'
  <2> DEFINE g == t.g
  <2>1. g \in Games /\ Elsewhere(g)
    BY <1>5, <1>b, Local
  <2>2. reporting' = reporting \ {t} /\ UNCHANGED feed
    BY <1>5 DEF Reported, ReportRaised
  <2>3. \A u \in reporting : u.g = g => u = t
    BY <1>a, Alone DEF Only
  <2>4. \/ t.ends /\ table' = [table EXCEPT ![g] = NoEntry]
        \/ ~t.ends /\ ProceedTurn(g, t.from)
        \/ ~t.sent /\ UNCHANGED table
    BY <1>5 DEF Reported, ReportRaised
  <2>5. \/ table'[g].phase = "absent"
        \/ /\ ~(t.ends /\ t.sent)
           /\ UNCHANGED table[g].phase
    <3>1. CASE table' = [table EXCEPT ![g] = NoEntry]
      BY <2>1, <3>1 DEF TypeOK, NoEntry
    <3>2. CASE ~t.ends /\ ProceedTurn(g, t.from)
      BY <2>1, <3>2, ProceedTurnPhase
    <3> QED
      BY <2>4, <3>1, <3>2
  <2>6. (ClosedOnceTold(g) /\ FinalMessages(g))'
    BY <1>c, <2>1, <2>2, <2>3, <2>5 DEF ClosedOnceTold, FinalMessages, Told
  <2> QED
    BY <2>1, <2>2, <2>6, FeedElsewhere
<1>6. ASSUME NEW t \in asking,
             RequestRouted(t) \/ RequestReturned(t) \/ RequestRaised(t)
      PROVE  FeedInv'
  <2>1. UNCHANGED <<feed, reporting, table>>
    BY <1>6 DEF RequestRouted, RequestReturned, RequestRaised
  <2> QED
    BY <2>1 DEF FeedInv, ClosedOnceTold, FinalMessages, Told
<1>7. CASE AIServers \/ UNCHANGED vars
  <2>1. UNCHANGED <<feed, reporting, table>>
    BY <1>7 DEF AIServers, ServeInference, ServeLoad, vars
  <2> QED
    BY <2>1 DEF FeedInv, ClosedOnceTold, FinalMessages, Told
<1> QED
  BY <1>1, <1>2, <1>3, <1>4, <1>5, <1>6, <1>7 DEF Next, HandleResponse, Resume

(* A client that saw a final message sees no other kind afterwards, however*)
(* many publications raise, as long as one AI server answers.              *)
THEOREM FinalIsFinal ==
  ASSUME OneServer
  PROVE  Spec => []FinishedForGood
<1>1. Init => FeedInv
  <2> SUFFICES ASSUME Init
               PROVE  FeedInv
    OBVIOUS
  <2>1. \A g \in Games : feed[g] \in Seq(Report) /\ Len(feed[g]) = 0
    BY InitType DEF Init, TypeOK
  <2>2. \A g \in Games : \A i \in DOMAIN feed[g] : FALSE
    BY <2>1
  <2> QED
    BY <2>2 DEF FeedInv, ClosedOnceTold, FinalMessages, Told
<1>2. TypeOK /\ TokenInv /\ FeedInv /\ [Next]_vars => FeedInv'
  BY FeedStep
<1>3. FeedInv => FinishedForGood
  BY DEF FeedInv, FinalMessages, FinishedForGood
<1>4. Spec => []TokenInv
  BY TokenAlways
<1> QED
  BY <1>1, <1>2, <1>3, <1>4, TypeCorrect, PTL DEF Spec

-----------------------------------------------------------------------------
(***************************************************************************)
(* The moves are those of a match, as long as no publication raised.       *)
(***************************************************************************)
OnTheWay ==
  {t.ask : t \in asking} \cup {e.ask : e \in inbox} \cup loads
    \cup {m.ask : m \in responses}

(* A request on the way, or answered, is the pending one of its game, for  *)
(* the model whose turn it is, and newer than those that have been played. *)
IsPending(ask) ==
  LET g == ask.g IN
  /\ table[g].phase \in {"open", "late"}
  /\ table[g].pending = {ask}
  /\ ask.id = asked[g]
  /\ ask.model = models[g][table[g].seat]
  /\ \A i \in DOMAIN played[g] : played[g][i].ask.id < asked[g]

(* Ids of answered requests increase; the two notions of whose turn it is  *)
(* agree with each other and with the moves made; the seats alternate.     *)
MovesOK(g) ==
  /\ \A i \in DOMAIN played[g] :
       /\ played[g][i].ask.id <= asked[g]
       /\ played[g][i].player = (i - 1) % 2
       /\ played[g][i].ask.model = models[g][(i - 1) % 2]
  /\ \A i, j \in DOMAIN played[g] :
       i < j => played[g][i].ask.id < played[g][j].ask.id
  /\ table[g].phase \in {"open", "late"} =>
       table[g].seat = table[g].player /\ table[g].seat = Len(played[g]) % 2

(* A decided game ends with the publication under way.                     *)
GameOK(g) ==
  failures[g] = 0 =>
    /\ \A ask \in OnTheWay : ask.g = g => IsPending(ask)
    /\ \A t \in reporting : t.g = g /\ table[g].phase = "over" => t.ends
    /\ MovesOK(g)

GameInv == \A g \in Games : GameOK(g)

(* A step changes nothing for the games it does not concern.               *)
LEMMA GameElsewhere ==
  ASSUME GameInv, NEW g, Elsewhere(g), UNCHANGED models,
         \A ask \in OnTheWay' : ask.g # g => ask \in OnTheWay,
         \A t \in reporting' : t.g # g => t \in reporting,
         g \in Games => GameOK(g)'
  PROVE  GameInv'
<1>1. ASSUME NEW h \in Games \ {g}
      PROVE  GameOK(h)'
  <2>1. UNCHANGED <<table[h], asked[h], played[h], failures[h], models[h]>>
    BY DEF Elsewhere
  <2>2. GameOK(h)
    BY DEF GameInv
  <2>3. MovesOK(h) => MovesOK(h)'
    BY <2>1 DEF MovesOK
  <2>4. \A ask : ask.g = h /\ IsPending(ask) => IsPending(ask)'
    BY <2>1 DEF IsPending
  <2> QED
    BY <2>1, <2>2, <2>3, <2>4 DEF GameOK
<1> QED
  BY <1>1 DEF GameInv

(* Steps that only hand requests and responses on.                         *)
LEMMA HandOnStep ==
  ASSUME GameInv, UNCHANGED <<models, table, asked, played>>,
         \A h \in Games : failures'[h] = 0 => failures[h] = 0,
         \A t \in reporting' : t \in reporting \/ t.ends,
         \A ask \in OnTheWay' : ask \in OnTheWay \/ failures'[ask.g] # 0
  PROVE  GameInv'
<1>1. ASSUME NEW h \in Games, failures'[h] = 0
      PROVE  GameOK(h)'
  <2>1. failures[h] = 0 /\ GameOK(h)
    BY <1>1 DEF GameInv
  <2>2. UNCHANGED MovesOK(h) /\ \A ask : UNCHANGED IsPending(ask)
    BY DEF MovesOK, IsPending
  <2> QED
    BY <1>1, <2>1, <2>2 DEF GameOK
<1>2. \A h \in Games : failures'[h] # 0 => GameOK(h)'
  BY DEF GameOK
<1> QED
  BY <1>1, <1>2 DEF GameInv

(* An element of a sequence is of the sequence's type.                     *)
LEMMA ElementType ==
  ASSUME NEW S, NEW seq \in Seq(S), NEW i \in DOMAIN seq
  PROVE  seq[i] \in S
OBVIOUS

(* What played holds: moves, of numbered requests.                         *)
LEMMA PlayedType ==
  ASSUME TypeOK, NEW g \in Games
  PROVE  /\ played[g] \in Seq([player : Seat, ask : Ask])
         /\ \A i \in DOMAIN played[g] : played[g][i].ask.id \in Nat
         /\ Len(played[g]) \in Nat
<1>1. played[g] \in Seq([player : Seat, ask : Ask])
  BY DEF TypeOK
<1>2. \A i \in DOMAIN played[g] : played[g][i] \in [player : Seat, ask : Ask]
  BY <1>1, ElementType, Zenon
<1>3. \A i \in DOMAIN played[g] : played[g][i].ask \in Ask
  BY <1>2
<1>4. \A S : \A seq \in Seq(S) : Len(seq) \in Nat
  OBVIOUS
<1>5. Len(played[g]) \in Nat
  BY <1>1, <1>4, Zenon
<1> QED
  BY <1>1, <1>3, <1>5 DEF Ask

(* proceed_turn for a game that is open or late: its request is the next.  *)
LEMMA ProceedingGame ==
  ASSUME TypeOK, NEW g \in Games, NEW from, ProceedTurn(g, from),
         UNCHANGED <<models, played, failures>>, failures[g] = 0 => MovesOK(g),
         failures[g] = 0 => table[g].phase \in {"absent", "open", "late"},
         \A ask \in OnTheWay' : ask.g = g => \E t \in asking' : ask = t.ask,
         \A t \in asking : t.ask.g # g
  PROVE  GameOK(g)'
<1> SUFFICES ASSUME failures[g] = 0
             PROVE  GameOK(g)'
  BY DEF GameOK
<1>1. CASE ~Live(g)
  <2>1. UNCHANGED <<table, asked, asking>>
    BY <1>1 DEF ProceedTurn
  <2>2. \A ask \in OnTheWay' : ask.g # g
    BY <2>1
  <2>3. table'[g].phase # "over" /\ MovesOK(g)'
    BY <1>1, <2>1 DEF MovesOK, Live
  <2> QED
    BY <2>2, <2>3 DEF GameOK
<1>2. CASE Live(g)
  <2>1. PICK rec :
          /\ asking' = asking \cup {rec} /\ rec.ask.g = g
          /\ rec.ask.id = asked[g] + 1
          /\ rec.ask.model = models[g][table[g].seat]
          /\ asked' = [asked EXCEPT ![g] = @ + 1]
          /\ table' = [table EXCEPT ![g].pending = {rec.ask}]
    BY <1>2, ProceedTurnRecord
  <2>2. /\ asked'[g] = asked[g] + 1 /\ asked[g] \in Nat
        /\ table'[g].pending = {rec.ask}
        /\ UNCHANGED <<table[g].phase, table[g].seat, table[g].player>>
    BY <2>1 DEF TypeOK, Entry
  <2>3. table[g].phase \in {"open", "late"}
    BY <1>2 DEF Live
  <2>4. \A i \in DOMAIN played[g] : played[g][i].ask.id \in Nat
    BY PlayedType
  <2>5. MovesOK(g)
    OBVIOUS
  <2>6. \A i \in DOMAIN played[g] : played[g][i].ask.id < asked'[g]
    BY <2>2, <2>4, <2>5 DEF MovesOK
  <2>7. MovesOK(g)'
    <3>1. \A i \in DOMAIN played[g] : played[g][i].ask.id <= asked'[g]
      BY <2>2, <2>4, <2>6
    <3>2. UNCHANGED <<played[g], models[g], table[g].phase, table[g].seat,
                      table[g].player>>
      BY <2>2
    <3> QED
      BY <2>5, <3>1, <3>2 DEF MovesOK
  <2>8. \A ask \in OnTheWay' : ask.g = g => ask = rec.ask
    BY <2>1
  <2>9. IsPending(rec.ask)'
    BY <2>1, <2>2, <2>3, <2>6 DEF IsPending
  <2> QED
    BY <2>2, <2>3, <2>7, <2>8, <2>9 DEF GameOK
<1> QED
  BY <1>1, <1>2

(* The other seat is the one after the next number of moves.               *)
LEMMA Parity ==
  ASSUME NEW n \in Nat
  PROVE  Other(n % 2) = (n + 1) % 2 /\ (n + 1) - 1 = n
BY DEF Other

(* The pending answer is the next move of the match.                       *)
LEMMA PlayedMove ==
  ASSUME TypeOK, NEW g \in Games, NEW ask, ask.g = g, IsPending(ask),
         MovesOK(g), table[g].phase = "open", NEW phase \in Verdict,
         table' = [table EXCEPT ![g] = AfterMove(@, phase)],
         played' = [played EXCEPT
           ![g] = Append(@, [player |-> table[g].player, ask |-> ask])],
         UNCHANGED <<models, asked>>
  PROVE  MovesOK(g)' /\ table'[g].phase = phase
<1> DEFINE n == Len(played[g])
           move == [player |-> table[g].player, ask |-> ask]
<1>1. table[g] \in Entry /\ table[g].seat \in Seat /\ table[g].player \in Seat
  BY DEF TypeOK, Entry
<1>2. /\ table'[g].phase = phase
      /\ table'[g].seat = Other(table[g].seat)
      /\ phase # "over" => table'[g].player = Other(table[g].player)
  <2>1. table'[g] = AfterMove(table[g], phase)
    BY DEF TypeOK
  <2> DEFINE player == IF phase = "over" THEN table[g].player
                                         ELSE Other(table[g].player)
  <2>2. AfterMove(table[g], phase) =
          [table[g] EXCEPT !.phase = phase, !.turn = @ + 1,
                           !.seat = Other(@), !.player = player]
    BY DEF AfterMove
  <2>3. phase # "over" => player = Other(table[g].player)
    OBVIOUS
  <2> HIDE DEF player
  <2>4. /\ table'[g].phase = phase
        /\ table'[g].seat = Other(table[g].seat)
        /\ table'[g].player = player
    BY <1>1, <2>1, <2>2 DEF Entry
  <2> QED
    BY <2>3, <2>4
<1>3. played[g] \in Seq([player : Seat, ask : Ask]) /\ n \in Nat
  BY PlayedType
<1>n. n \in Nat
  BY <1>3
<1>4. played'[g] = Append(played[g], move)
  BY DEF TypeOK
<1>5. move.player = table[g].player /\ move.ask = ask
  OBVIOUS
<1> HIDE DEF move
<1>6. /\ DOMAIN played[g] = 1 .. n /\ DOMAIN played'[g] = 1 .. n + 1
      /\ played'[g][n + 1] = move /\ Len(played'[g]) = n + 1
      /\ \A i \in 1 .. n : played'[g][i] = played[g][i]
  BY <1>3, <1>4
<1>7. /\ table[g].seat = n % 2 /\ table[g].player = n % 2
      /\ ask.id = asked[g] /\ asked[g] \in Nat
      /\ ask.model = models[g][table[g].seat]
      /\ \A i \in 1 .. n : played[g][i].ask.id < asked[g]
      /\ \A i \in 1 .. n : played[g][i].ask.id \in Nat
  BY <1>6, PlayedType DEF IsPending, MovesOK, TypeOK
<1>8. Other(n % 2) = (n + 1) % 2 /\ (n + 1) - 1 = n
  BY <1>n, Parity
<1> HIDE DEF n
<1>9. \A i \in DOMAIN played'[g] :
        /\ played'[g][i].ask.id <= asked'[g]
        /\ played'[g][i].player = (i - 1) % 2
        /\ played'[g][i].ask.model = models'[g][(i - 1) % 2]
  <2> SUFFICES ASSUME NEW i \in 1 .. n + 1
               PROVE  /\ played'[g][i].ask.id <= asked[g]
                      /\ played'[g][i].player = (i - 1) % 2
                      /\ played'[g][i].ask.model = models[g][(i - 1) % 2]
    BY <1>6
  <2>1. CASE i = n + 1
    BY <2>1, <1>5, <1>6, <1>7, <1>8
  <2>2. CASE i \in 1 .. n
    BY <2>2, <1>6 DEF MovesOK
  <2>3. i = n + 1 \/ i \in 1 .. n
    BY <1>n
  <2> QED
    BY <2>1, <2>2, <2>3
<1>10. \A i, j \in DOMAIN played'[g] :
         i < j => played'[g][i].ask.id < played'[g][j].ask.id
  <2> SUFFICES ASSUME NEW i \in 1 .. n + 1, NEW j \in 1 .. n + 1, i < j
               PROVE  played'[g][i].ask.id < played'[g][j].ask.id
    BY <1>6
  <2>1. i \in 1 .. n
    BY <1>n
  <2>2. CASE j = n + 1
    BY <2>1, <2>2, <1>5, <1>6, <1>7
  <2>3. CASE j \in 1 .. n
    BY <2>1, <2>3, <1>6 DEF MovesOK
  <2>4. j = n + 1 \/ j \in 1 .. n
    BY <1>n
  <2> QED
    BY <2>2, <2>3, <2>4
<1>11. phase \in {"open", "late"} =>
         /\ table'[g].seat = table'[g].player
         /\ table'[g].seat = Len(played'[g]) % 2
  <2>1. Len(played'[g]) % 2 = Other(n % 2)
    BY <1>6, <1>8
  <2>2. table[g].seat = n % 2 /\ table[g].player = n % 2
    BY <1>7
  <2>3. /\ table'[g].seat = Other(n % 2)
        /\ phase # "over" => table'[g].player = Other(n % 2)
    BY <1>2, <2>2
  <2> QED
    BY <2>1, <2>3
<1> QED
  BY <1>2, <1>9, <1>10, <1>11 DEF MovesOK

(* A publication that raised stays counted.                                *)
LEMMA FailuresGrow ==
  ASSUME TypeOK, [Next]_vars
  PROVE  \A h \in Games : failures'[h] = 0 => failures[h] = 0
<1>1. ASSUME NEW g, failures' = [failures EXCEPT ![g] = @ + 1]
      PROVE  \A h \in Games : failures'[h] = 0 => failures[h] = 0
  BY <1>1 DEF TypeOK
<1>2. \/ UNCHANGED failures
      \/ \E g : failures' = [failures EXCEPT ![g] = @ + 1]
  BY DEF Next, HandleResponse, Resume, AIServers, AcceptGame, PlayAnswer,
     FailGame, IgnoreAnswer, ResumeAfterLoad, OrphanResponse, Reported,
     ReportRaised, RequestRouted, RequestReturned, RequestRaised,
     ServeInference, ServeLoad, Broadcast, vars
<1> QED
  BY <1>1, <1>2

(* A response that is put back still answers the same request.             *)
LEMMA RequeuedAsks ==
  ASSUME NEW from \in SUBSET Response, NEW n \in Requeued(from)
  PROVE  \E m \in from : n.ask = m.ask
<1>1. PICK m \in from : n = [m EXCEPT !.redelivered = TRUE]
  BY DEF Requeued
<1>2. n.ask = m.ask
  BY <1>1 DEF Response
<1> QED
  BY <1>2

(* A new request is for the game whose turn is requested.                  *)
ProceededAsks(g) ==
  asking \subseteq asking' /\ \A t \in asking' \ asking : t.ask.g = g

(* The request proceed_turn adds is for its game.                          *)
LEMMA ProceedTurnAsks ==
  ASSUME TypeOK, NEW g \in Games, NEW from, ProceedTurn(g, from)
  PROVE  ProceededAsks(g)
<1>1. CASE Live(g)
  BY <1>1, ProceedTurnRecord DEF ProceededAsks
<1>2. CASE ~Live(g)
  BY <1>2 DEF ProceedTurn, ProceededAsks
<1> QED
  BY <1>1, <1>2

(* GameInv is inductive: as the token of a game is unique, the request it  *)
(* carries is the last one that was drawn up, for the seat whose turn it   *)
(* still is.                                                               *)
LEMMA GameStep ==
  ASSUME TypeOK, TypeOK', RaisedIsCounted, TokenInv, GameInv, [Next]_vars
  PROVE  GameInv'
<1>a. OneToken /\ OneFrom /\ Untouched
  BY DEF TokenInv
<1>b. /\ \A t \in reporting : t.g \in Games /\ t.from \in SUBSET Response
      /\ \A m \in responses : m.ask.g \in Games
      /\ \A t \in asking : t.ask.g \in Games /\ t.from \in SUBSET Response
  BY DEF TypeOK, Reporting, Asking, Response, Ask
<1>c. UNCHANGED models
  BY DEF Next, HandleResponse, Resume, AIServers, AcceptGame, PlayAnswer,
     FailGame, IgnoreAnswer, ResumeAfterLoad, OrphanResponse, Reported,
     ReportRaised, RequestRouted, RequestReturned, RequestRaised,
     ServeInference, ServeLoad, fixed, vars
<1>d. \A h \in Games : failures'[h] = 0 => failures[h] = 0
  BY FailuresGrow
<1>e. \A m \in responses : m.ask \in OnTheWay
  BY DEF OnTheWay
<1>1. ASSUME NEW g \in Games, AcceptGame(g)
      PROVE  GameInv'
  <2>1. PICK rec : reporting' = reporting \cup {rec} /\ rec.g = g
    <3>1. \E report, ends : Broadcast(g, report, {}, ends)
      BY <1>1 DEF AcceptGame
    <3> QED
      BY <3>1, BroadcastRecord
  <2>2. /\ UNCHANGED <<asking, inbox, loads, responses, asked, played>>
        /\ table' = [table EXCEPT ![g] = NewEntry]
        /\ g \in requests /\ asked[g] = 0 /\ played[g] = <<>>
    BY <1>1, <1>a DEF AcceptGame, Untouched
  <2>3. UNCHANGED OnTheWay
    BY <2>2 DEF OnTheWay
  <2>4. \A ask \in OnTheWay : ask.g # g
    <3>1. \A k, at : Token(k, g, at) \notin Tokens
      BY <1>a, <2>2, TokenFields DEF Untouched
    <3> QED
      BY <3>1 DEF OnTheWay, Tokens
  <2>5. table'[g].phase = "open" /\ table'[g].seat = 0 /\ table'[g].player = 0
    BY <2>2 DEF TypeOK, NewEntry, NoEntry
  <2>6. \A i \in DOMAIN played'[g] : FALSE
    <3>1. played'[g] \in Seq([player : Seat, ask : Ask]) /\ Len(played'[g]) = 0
      BY <2>2, PlayedType
    <3> QED
      BY <3>1
  <2>7. Len(played'[g]) % 2 = 0
    BY <2>2
  <2>8. GameOK(g)'
    BY <2>3, <2>4, <2>5, <2>6, <2>7 DEF GameOK, MovesOK
  <2>9. Elsewhere(g)
    BY <1>1, Local
  <2> QED
    BY <1>c, <2>1, <2>3, <2>8, <2>9, GameElsewhere
<1>2. ASSUME NEW m \in responses, PlayAnswer(m)
      PROVE  GameInv'
  <2> DEFINE g == m.ask.g
             move == [player |-> table[g].player, ask |-> m.ask]
  <2>1. PICK phase \in PhasesAfter(g) :
          /\ table' = [table EXCEPT ![g] = AfterMove(@, phase)]
          /\ Broadcast(g, BoardReport(phase), {m}, phase = "over")
    BY <1>2 DEF PlayAnswer
  <2>2. /\ played' = [played EXCEPT ![g] = Append(@, move)]
        /\ UNCHANGED <<asking, inbox, loads, asked>>
        /\ responses' = responses \ {m}
        /\ table[g].phase \in {"open", "over"}
    BY <1>2 DEF PlayAnswer, HasMove
  <2>3. phase \in Verdict
    BY GMAssumption DEF PhasesAfter, GMAssumption, Verdict
  <2>4. g \in Games /\ Elsewhere(g)
    BY <1>2, <1>b, Local DEF HandleResponse
  <2>5. Only(g, {}, {}, {}, {}, {m})
    BY <1>a, Alone
  <2>6. PICK rec : /\ reporting' = reporting \cup {rec} /\ rec.g = g
                   /\ rec.ends = (phase = "over")
    BY <2>1, <2>4, BroadcastRecord
  <2>7. OnTheWay' \subseteq OnTheWay /\ \A ask \in OnTheWay' : ask.g # g
    BY <2>2, <2>5 DEF OnTheWay, Only
  <2>8. ASSUME failures'[g] = 0
        PROVE  GameOK(g)'
    <3>1. IsPending(m.ask) /\ MovesOK(g)
      BY <1>d, <1>e, <2>4, <2>8 DEF GameInv, GameOK
    <3>2. table[g].phase = "open"
      BY <2>2, <3>1 DEF IsPending
    <3> HIDE DEF g
    <3>3. m.ask.g = g
      BY DEF g
    <3>4. MovesOK(g)' /\ table'[g].phase = phase
      BY <1>c, <2>1, <2>2, <2>3, <2>4, <3>1, <3>2, <3>3, PlayedMove
    <3>5. \A t \in reporting' : t.g = g => t = rec
      BY <2>5, <2>6 DEF Only
    <3> QED
      BY <2>6, <2>7, <3>4, <3>5 DEF GameOK
  <2>9. GameOK(g)'
    BY <2>8 DEF GameOK
  <2> HIDE DEF g
  <2> QED
    BY <1>c, <2>4, <2>6, <2>7, <2>9, GameElsewhere
<1>3. ASSUME NEW m \in responses, FailGame(m)
      PROVE  GameInv'
  <2>1. /\ Broadcast(m.ask.g, FailureReport, {m}, TRUE)
        /\ UNCHANGED <<table, asked, played, asking, inbox, loads>>
        /\ responses' = responses \ {m}
    BY <1>3 DEF FailGame
  <2>2. \A t \in reporting' : t \in reporting \/ t.ends
    BY <2>1 DEF Broadcast
  <2>3. OnTheWay' \subseteq OnTheWay
    BY <2>1 DEF OnTheWay
  <2> QED
    BY <1>c, <1>d, <2>1, <2>2, <2>3, HandOnStep
<1>4. ASSUME NEW m \in responses, IgnoreAnswer(m) \/ OrphanResponse(m)
      PROVE  GameInv'
  <2>1. /\ UNCHANGED <<table, asked, played, reporting, asking, inbox, loads>>
        /\ \/ responses' = responses \ {m}
           \/ responses' = (responses \ {m}) \cup Requeued({m})
    BY <1>4 DEF IgnoreAnswer, OrphanResponse
  <2>2. \A n \in Requeued({m}) : n.ask = m.ask
    <3>1. {m} \in SUBSET Response
      BY DEF TypeOK
    <3> QED
      BY <3>1, RequeuedAsks
  <2>3. OnTheWay' \subseteq OnTheWay
    BY <2>1, <2>2 DEF OnTheWay
  <2> QED
    BY <1>c, <1>d, <2>1, <2>3, HandOnStep
<1>5. ASSUME NEW m \in responses, ResumeAfterLoad(m)
      PROVE  GameInv'
  <2> DEFINE g == m.ask.g
  <2>1. /\ ProceedTurn(g, {m}) /\ responses' = responses \ {m}
        /\ UNCHANGED <<reporting, inbox, loads, played, failures>>
    BY <1>5 DEF ResumeAfterLoad
  <2>2. g \in Games /\ Elsewhere(g)
    BY <1>5, <1>b, Local DEF HandleResponse
  <2>3. Only(g, {}, {}, {}, {}, {m})
    BY <1>a, Alone
  <2>4. failures[g] = 0 => MovesOK(g) /\ table[g].phase \in {"open", "late"}
    BY <1>e, <2>2 DEF GameInv, GameOK, IsPending
  <2>5. ProceededAsks(g)
    BY <2>1, <2>2, ProceedTurnAsks
  <2>6. /\ \A ask \in OnTheWay' : ask.g # g => ask \in OnTheWay
        /\ \A ask \in OnTheWay' : ask.g = g => \E t \in asking' : ask = t.ask
        /\ \A t \in asking : t.ask.g # g
    BY <2>1, <2>3, <2>5 DEF OnTheWay, Only, ProceededAsks
  <2> HIDE DEF g
  <2>7. GameOK(g)'
    BY <1>c, <2>1, <2>2, <2>4, <2>6, ProceedingGame
  <2> QED
    BY <1>c, <2>1, <2>2, <2>6, <2>7, GameElsewhere
<1>6. ASSUME NEW t \in reporting, Reported(t)
      PROVE  GameInv'
  <2> DEFINE g == t.g
  <2>1. /\ reporting' = reporting \ {t}
        /\ UNCHANGED <<responses, inbox, loads, played, failures>>
    BY <1>6 DEF Reported
  <2>2. g \in Games /\ Elsewhere(g)
    BY <1>6, <1>b, Local
  <2>3. Only(g, {t}, {}, {}, {}, {})
    BY <1>a, Alone
  <2>4. \A u \in reporting' : u.g # g
    BY <2>1, <2>3 DEF Only
  <2>5. CASE t.ends
    <3>1. UNCHANGED <<asked, asking>> /\ table' = [table EXCEPT ![g] = NoEntry]
      BY <1>6, <2>5 DEF Reported
    <3>2. UNCHANGED OnTheWay /\ \A ask \in OnTheWay : ask.g # g
      BY <2>1, <2>3, <3>1 DEF OnTheWay, Only
    <3>3. table'[g].phase = "absent"
      BY <2>2, <3>1 DEF TypeOK, NoEntry
    <3>4. GameOK(g)'
      <4>1. GameOK(g)
        BY <2>2 DEF GameInv
      <4>2. MovesOK(g) => MovesOK(g)'
        BY <1>c, <2>1, <3>1, <3>3 DEF MovesOK
      <4> QED
        BY <2>1, <2>4, <3>2, <4>1, <4>2 DEF GameOK
    <3> HIDE DEF g
    <3> QED
      BY <1>c, <2>1, <2>2, <3>2, <3>4, GameElsewhere
  <2>6. CASE ~t.ends
    <3>1. ProceedTurn(g, t.from)
      BY <1>6, <2>6 DEF Reported
    <3>2. ProceededAsks(g)
      BY <2>2, <3>1, ProceedTurnAsks
    <3>3. /\ \A ask \in OnTheWay' : ask.g # g => ask \in OnTheWay
          /\ \A ask \in OnTheWay' : ask.g = g => \E u \in asking' : ask = u.ask
          /\ \A u \in asking : u.ask.g # g
      BY <2>1, <2>3, <3>2 DEF OnTheWay, Only, ProceededAsks
    <3>4. failures[g] = 0 => MovesOK(g) /\ table[g].phase # "over"
      BY <2>2, <2>6 DEF GameInv, GameOK
    <3>5. table[g].phase \in {"absent", "open", "late", "over"}
      BY <2>2 DEF TypeOK, Entry, Verdict
    <3> HIDE DEF g
    <3>6. GameOK(g)'
      BY <1>c, <2>1, <2>2, <3>1, <3>3, <3>4, <3>5, ProceedingGame
    <3> QED
      BY <1>c, <2>1, <2>2, <3>3, <3>6, GameElsewhere
  <2> QED
    BY <2>5, <2>6
<1>7. ASSUME NEW t \in reporting, ReportRaised(t)
      PROVE  GameInv'
  <2>1. /\ UNCHANGED <<table, asked, played, asking, inbox, loads, failures>>
        /\ responses' = responses \cup Requeued(t.from)
        /\ reporting' = reporting \ {t} /\ ~t.sent
    BY <1>7 DEF ReportRaised
  <2>2. failures'[t.g] # 0
    BY <2>1 DEF RaisedIsCounted
  <2>3. \A n \in Requeued(t.from) : n.ask.g = t.g
    BY <1>a, <1>b, RequeuedAsks DEF OneFrom
  <2>4. \A ask \in OnTheWay' : ask \in OnTheWay \/ failures'[ask.g] # 0
    BY <2>1, <2>2, <2>3 DEF OnTheWay
  <2> QED
    BY <1>c, <1>d, <2>1, <2>4, HandOnStep
<1>8. ASSUME NEW t \in asking, RequestRouted(t) \/ RequestReturned(t)
      PROVE  GameInv'
  <2>1. /\ UNCHANGED <<table, asked, played, responses, reporting>>
        /\ asking' = asking \ {t}
        /\ \A e \in inbox' : e \in inbox \/ e.ask = t.ask
        /\ \A ask \in loads' : ask \in loads \/ ask = t.ask
    BY <1>8 DEF RequestRouted, RequestReturned
  <2>2. OnTheWay' \subseteq OnTheWay
    BY <2>1 DEF OnTheWay
  <2> QED
    BY <1>c, <1>d, <2>1, <2>2, HandOnStep
<1>9. ASSUME NEW t \in asking, RequestRaised(t)
      PROVE  GameInv'
  <2>1. /\ UNCHANGED <<table, asked, played, inbox, loads, reporting>>
        /\ responses' = responses \cup Requeued(t.from)
        /\ asking' = asking \ {t}
        /\ failures' = [failures EXCEPT ![t.ask.g] = @ + 1]
    BY <1>9 DEF RequestRaised
  <2>2. failures'[t.ask.g] # 0
    BY <1>b, <2>1 DEF TypeOK
  <2>3. \A n \in Requeued(t.from) : n.ask.g = t.ask.g
    BY <1>a, <1>b, RequeuedAsks DEF OneFrom
  <2>4. \A ask \in OnTheWay' : ask \in OnTheWay \/ failures'[ask.g] # 0
    BY <2>1, <2>2, <2>3 DEF OnTheWay
  <2> QED
    BY <1>c, <1>d, <2>1, <2>4, HandOnStep
<1>10. CASE AIServers
  <2>1. UNCHANGED <<table, asked, played, reporting, asking>>
    BY <1>10 DEF AIServers, ServeInference, ServeLoad
  <2>2. OnTheWay' \subseteq OnTheWay
    <3>1. ASSUME NEW e \in inbox, ServeInference(e)
          PROVE  OnTheWay' \subseteq OnTheWay
      <4>1. PICK m : /\ responses' = responses \cup {m} /\ m.ask = e.ask
                     /\ inbox' \subseteq inbox /\ UNCHANGED loads
        BY <3>1, AnswerAsk DEF ServeInference
      <4> QED
        BY <2>1, <4>1 DEF OnTheWay
    <3>2. ASSUME NEW s \in Servers, NEW ask \in loads, ServeLoad(s, ask)
          PROVE  OnTheWay' \subseteq OnTheWay
      <4>1. PICK m : /\ responses' = responses \cup {m} /\ m.ask = ask
                     /\ loads' \subseteq loads /\ UNCHANGED inbox
        BY <3>2, AnswerAsk DEF ServeLoad
      <4> QED
        BY <2>1, <4>1 DEF OnTheWay
    <3> QED
      BY <1>10, <3>1, <3>2 DEF AIServers
  <2> QED
    BY <1>c, <1>d, <2>1, <2>2, HandOnStep
<1>11. CASE UNCHANGED vars
  <2>1. UNCHANGED <<table, asked, played, reporting, OnTheWay>>
    BY <1>11 DEF vars, OnTheWay
  <2> QED
    BY <1>c, <1>d, <2>1, HandOnStep
<1> QED
  BY <1>1, <1>2, <1>3, <1>4, <1>5, <1>6, <1>7, <1>8, <1>9, <1>10, <1>11
     DEF Next, HandleResponse, Resume

(* With one AI server the moves are those of a match.                      *)
LEMMA GameAlways == OneServer => (Spec => []GameInv)
<1> SUFFICES ASSUME OneServer
             PROVE  Spec => []GameInv
  OBVIOUS
<1>1. Init => GameInv
  <2> SUFFICES ASSUME Init
               PROVE  GameInv
    OBVIOUS
  <2>1. OnTheWay = {} /\ reporting = {}
    BY DEF Init, OnTheWay
  <2>2. ASSUME NEW g \in Games
        PROVE  MovesOK(g)
    <3>1. played[g] \in Seq([player : Seat, ask : Ask]) /\ Len(played[g]) = 0
      BY InitType, PlayedType DEF Init
    <3>2. \A i \in DOMAIN played[g] : FALSE
      BY <3>1
    <3>3. table[g].phase = "absent"
      BY DEF Init, NoEntry
    <3> QED
      BY <3>2, <3>3 DEF MovesOK
  <2> QED
    BY <2>1, <2>2 DEF GameInv, GameOK
<1>2. TypeOK /\ TypeOK' /\ CarryInv /\ TokenInv /\ GameInv /\ [Next]_vars
        => GameInv'
  BY GameStep DEF CarryInv
<1>3. Spec => []TokenInv
  BY TokenAlways
<1> QED
  BY <1>1, <1>2, <1>3, TypeCorrect, Carrying, PTL DEF Spec

(* With one AI server no answer is played twice in a game for which no     *)
(* publication raised, whatever copies of load requests and responses are  *)
(* under way: the check against pending_request_id suffices.               *)
THEOREM AnswersPlayedOnce ==
  ASSUME OneServer
  PROVE  Spec => []AppliedOnce
<1>1. TypeOK /\ GameInv => AppliedOnce
  <2> SUFFICES ASSUME TypeOK, GameInv, NEW g \in Games, failures[g] = 0,
                      NEW i \in DOMAIN played[g], NEW j \in DOMAIN played[g],
                      played[g][i].ask = played[g][j].ask
               PROVE  i = j
    BY DEF AppliedOnce
  <2>1. \A k, l \in DOMAIN played[g] :
          k < l => played[g][k].ask.id < played[g][l].ask.id
    BY DEF GameInv, GameOK, MovesOK
  <2>2. DOMAIN played[g] = 1 .. Len(played[g]) /\ Len(played[g]) \in Nat
    <3>1. \A S : \A seq \in Seq(S) : DOMAIN seq = 1 .. Len(seq)
      OBVIOUS
    <3> QED
      BY <3>1, PlayedType, Zenon
  <2>3. played[g][i].ask.id \in Nat /\ ~(i < j) /\ ~(j < i)
    BY <2>1, PlayedType
  <2> QED
    BY <2>2, <2>3
<1>2. Spec => []GameInv
  BY GameAlways
<1> QED
  BY <1>1, <1>2, TypeCorrect, PTL

(* Every move is chosen by the model that sits where the board says it is  *)
(* the turn, although current_turn of the meta data and current_player of  *)
(* the board are advanced by different code.                               *)
THEOREM SeatsKept ==
  ASSUME OneServer
  PROVE  Spec => []SeatsKeepTheirModels
<1>1. GameInv => SeatsKeepTheirModels
  BY DEF GameInv, GameOK, MovesOK, SeatsKeepTheirModels
<1>2. Spec => []GameInv
  BY GameAlways
<1> QED
  BY <1>1, <1>2, PTL

-----------------------------------------------------------------------------
(***************************************************************************)
(* GameManager implements Match.                                           *)
(***************************************************************************)
NoFailures == \A g \in Games : failures[g] = 0

MovesOf(seq) == [i \in DOMAIN seq |-> seq[i].ask.model]
StatusMap == [g \in Games |-> Status(g)]
MovesMap == [g \in Games |-> MovesOf(played[g])]

(* What the variables of Match are mapped to.                              *)
LEMMA Mapping ==
  /\ Abstract!vars = <<models, StatusMap, MovesMap>>
  /\ Abstract!vars' = <<models', StatusMap', MovesMap'>>
BY DEF Abstract!vars, StatusMap, MovesMap, MovesOf

(* One more move: the sequence of models grows by its model.               *)
LEMMA MovesAppend ==
  ASSUME NEW S, NEW seq \in Seq(S), NEW x \in S
  PROVE  MovesOf(Append(seq, x)) = Append(MovesOf(seq), x.ask.model)
<1> DEFINE n == Len(seq)
           T == {seq[i].ask.model : i \in 1 .. n} \cup {x.ask.model}
           old == MovesOf(seq)
<1>1. /\ n \in Nat /\ DOMAIN seq = 1 .. n
      /\ DOMAIN Append(seq, x) = 1 .. n + 1
      /\ \A i \in 1 .. n : Append(seq, x)[i] = seq[i]
      /\ Append(seq, x)[n + 1] = x
  OBVIOUS
<1>2. old = [i \in 1 .. n |-> seq[i].ask.model]
  BY <1>1 DEF MovesOf
<1>3. \A i \in 1 .. n : seq[i].ask.model \in T
  OBVIOUS
<1>4. x.ask.model \in T
  OBVIOUS
<1> HIDE DEF n, T, old
<1>5. old \in Seq(T) /\ Len(old) = n /\ \A i \in 1 .. n : old[i] = seq[i].ask.model
  BY <1>1, <1>2, <1>3
<1>6. /\ DOMAIN Append(old, x.ask.model) = 1 .. n + 1
      /\ \A i \in 1 .. n : Append(old, x.ask.model)[i] = seq[i].ask.model
      /\ Append(old, x.ask.model)[n + 1] = x.ask.model
      /\ Append(old, x.ask.model) \in Seq(T)
  BY <1>1, <1>4, <1>5
<1>7. \A i \in 1 .. n + 1 :
        Append(seq, x)[i].ask.model = Append(old, x.ask.model)[i]
  BY <1>1, <1>6
<1>8. MovesOf(Append(seq, x)) =
        [i \in 1 .. n + 1 |-> Append(seq, x)[i].ask.model]
  BY <1>1 DEF MovesOf
<1>9. Append(old, x.ask.model) =
        [i \in 1 .. n + 1 |-> Append(old, x.ask.model)[i]]
  <2>1. \A seq2 \in Seq(T) : seq2 = [i \in DOMAIN seq2 |-> seq2[i]]
    OBVIOUS
  <2> QED
    BY <1>6, <2>1
<1>10. MovesOf(Append(seq, x)) = Append(old, x.ask.model)
  BY <1>7, <1>8, <1>9
<1> QED
  BY <1>10 DEF old

(* The mapping keeps the number of moves.                                  *)
LEMMA MovesLength ==
  ASSUME NEW S, NEW seq \in Seq(S)
  PROVE  Len(MovesOf(seq)) = Len(seq)
<1>1. DOMAIN seq = 1 .. Len(seq) /\ Len(seq) \in Nat
  OBVIOUS
<1>2. MovesOf(seq) = [i \in 1 .. Len(seq) |-> seq[i].ask.model]
  BY <1>1 DEF MovesOf
<1> QED
  BY <1>1, <1>2

(* A step that leaves the queue, the phases and the moves alone stutters.  *)
LEMMA Stutters ==
  ASSUME UNCHANGED <<models, requests, played>>,
         \A g \in Games : UNCHANGED table[g].phase
  PROVE  UNCHANGED Abstract!vars
<1>1. \A g \in Games : Status(g)' = Status(g)
  BY DEF Status, Live
<1>2. StatusMap' = StatusMap /\ MovesMap' = MovesMap
  BY <1>1 DEF StatusMap, MovesMap
<1> QED
  BY <1>2, Mapping

(* The actions of Match in terms of the mapping.                           *)
LEMMA AbstractBegin ==
  ASSUME NEW g, StatusMap[g] = "queued",
         StatusMap' = [StatusMap EXCEPT ![g] = "playing"],
         UNCHANGED <<models, MovesMap>>
  PROVE  Abstract!Begin(g)
BY DEF Abstract!Begin, StatusMap, MovesMap, MovesOf

(* A move of the implemented game is a move of the match.                  *)
LEMMA AbstractMove ==
  ASSUME NEW g, StatusMap[g] = "playing", UNCHANGED models,
         MovesMap' = [MovesMap EXCEPT
           ![g] = Append(@, models[g][Len(MovesMap[g]) % 2])],
         NEW st \in {"playing", "decided"},
         StatusMap' = [StatusMap EXCEPT ![g] = st]
  PROVE  Abstract!Move(g)
BY DEF Abstract!Move, StatusMap, MovesMap, MovesOf

(* A game that leaves the tables is a match that is closed.                *)
LEMMA AbstractClose ==
  ASSUME NEW g, StatusMap[g] = "playing" \/ StatusMap[g] = "decided",
         StatusMap' = [StatusMap EXCEPT ![g] = "closed"],
         UNCHANGED <<models, MovesMap>>
  PROVE  Abstract!Close(g)
BY DEF Abstract!Close, StatusMap, MovesMap, MovesOf

(* The mapping changes where the step happens only.                        *)
LEMMA MapStep ==
  ASSUME NEW g \in Games, Elsewhere(g),
         \A h \in Games \ {g} : h \in requests' <=> h \in requests
  PROVE  /\ StatusMap[g] = Status(g) /\ MovesMap[g] = MovesOf(played[g])
         /\ StatusMap' = [StatusMap EXCEPT ![g] = Status(g)']
         /\ MovesMap' = [MovesMap EXCEPT ![g] = MovesOf(played'[g])]
<1>1. \A h \in Games \ {g} : UNCHANGED <<table[h], played[h]>>
  BY DEF Elsewhere
<1>2. \A h \in Games \ {g} : Status(h)' = Status(h)
  BY <1>1 DEF Status, Live
<1>3. StatusMap' = [StatusMap EXCEPT ![g] = Status(g)']
  BY <1>2 DEF StatusMap
<1>4. MovesMap' = [MovesMap EXCEPT ![g] = MovesOf(played'[g])]
  BY <1>1 DEF MovesMap
<1>5. StatusMap[g] = Status(g) /\ MovesMap[g] = MovesOf(played[g])
  BY DEF StatusMap, MovesMap
<1> QED
  BY <1>3, <1>4, <1>5

(* A step without a move maps to one without a move.                       *)
LEMMA MovesKept ==
  ASSUME NEW g \in Games, UNCHANGED played,
         MovesMap' = [MovesMap EXCEPT ![g] = MovesOf(played'[g])]
  PROVE  UNCHANGED MovesMap
BY DEF MovesMap

(* Every step maps to a step of Match, or to none.                         *)
LEMMA MatchStep ==
  ASSUME TypeOK, TokenInv, GameInv, GameInv', NoFailures, NoFailures',
         [Next]_vars
  PROVE  [Abstract!Next]_(Abstract!vars)
<1>a. OneToken /\ Untouched
  BY DEF TokenInv
<1>b. /\ \A t \in reporting : t.g \in Games
      /\ \A m \in responses : m.ask.g \in Games
  BY DEF TypeOK, Reporting, Response, Ask
<1>c. /\ \A m \in responses : m.ask.g \notin requests
      /\ \A t \in reporting : t.g \notin requests
  BY <1>a, TokenFields DEF Untouched, Tokens
<1>1. ASSUME NEW g \in Games, AcceptGame(g)
      PROVE  Abstract!Begin(g)
  <2>1. /\ requests' = requests \ {g} /\ g \in requests
        /\ table' = [table EXCEPT ![g] = NewEntry] /\ UNCHANGED <<models, played>>
    BY <1>1 DEF AcceptGame, fixed
  <2>2. table'[g].phase = "open"
    BY <2>1 DEF TypeOK, NewEntry, NoEntry
  <2>3. Status(g) = "queued" /\ Status(g)' = "playing"
    BY <2>1, <2>2 DEF Status, Live
  <2>4. Elsewhere(g)
    BY <1>1, Local
  <2>5. /\ StatusMap[g] = Status(g)
        /\ StatusMap' = [StatusMap EXCEPT ![g] = Status(g)']
        /\ MovesMap' = [MovesMap EXCEPT ![g] = MovesOf(played'[g])]
    BY <2>1, <2>4, MapStep
  <2>6. UNCHANGED MovesMap
    BY <2>1, <2>5, MovesKept
  <2> QED
    BY <2>1, <2>3, <2>5, <2>6, AbstractBegin
<1>2. ASSUME NEW m \in responses, PlayAnswer(m)
      PROVE  Abstract!Move(m.ask.g)
  <2> DEFINE g == m.ask.g
             move == [player |-> table[g].player, ask |-> m.ask]
  <2>1. PICK phase \in PhasesAfter(g) :
          table' = [table EXCEPT ![g] = AfterMove(@, phase)]
    BY <1>2 DEF PlayAnswer
  <2>2. /\ played' = [played EXCEPT ![g] = Append(@, move)]
        /\ UNCHANGED <<models, requests>> /\ table[g].phase \in {"open", "over"}
    BY <1>2 DEF PlayAnswer, HasMove, fixed
  <2>3. g \in Games /\ Elsewhere(g) /\ g \notin requests
    BY <1>2, <1>b, <1>c, Local DEF HandleResponse
  <2>4. MovesOK(g) /\ MovesOK(g)' /\ IsPending(m.ask)
    BY <2>3 DEF GameInv, GameOK, NoFailures, OnTheWay
  <2>5. table[g].phase = "open"
    BY <2>2, <2>4 DEF IsPending
  <2>6. table'[g].phase = phase /\ phase \in Verdict
    <3>1. phase \in Verdict
      BY GMAssumption DEF PhasesAfter, GMAssumption, Verdict
    <3> QED
      BY <2>1, <2>3, <3>1 DEF TypeOK, Entry, AfterMove
  <2>7. played[g] \in Seq([player : Seat, ask : Ask]) /\ Len(played[g]) \in Nat
    BY <2>3, PlayedType
  <2>8. move \in [player : Seat, ask : Ask] /\ move.ask = m.ask
    BY <2>3 DEF TypeOK, Response, Entry
  <2>9. played'[g] = Append(played[g], move)
    BY <2>2, <2>3 DEF TypeOK
  <2> HIDE DEF move
  <2>10. MovesOf(played'[g]) = Append(MovesOf(played[g]), m.ask.model)
    BY <2>7, <2>8, <2>9, MovesAppend, Zenon
  <2>11. Len(MovesOf(played[g])) = Len(played[g])
    BY <2>7, MovesLength
  <2>12. m.ask.model = models[g][Len(played[g]) % 2]
    BY <2>4, <2>5 DEF IsPending, MovesOK
  <2>13. Status(g) = "playing" /\ Status(g)' \in {"playing", "decided"}
    <3>1. Live(g) /\ Live(g)' /\ g \notin requests /\ g \notin requests'
      BY <2>2, <2>3, <2>5, <2>6 DEF Live, Verdict
    <3> QED
      BY <2>5, <3>1 DEF Status
  <2> HIDE DEF g
  <2>14. /\ StatusMap[g] = Status(g) /\ MovesMap[g] = MovesOf(played[g])
         /\ StatusMap' = [StatusMap EXCEPT ![g] = Status(g)']
         /\ MovesMap' = [MovesMap EXCEPT ![g] = MovesOf(played'[g])]
    BY <2>2, <2>3, MapStep
  <2> QED
    <3>1. MovesMap' = [MovesMap EXCEPT
            ![g] = Append(@, models[g][Len(MovesMap[g]) % 2])]
      BY <2>10, <2>11, <2>12, <2>14
    <3>2. Abstract!Move(g)
      BY <2>2, <2>13, <2>14, <3>1, AbstractMove
    <3> QED
      BY <3>2 DEF g
<1>3. ASSUME NEW t \in reporting, Reported(t), t.ends
      PROVE  Abstract!Close(t.g) \/ UNCHANGED Abstract!vars
  <2>g. PICK g \in Games : g = t.g
    BY <1>b
  <2>1. /\ table' = [table EXCEPT ![g] = NoEntry]
        /\ UNCHANGED <<models, requests, played>>
    BY <1>3, <2>g DEF Reported, fixed
  <2>2. Elsewhere(g) /\ g \notin requests
    BY <1>3, <1>c, <2>g, Local
  <2>3. table'[g].phase = "absent"
    BY <2>1, <2>2 DEF TypeOK, NoEntry
  <2>4. CASE Live(g)
    <3>1. Status(g) \in {"playing", "decided"} /\ Status(g)' = "closed"
      BY <2>1, <2>2, <2>3, <2>4 DEF Status, Live
    <3>2. /\ StatusMap[g] = Status(g)
          /\ StatusMap' = [StatusMap EXCEPT ![g] = Status(g)']
          /\ MovesMap' = [MovesMap EXCEPT ![g] = MovesOf(played'[g])]
      BY <2>1, <2>2, MapStep
    <3>3. UNCHANGED MovesMap
      BY <2>1, <2>2, <3>2, MovesKept
    <3>4. Abstract!Close(g)
      <4>1. /\ StatusMap[g] = "playing" \/ StatusMap[g] = "decided"
            /\ StatusMap' = [StatusMap EXCEPT ![g] = "closed"]
            /\ UNCHANGED <<models, MovesMap>>
        BY <2>1, <3>1, <3>2, <3>3
      <4> QED
        BY <4>1, AbstractClose
    <3> QED
      BY <2>g, <3>4
  <2>5. CASE ~Live(g)
    <3>1. \A h \in Games : UNCHANGED table[h].phase
      BY <2>1, <2>3, <2>5 DEF TypeOK, Live
    <3> QED
      BY <2>1, <3>1, Stutters
  <2> QED
    BY <2>4, <2>5
<1>4. ASSUME NEW g \in Games, NEW from, ProceedTurn(g, from), Elsewhere(g),
             UNCHANGED <<models, requests, played>>
      PROVE  UNCHANGED Abstract!vars
  <2>1. UNCHANGED table[g].phase
    BY <1>4, ProceedTurnPhase
  <2>2. \A h \in Games : UNCHANGED table[h].phase
    BY <1>4, <2>1 DEF Elsewhere
  <2> QED
    BY <1>4, <2>2, Stutters
<1>5. ASSUME NEW t \in reporting, Reported(t), ~t.ends
      PROVE  UNCHANGED Abstract!vars
  <2>1. ProceedTurn(t.g, t.from) /\ UNCHANGED <<models, requests, played>>
    BY <1>5 DEF Reported, fixed
  <2>2. Elsewhere(t.g)
    BY <1>5, Local
  <2> QED
    BY <1>4, <1>b, <2>1, <2>2
<1>6. ASSUME NEW m \in responses, ResumeAfterLoad(m)
      PROVE  UNCHANGED Abstract!vars
  <2>1. ProceedTurn(m.ask.g, {m}) /\ UNCHANGED <<models, requests, played>>
    BY <1>6 DEF ResumeAfterLoad, fixed
  <2>2. Elsewhere(m.ask.g)
    BY <1>6, Local DEF HandleResponse
  <2> QED
    BY <1>4, <1>b, <2>1, <2>2
<1>7. ASSUME UNCHANGED <<models, requests, table, played>>
      PROVE  UNCHANGED Abstract!vars
  BY <1>7, Stutters
<1>8. ASSUME NEW m \in responses,
             FailGame(m) \/ IgnoreAnswer(m) \/ OrphanResponse(m)
      PROVE  UNCHANGED Abstract!vars
  BY <1>7, <1>8 DEF FailGame, IgnoreAnswer, OrphanResponse, fixed
<1>9. ASSUME NEW t \in reporting, ReportRaised(t)
      PROVE  UNCHANGED Abstract!vars
  BY <1>7, <1>9 DEF ReportRaised, fixed
<1>10. ASSUME NEW t \in asking,
              RequestRouted(t) \/ RequestReturned(t) \/ RequestRaised(t)
       PROVE  UNCHANGED Abstract!vars
  BY <1>7, <1>10 DEF RequestRouted, RequestReturned, RequestRaised, fixed
<1>11. CASE AIServers \/ UNCHANGED vars
  <2>1. UNCHANGED <<models, requests, table, played>>
    BY <1>11 DEF AIServers, ServeInference, ServeLoad, fixed, vars
  <2> QED
    BY <1>7, <2>1
<1>12. \A g \in Games : Abstract!Begin(g) \/ Abstract!Move(g) \/ Abstract!Close(g)
         => Abstract!Next
  BY DEF Abstract!Next
<1>13. CASE Next
  BY <1>1, <1>2, <1>3, <1>5, <1>6, <1>8, <1>9, <1>10, <1>11, <1>12, <1>13, <1>b
     DEF Next, HandleResponse, Resume
<1> QED
  BY <1>11, <1>13

(* The server plays matches: with one AI server, and as long as no         *)
(* publication raises, the seats alternate, each move comes from the model *)
(* of its seat, and a decided or abandoned game stays closed.              *)
THEOREM ImplementsMatch ==
  ASSUME OneServer, MaxFailures = 0
  PROVE  Spec => PlaysMatches
<1>1. Init => NoFailures
  BY DEF Init, NoFailures
<1>2. TypeOK /\ NoFailures /\ [Next]_vars => NoFailures'
  <2> SUFFICES ASSUME TypeOK, NoFailures, [Next]_vars
               PROVE  NoFailures'
    OBVIOUS
  <2>1. \A g \in Games : \A report, from, ends :
          Broadcast(g, report, from, ends) => UNCHANGED failures
    BY DEF Broadcast, NoFailures
  <2>2. /\ \A m \in responses : m.ask.g \in Games
        /\ \A t \in asking : t.ask.g \in Games
    BY DEF TypeOK, Response, Asking, Ask
  <2>3. \A t \in asking : ~RequestRaised(t)
    BY <2>2 DEF RequestRaised, NoFailures
  <2>4. UNCHANGED failures
    BY <2>1, <2>2, <2>3
       DEF Next, HandleResponse, Resume, AIServers, AcceptGame, PlayAnswer,
       FailGame, IgnoreAnswer, ResumeAfterLoad, OrphanResponse, Reported,
       ReportRaised, RequestRouted, RequestReturned, ServeInference, ServeLoad,
       vars
  <2> QED
    BY <2>4 DEF NoFailures
<1>3. Init => Abstract!Init
  <2> SUFFICES ASSUME Init
               PROVE  Abstract!Init
    OBVIOUS
  <2>1. \A g \in Games : Status(g) = "queued"
    BY DEF Init, Status
  <2>2. MovesOf(<<>>) = <<>>
    <3>1. MovesOf(<<>>) = [i \in 1 .. 0 |-> <<>>[i].ask.model]
      BY DEF MovesOf
    <3> DEFINE seq == [i \in 1 .. 0 |-> <<>>[i].ask.model]
    <3>2. seq \in Seq({}) /\ Len(seq) = 0
      OBVIOUS
    <3> HIDE DEF seq
    <3>3. seq = <<>>
      BY <3>2
    <3> QED
      BY <3>1, <3>3 DEF seq
  <2>3. \A g \in Games :
          [i \in DOMAIN played[g] |-> played[g][i].ask.model] = <<>>
    BY <2>2 DEF Init, MovesOf
  <2> QED
    BY <2>1, <2>3 DEF Abstract!Init
<1>4. TypeOK /\ TokenInv /\ GameInv /\ GameInv' /\ NoFailures /\ NoFailures'
        /\ [Next]_vars => [Abstract!Next]_(Abstract!vars)
  BY MatchStep
<1>5. Spec => []TokenInv
  BY TokenAlways
<1>6. Spec => []GameInv
  BY GameAlways
<1>7. Spec => Abstract!Spec
  BY <1>1, <1>2, <1>3, <1>4, <1>5, <1>6, TypeCorrect, PTL DEF Spec, Abstract!Spec
<1> QED
  BY <1>7 DEF PlaysMatches
=============================================================================
