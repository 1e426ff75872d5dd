----------------------- MODULE TournamentLeagueProofs -----------------------
(***************************************************************************)
(* Theorems about TournamentLeague: when a league is over, for any         *)
(* settings, scores and number of requests in flight.                      *)
(*                                                                         *)
(* A result is several steps from the match it saves to the look for the   *)
(* end of the league, and other results take theirs in between.  So the    *)
(* invariant speaks of the requests in flight: who still has to save has a *)
(* match that is not played, one each; and as long as the league is not    *)
(* moved on after its last match, somebody who saved has still to look.    *)
(***************************************************************************)
EXTENDS TournamentLeague, TLAPS

\* A match is a record of its fields.
IsMatch(m) ==
  m = [group |-> m.group, matchday |-> m.matchday, home |-> m.home, away |-> m.away,
       status |-> m.status, score |-> m.score]

\* A request is idle or at one of its steps, with what that step carries.
IsRequest(r) ==
  \/ r = Idle
  \/ r.step = "save" /\ r = [step |-> "save", match |-> r.match, score |-> r.score,
                             new |-> r.new, status |-> r.status]
  \/ r.step = "read" /\ r = [step |-> "read", group |-> r.group, new |-> r.new,
                             status |-> r.status]
  \/ r.step = "cache" /\ r = [step |-> "cache", group |-> r.group, table |-> r.table,
                              new |-> r.new, status |-> r.status]
  \/ r.step \in {"after", "qualify"} /\ r = [step |-> r.step, new |-> r.new,
                                             status |-> r.status]

Shapes ==
  /\ match = <<>> \/ DOMAIN match # {}
  /\ match = [i \in DOMAIN match |-> match[i]]
  /\ \A i \in DOMAIN match : IsMatch(match[i])
  /\ request = [s \in Slot |-> request[s]]
  /\ \A s \in Slot : IsRequest(request[s])

\* A new result in flight is for a match nobody else is saving; whatever is not a
\* new result is alone.
ResultsApart ==
  \A s \in Slot : request[s] # Idle =>
    /\ request[s].new \in BOOLEAN
    /\ ~request[s].new => \A t \in Slot : t # s => request[t] = Idle
    /\ request[s].step = "save" =>
         /\ request[s].match \in DOMAIN match
         /\ request[s].new => match[request[s].match].status = "SCHEDULED"
         /\ \A t \in Slot : t # s /\ request[t].step = "save" =>
              request[t].match # request[s].match

\* A result was loaded in a league in progress, or after it: in the review of a
\* league with a knockout, which does not go back, or in a completed one without.
LoadedInTime ==
  \A s \in Slot : request[s].step \in {"save", "read", "cache", "after"} =>
    /\ request[s].status \in {"LEAGUE_IN_PROGRESS", "QUALIFICATION_REVIEW", "COMPLETED"}
    /\ request[s].status = "COMPLETED" => settings.format = "LEAGUE"
    /\ request[s].status = "QUALIFICATION_REVIEW" /\ settings.format # "LEAGUE" =>
         status # "LEAGUE_IN_PROGRESS"

BeforeStart ==
  status = "REGISTRATION_CLOSED" =>
    /\ league # "COMPLETED"
    /\ \A s \in Slot : request[s] = Idle
    /\ \A i \in DOMAIN match : match[i].status = "SCHEDULED"

Ended ==
  /\ league = "COMPLETED" => Over
  /\ status \in {"QUALIFICATION_REVIEW", "KNOCKOUT_IN_PROGRESS", "COMPLETED"} =>
       league = "COMPLETED"

\* While a league with a knockout is in progress, everything being played,
\* somebody who saved a result or withdrew a team has still to look.
SomebodyLooks ==
  status = "LEAGUE_IN_PROGRESS" /\ Over /\ settings.format # "LEAGUE" =>
    \E s \in Slot : request[s].step \in {"read", "cache", "after"}

LeagueInv ==
  Shapes /\ ResultsApart /\ LoadedInTime /\ BeforeStart /\ Ended /\ SomebodyLooks

-----------------------------------------------------------------------------
(* Requests *)

\* What has a step is told by it.
LEMMA RequestSteps ==
  ASSUME NEW r, IsRequest(r)
  PROVE  /\ r.step \in {"idle", "save", "read", "cache", "after", "qualify"}
         /\ r = Idle <=> r.step = "idle"
BY DEF IsRequest, Idle

\* A record of each of the shapes is a request.
LEMMA RequestRecords ==
  /\ IsRequest(Idle)
  /\ \A m, score, new, st :
       IsRequest([step |-> "save", match |-> m, score |-> score, new |-> new, status |-> st])
  /\ \A g, new, st : IsRequest([step |-> "read", group |-> g, new |-> new, status |-> st])
  /\ \A g, table, new, st :
       IsRequest([step |-> "cache", group |-> g, table |-> table, new |-> new, status |-> st])
  /\ \A step \in {"after", "qualify"} : \A new, st :
       IsRequest([step |-> step, new |-> new, status |-> st])
BY DEF IsRequest

\* Nobody else is in flight.
LEMMA AloneIdle == Shapes => (Alone <=> \A s \in Slot : request[s] = Idle)
BY DEF Alone, Active

-----------------------------------------------------------------------------
(* Steps *)

\* A request takes its next step, or ends, and nothing else changes that the
\* invariant looks at: one that looks for the end of the league is not given up
\* while the league could still end by it.
LEMMA StepsOn ==
  ASSUME LeagueInv, NEW s \in Slot, NEW r, IsRequest(r),
         request[s] # Idle, request' = [request EXCEPT ![s] = r],
         match' = match, settings' = settings,
         r # Idle => /\ r.new = request[s].new /\ r.status = request[s].status
                     /\ r.step # "save"
                     /\ r.step # "qualify" =>
                          request[s].step \in {"save", "read", "cache", "after"},
         request[s].step \in {"read", "cache", "after"} /\ Over /\ settings.format # "LEAGUE"
           /\ status' = "LEAGUE_IN_PROGRESS" => r.step \in {"read", "cache", "after"},
         \/ status' = status /\ league' = league
         \/ /\ status' \in {status, "QUALIFICATION_REVIEW", "COMPLETED", "LEAGUE_IN_PROGRESS"}
            /\ Over /\ league' = "COMPLETED"
            /\ status' = "LEAGUE_IN_PROGRESS" =>
                 status = "LEAGUE_IN_PROGRESS" \/ settings.format = "LEAGUE"
  PROVE  LeagueInv'
<1> USE DEF LeagueInv
<1>1. /\ \A t \in Slot : request'[t] = IF t = s THEN r ELSE request[t]
      /\ request' = [t \in Slot |-> request'[t]]
  BY DEF Shapes
<1>2. Shapes' BY <1>1 DEF Shapes
<1>3. /\ Idle.step = "idle"
      /\ \A t \in Slot : request[t] = Idle <=> request[t].step = "idle"
      /\ r = Idle <=> r.step = "idle"
  BY RequestSteps DEF Shapes, Idle
<1>4. Over' = Over BY DEF Over
<1>5. status # "REGISTRATION_CLOSED" BY DEF BeforeStart
<1>6. ResultsApart'
  <2> SUFFICES ASSUME NEW x \in Slot, request'[x] # Idle
               PROVE  /\ request'[x].new \in BOOLEAN
                      /\ ~request'[x].new => \A t \in Slot : t # x => request'[t] = Idle
                      /\ request'[x].step = "save" =>
                           /\ request'[x].match \in DOMAIN match
                           /\ request'[x].new => match[request'[x].match].status = "SCHEDULED"
                           /\ \A t \in Slot : t # x /\ request'[t].step = "save" =>
                                request'[t].match # request'[x].match
    BY DEF ResultsApart
  <2>1. CASE x = s BY <1>1, <2>1 DEF ResultsApart
  <2>2. CASE x # s BY <1>1, <1>3, <2>2 DEF ResultsApart
  <2> QED BY <2>1, <2>2
<1>7. LoadedInTime'
  <2> SUFFICES ASSUME NEW x \in Slot, request'[x].step \in {"save", "read", "cache", "after"}
               PROVE  /\ request'[x].status \in {"LEAGUE_IN_PROGRESS", "QUALIFICATION_REVIEW",
                                                 "COMPLETED"}
                      /\ request'[x].status = "COMPLETED" => settings.format = "LEAGUE"
                      /\ request'[x].status = "QUALIFICATION_REVIEW"
                         /\ settings.format # "LEAGUE" => status' # "LEAGUE_IN_PROGRESS"
    BY DEF LoadedInTime
  <2>1. /\ request'[x].status = request[x].status
        /\ request[x].step \in {"save", "read", "cache", "after"}
    BY <1>1, <1>3
  <2> QED BY <2>1 DEF LoadedInTime
<1>8. BeforeStart' BY <1>5 DEF BeforeStart
<1>9. Ended' BY <1>4 DEF Ended
<1>10. SomebodyLooks'
  <2> SUFFICES ASSUME status' = "LEAGUE_IN_PROGRESS", Over, settings.format # "LEAGUE"
               PROVE  \E t \in Slot : request'[t].step \in {"read", "cache", "after"}
    BY <1>4 DEF SomebodyLooks
  <2>1. status = "LEAGUE_IN_PROGRESS" OBVIOUS
  <2>2. PICK t \in Slot : request[t].step \in {"read", "cache", "after"}
    BY <2>1 DEF SomebodyLooks
  <2> QED BY <1>1, <2>2
<1> QED BY <1>2, <1>6, <1>7, <1>8, <1>9, <1>10

\* A result is saved: its match is played now, and it goes on to look.
LEMMA SaveKeeps ==
  ASSUME LeagueInv, NEW s \in Slot, SaveMatch(s)
  PROVE  LeagueInv'
<1> USE DEF LeagueInv
<1> DEFINE m == request[s].match
           r == [step |-> "read", group |-> match[m].group, new |-> request[s].new,
                 status |-> request[s].status]
<1>1. /\ request[s].step = "save"
      /\ match' = [match EXCEPT ![m].score = request[s].score, ![m].status = "COMPLETED"]
      /\ request' = [request EXCEPT ![s] = r]
      /\ settings' = settings /\ status' = status /\ league' = league
  BY DEF SaveMatch, At, setup
<1>2. /\ request[s] # Idle /\ m \in DOMAIN match /\ request[s].new \in BOOLEAN
      /\ ~request[s].new => \A t \in Slot : t # s => request[t] = Idle
      /\ request[s].new => match[m].status = "SCHEDULED"
      /\ \A t \in Slot : t # s /\ request[t].step = "save" => request[t].match # m
  BY <1>1 DEF ResultsApart, Idle
<1>3. /\ \A t \in Slot : request'[t] = IF t = s THEN r ELSE request[t]
      /\ request' = [t \in Slot |-> request'[t]]
      /\ IsRequest(r)
  BY <1>1, RequestRecords DEF Shapes
<1>4. r.step = "read" /\ r.new = request[s].new /\ r.status = request[s].status OBVIOUS
<1> HIDE DEF r
<1>5. /\ DOMAIN match' = DOMAIN match
      /\ match' = [i \in DOMAIN match' |-> match'[i]]
      /\ \A i \in DOMAIN match : i # m => match'[i] = match[i]
  BY <1>1, <1>2 DEF Shapes
<1>6. IsMatch(match'[m]) /\ match'[m].status = "COMPLETED"
  <2>1. match[m] = [group |-> match[m].group, matchday |-> match[m].matchday,
                    home |-> match[m].home, away |-> match[m].away,
                    status |-> match[m].status, score |-> match[m].score]
    BY <1>2 DEF Shapes, IsMatch
  <2>2. match'[m] = [[match[m] EXCEPT !.score = request[s].score] EXCEPT !.status = "COMPLETED"]
    BY <1>1, <1>2 DEF Shapes
  <2>3. match'[m] = [group |-> match[m].group, matchday |-> match[m].matchday,
                     home |-> match[m].home, away |-> match[m].away,
                     status |-> "COMPLETED", score |-> request[s].score]
    BY <2>1, <2>2
  <2> QED BY <2>3 DEF IsMatch
<1>7. Shapes'
  <2>1. match' = <<>> \/ DOMAIN match' # {} BY <1>2, <1>5
  <2>2. \A i \in DOMAIN match' : IsMatch(match'[i]) BY <1>5, <1>6 DEF Shapes
  <2>3. \A t \in Slot : IsRequest(request'[t]) BY <1>3 DEF Shapes
  <2> QED BY <1>3, <1>5, <2>1, <2>2, <2>3 DEF Shapes
<1>8. /\ Idle.step = "idle"
      /\ \A t \in Slot : request[t] = Idle <=> request[t].step = "idle"
      /\ r # Idle
  BY <1>4, RequestSteps DEF Shapes, Idle
<1>9. ResultsApart'
  <2> SUFFICES ASSUME NEW x \in Slot, request'[x] # Idle
               PROVE  /\ request'[x].new \in BOOLEAN
                      /\ ~request'[x].new => \A t \in Slot : t # x => request'[t] = Idle
                      /\ request'[x].step = "save" =>
                           /\ request'[x].match \in DOMAIN match'
                           /\ request'[x].new =>
                                match'[request'[x].match].status = "SCHEDULED"
                           /\ \A t \in Slot : t # x /\ request'[t].step = "save" =>
                                request'[t].match # request'[x].match
    BY DEF ResultsApart
  <2>1. CASE x = s BY <1>2, <1>3, <1>4, <2>1
  <2>2. CASE x # s
    <3>1. request'[x] = request[x] /\ request[x] # Idle BY <1>3, <2>2
    <3>2. request[x].step = "save" => request[x].match # m BY <1>2, <2>2
    <3> QED BY <1>2, <1>3, <1>4, <1>5, <2>2, <3>1, <3>2 DEF ResultsApart
  <2> QED BY <2>1, <2>2
<1>10. LoadedInTime'
  <2> SUFFICES ASSUME NEW x \in Slot, request'[x].step \in {"save", "read", "cache", "after"}
               PROVE  /\ request'[x].status \in {"LEAGUE_IN_PROGRESS", "QUALIFICATION_REVIEW",
                                                 "COMPLETED"}
                      /\ request'[x].status = "COMPLETED" => settings.format = "LEAGUE"
                      /\ request'[x].status = "QUALIFICATION_REVIEW"
                         /\ settings.format # "LEAGUE" => status # "LEAGUE_IN_PROGRESS"
    BY <1>1 DEF LoadedInTime
  <2>1. /\ request'[x].status = request[x].status
        /\ request[x].step \in {"save", "read", "cache", "after"}
    BY <1>1, <1>3, <1>4
  <2> QED BY <2>1 DEF LoadedInTime
<1>11. BeforeStart' BY <1>1, <1>2 DEF BeforeStart
<1>12. Ended'
  <2>1. Over => Over' BY <1>5, <1>6 DEF Over
  <2> QED BY <1>1, <2>1 DEF Ended
<1>13. SomebodyLooks' BY <1>3, <1>4 DEF SomebodyLooks
<1> QED BY <1>7, <1>9, <1>10, <1>11, <1>12, <1>13

\* A request in review changes neither matches nor the league, and the status does
\* not go back to the league's.
LEMMA ReviewKeeps ==
  ASSUME LeagueInv, Alone, league = "COMPLETED", league' = league, match' = match,
         request' = request
         \/ \E s \in Slot : request' = [request EXCEPT ![s] = Requalify],
         status' # "REGISTRATION_CLOSED",
         status' = "LEAGUE_IN_PROGRESS" =>
           status = "LEAGUE_IN_PROGRESS" /\ settings' = settings
  PROVE  LeagueInv'
<1> USE DEF LeagueInv
<1>1. /\ \A t \in Slot : request[t] = Idle
      /\ Idle.step = "idle" /\ Requalify # Idle /\ Requalify.step = "qualify"
      /\ Requalify.new = FALSE /\ IsRequest(Requalify)
  BY AloneIdle, RequestRecords DEF Idle, Requalify
<1>2. /\ request' = [t \in Slot |-> request'[t]]
      /\ \A t \in Slot : request'[t] \in {Idle, Requalify}
      /\ \A t, u \in Slot : request'[t] = Requalify /\ u # t => request'[u] = Idle
  <2>1. CASE request' = request BY <1>1, <2>1 DEF Shapes
  <2>2. CASE \E s \in Slot : request' = [request EXCEPT ![s] = Requalify]
    BY <1>1, <2>2 DEF Shapes
  <2> QED BY <2>1, <2>2
<1>3. Shapes'
  <2>1. \A t \in Slot : IsRequest(request'[t]) BY <1>1, <1>2, RequestRecords
  <2> QED BY <1>2, <2>1 DEF Shapes
<1>4. ResultsApart' BY <1>1, <1>2 DEF ResultsApart
<1>5. LoadedInTime' BY <1>1, <1>2 DEF LoadedInTime
<1>6. BeforeStart' BY DEF BeforeStart
<1>7. Over' = Over BY DEF Over
<1>8. Ended' BY <1>7 DEF Ended
<1>9. SomebodyLooks' BY <1>1, <1>7 DEF SomebodyLooks
<1> QED BY <1>3, <1>4, <1>5, <1>6, <1>8, <1>9

\* A request loads the match it will save.
LEMMA LoadKeeps ==
  ASSUME LeagueInv, NEW s \in Slot, NEW i \in DOMAIN match, NEW score,
         LoadMatch(s, i, score)
  PROVE  LeagueInv'
<1> USE DEF LeagueInv
<1> DEFINE r == [step |-> "save", match |-> i, score |-> score,
                 new |-> match[i].status = "SCHEDULED", status |-> status]
<1>1. /\ request[s] = Idle /\ request' = [request EXCEPT ![s] = r]
      /\ settings' = settings /\ status' = status /\ league' = league /\ match' = match
      /\ status \in Editable
  BY DEF LoadMatch, setup
<1>2. /\ match[i].status = "SCHEDULED" =>
           \A t \in Slot : request[t] # Idle =>
             request[t].new /\ (request[t].step = "save" => request[t].match # i)
      /\ match[i].status # "SCHEDULED" => \A t \in Slot : request[t] = Idle
  BY AloneIdle DEF LoadMatch, Active, At
<1>3. /\ status \in {"LEAGUE_IN_PROGRESS", "QUALIFICATION_REVIEW", "COMPLETED"}
      /\ status = "COMPLETED" => settings.format = "LEAGUE"
  BY <1>1 DEF Editable
<1>4. /\ \A t \in Slot : request'[t] = IF t = s THEN r ELSE request[t]
      /\ request' = [t \in Slot |-> request'[t]]
      /\ IsRequest(r)
  BY <1>1, RequestRecords DEF Shapes
<1>5. /\ r.step = "save" /\ r.match = i /\ r.status = status
      /\ r.new = (match[i].status = "SCHEDULED") /\ r.new \in BOOLEAN
      /\ Idle.step = "idle"
  BY DEF Idle
<1> HIDE DEF r
<1>6. Shapes'
  <2>1. \A t \in Slot : IsRequest(request'[t]) BY <1>4 DEF Shapes
  <2> QED BY <1>1, <1>4, <2>1 DEF Shapes
<1>7. ResultsApart'
  <2> SUFFICES ASSUME NEW x \in Slot, request'[x] # Idle
               PROVE  /\ request'[x].new \in BOOLEAN
                      /\ ~request'[x].new => \A t \in Slot : t # x => request'[t] = Idle
                      /\ request'[x].step = "save" =>
                           /\ request'[x].match \in DOMAIN match
                           /\ request'[x].new => match[request'[x].match].status = "SCHEDULED"
                           /\ \A t \in Slot : t # x /\ request'[t].step = "save" =>
                                request'[t].match # request'[x].match
    BY <1>1 DEF ResultsApart
  <2>1. CASE x = s BY <1>2, <1>4, <1>5, <2>1, ZenonT(30)
  <2>2. CASE x # s
    <3>1. request'[x] = request[x] /\ request[x] # Idle BY <1>4, <2>2
    <3>2. match[i].status = "SCHEDULED" /\ request[x].new BY <1>2, <3>1
    <3>3. request[x].step = "save" => request[x].match # i BY <1>2, <3>1, <3>2
    <3> QED BY <1>4, <1>5, <2>2, <3>1, <3>2, <3>3 DEF ResultsApart
  <2> QED BY <2>1, <2>2
<1>8. LoadedInTime'
  <2> SUFFICES ASSUME NEW x \in Slot, request'[x].step \in {"save", "read", "cache", "after"}
               PROVE  /\ request'[x].status \in {"LEAGUE_IN_PROGRESS", "QUALIFICATION_REVIEW",
                                                 "COMPLETED"}
                      /\ request'[x].status = "COMPLETED" => settings.format = "LEAGUE"
                      /\ request'[x].status = "QUALIFICATION_REVIEW"
                         /\ settings.format # "LEAGUE" => status # "LEAGUE_IN_PROGRESS"
    BY <1>1 DEF LoadedInTime
  <2>1. CASE x = s BY <1>3, <1>4, <1>5, <2>1
  <2>2. CASE x # s BY <1>4, <2>2 DEF LoadedInTime
  <2> QED BY <2>1, <2>2
<1>9. BeforeStart' BY <1>1, <1>3 DEF BeforeStart
<1>10. Over' = Over BY <1>1 DEF Over
<1>11. Ended' BY <1>1, <1>10 DEF Ended
<1>12. SomebodyLooks'
  <2> SUFFICES ASSUME status = "LEAGUE_IN_PROGRESS", Over, settings.format # "LEAGUE"
               PROVE  \E t \in Slot : request'[t].step \in {"read", "cache", "after"}
    BY <1>1, <1>10 DEF SomebodyLooks
  <2>1. PICK t \in Slot : request[t].step \in {"read", "cache", "after"}
    BY DEF SomebodyLooks
  <2> QED BY <1>1, <1>4, <1>5, <2>1
<1> QED BY <1>6, <1>7, <1>8, <1>9, <1>11, <1>12

\* A team withdraws from the league: its matches are voided or forfeited, and its
\* request goes on to look.
LEMMA WithdrawalKeeps ==
  ASSUME LeagueInv, NEW s \in Slot, NEW t, WithdrawFromLeague(s, t)
  PROVE  LeagueInv'
<1> USE DEF LeagueInv
<1> DEFINE own == {i \in DOMAIN match : Plays(i, t) /\ match[i].status # "VOID"}
           r == IF own = {} THEN [step |-> "after", new |-> FALSE, status |-> status]
                ELSE [step |-> "read", group |-> match[Min(own)].group, new |-> FALSE,
                      status |-> status]
<1>1. /\ Alone /\ status = "LEAGUE_IN_PROGRESS"
      /\ request' = [request EXCEPT ![s] = r]
      /\ settings' = settings /\ status' = status /\ league' = league
  BY DEF WithdrawFromLeague, setup
<1>2. /\ match' = [i \in DOMAIN match |-> match'[i]] /\ DOMAIN match' = DOMAIN match
      /\ \A i \in DOMAIN match :
           \/ match'[i] = match[i]
           \/ match'[i] = [match[i] EXCEPT !.status = "VOID"]
           \/ \E score : match'[i] = [match[i] EXCEPT !.status = "COMPLETED", !.score = score]
  BY DEF WithdrawFromLeague
<1>3. \A i \in DOMAIN match :
        /\ IsMatch(match'[i])
        /\ match[i].status # "SCHEDULED" => match'[i].status # "SCHEDULED"
  <2> SUFFICES ASSUME NEW i \in DOMAIN match
               PROVE  /\ IsMatch(match'[i])
                      /\ match[i].status # "SCHEDULED" => match'[i].status # "SCHEDULED"
    OBVIOUS
  <2>1. match[i] = [group |-> match[i].group, matchday |-> match[i].matchday,
                    home |-> match[i].home, away |-> match[i].away,
                    status |-> match[i].status, score |-> match[i].score]
    BY DEF Shapes, IsMatch
  <2>2. CASE match'[i] = match[i] BY <2>2 DEF Shapes
  <2>3. CASE match'[i] = [match[i] EXCEPT !.status = "VOID"]
    <3>1. match'[i] = [group |-> match[i].group, matchday |-> match[i].matchday,
                       home |-> match[i].home, away |-> match[i].away,
                       status |-> "VOID", score |-> match[i].score]
      BY <2>1, <2>3
    <3> QED BY <3>1 DEF IsMatch
  <2>4. CASE \E score : match'[i] = [match[i] EXCEPT !.status = "COMPLETED", !.score = score]
    <3>1. PICK score : match'[i] = [match[i] EXCEPT !.status = "COMPLETED", !.score = score]
      BY <2>4
    <3>2. match'[i] = [group |-> match[i].group, matchday |-> match[i].matchday,
                       home |-> match[i].home, away |-> match[i].away,
                       status |-> "COMPLETED", score |-> score]
      BY <2>1, <3>1
    <3> QED BY <3>2 DEF IsMatch
  <2> QED BY <1>2, <2>2, <2>3, <2>4
<1>4. /\ IsRequest(r) /\ r.step \in {"read", "after"} /\ r.new = FALSE
      /\ r.status = "LEAGUE_IN_PROGRESS"
  <2>1. CASE own = {} BY <1>1, <2>1, RequestRecords
  <2>2. CASE own # {} BY <1>1, <2>2, RequestRecords
  <2> QED BY <2>1, <2>2
<1> HIDE DEF r, own
<1>5. /\ \A u \in Slot : request[u] = Idle
      /\ \A u \in Slot : request'[u] = IF u = s THEN r ELSE Idle
      /\ request' = [u \in Slot |-> request'[u]]
      /\ Idle.step = "idle"
  BY <1>1, AloneIdle DEF Shapes, Idle
<1>6. Shapes'
  <2>1. match' = <<>> \/ DOMAIN match' # {} BY <1>2 DEF Shapes
  <2>2. \A u \in Slot : IsRequest(request'[u]) BY <1>4, <1>5, RequestRecords
  <2> QED BY <1>2, <1>3, <1>5, <2>1, <2>2 DEF Shapes
<1>7. ResultsApart' BY <1>4, <1>5 DEF ResultsApart
<1>8. LoadedInTime' BY <1>1, <1>4, <1>5 DEF LoadedInTime
<1>9. BeforeStart' BY <1>1 DEF BeforeStart
<1>10. Over => Over' BY <1>2, <1>3 DEF Over
<1>11. Ended' BY <1>1, <1>10 DEF Ended
<1>12. SomebodyLooks' BY <1>4, <1>5 DEF SomebodyLooks
<1> QED BY <1>6, <1>7, <1>8, <1>9, <1>11, <1>12

\* Before the start: a league without matches, nothing in flight.
LEMMA EmptyLeague ==
  ASSUME LeagueInv, match' = <<>>, request' = request,
         \A s \in Slot : request[s] = Idle,
         league' = "PENDING", status' = "REGISTRATION_CLOSED"
  PROVE  LeagueInv'
<1>1. /\ \A s \in Slot : request'[s] = Idle /\ request'[s].step = "idle"
      /\ DOMAIN match' = {} /\ match' = [i \in DOMAIN match' |-> match'[i]]
  BY DEF Idle
<1>2. Shapes' BY <1>1 DEF LeagueInv, Shapes
<1>3. ResultsApart' BY <1>1 DEF ResultsApart
<1>4. LoadedInTime' BY <1>1 DEF LoadedInTime
<1>5. BeforeStart' BY <1>1 DEF BeforeStart
<1>6. Ended' BY DEF Ended
<1>7. SomebodyLooks' BY DEF SomebodyLooks
<1> QED BY <1>2, <1>3, <1>4, <1>5, <1>6, <1>7 DEF LeagueInv

\* The fixtures are matches to be played.
LEMMA FixturesKeep == ASSUME LeagueInv, GenerateFixtures PROVE LeagueInv'
<1> DEFINE Fixtures == OrderForRest(FlattenSeq([g \in Group |-> FixturesOf(g)]))
<1>1. /\ Alone /\ status = "REGISTRATION_CLOSED"
      /\ match' = [i \in DOMAIN Fixtures |->
           [group |-> Fixtures[i].group, matchday |-> Fixtures[i].matchday,
            home |-> Fixtures[i].home, away |-> Fixtures[i].away,
            status |-> "SCHEDULED", score |-> Unplayed]]
      /\ settings' = settings /\ status' = status /\ league' = league
      /\ request' = request
  BY DEF GenerateFixtures, setup
<1> HIDE DEF Fixtures
<1>2. /\ match' = [i \in DOMAIN match' |-> match'[i]]
      /\ \A i \in DOMAIN match' : IsMatch(match'[i]) /\ match'[i].status = "SCHEDULED"
  BY <1>1 DEF IsMatch
<1>3. DOMAIN match' = {} => match' = <<>> BY <1>2
<1>4. \A s \in Slot : request'[s] = Idle /\ request'[s].step = "idle"
  BY <1>1 DEF LeagueInv, BeforeStart, Idle
<1>5. Shapes' BY <1>1, <1>2, <1>3 DEF LeagueInv, Shapes
<1>6. ResultsApart' BY <1>4 DEF ResultsApart
<1>7. LoadedInTime' BY <1>4 DEF LoadedInTime
<1>8. BeforeStart' BY <1>1, <1>2, <1>4 DEF LeagueInv, BeforeStart
<1>9. Ended' BY <1>1 DEF LeagueInv, BeforeStart, Ended
<1>10. SomebodyLooks' BY <1>1 DEF SomebodyLooks
<1> QED BY <1>5, <1>6, <1>7, <1>8, <1>9, <1>10 DEF LeagueInv

\* A league that starts has a match to play.
LEMMA StartKeeps == ASSUME LeagueInv, StartLeague PROVE LeagueInv'
<1>1. /\ status = "REGISTRATION_CLOSED" /\ match # <<>> /\ match' = match
      /\ status' = "LEAGUE_IN_PROGRESS" /\ league' = "IN_PROGRESS"
      /\ settings' = settings /\ request' = request
  BY DEF StartLeague, setup
<1>2. /\ \A s \in Slot : request'[s] = Idle /\ request'[s].step = "idle"
      /\ \A i \in DOMAIN match : match[i].status = "SCHEDULED"
  BY <1>1 DEF LeagueInv, BeforeStart, Idle
<1>3. ~Over' BY <1>1, <1>2 DEF LeagueInv, Shapes, Over
<1>4. Shapes' BY <1>1 DEF LeagueInv, Shapes
<1>5. ResultsApart' BY <1>2 DEF ResultsApart
<1>6. LoadedInTime' BY <1>2 DEF LoadedInTime
<1>7. BeforeStart' BY <1>1 DEF BeforeStart
<1>8. Ended' BY <1>1 DEF Ended
<1>9. SomebodyLooks' BY <1>3 DEF SomebodyLooks
<1> QED BY <1>4, <1>5, <1>6, <1>7, <1>8, <1>9 DEF LeagueInv

\* The look for the end of the league, with nothing left to play, moves a league
\* with a knockout on.
LEMMA EndKeeps == ASSUME LeagueInv, NEW s \in Slot, EndOfLeague(s) PROVE LeagueInv'
<1> USE DEF LeagueInv
<1> DEFINE on == [request[s] EXCEPT !.step = "qualify"]
<1>1. /\ request[s].step = "after" /\ request[s] # Idle
      /\ match' = match /\ settings' = settings
  BY RequestSteps DEF EndOfLeague, At, setup, Shapes, Idle
<1>2. /\ request[s].status \in {"LEAGUE_IN_PROGRESS", "QUALIFICATION_REVIEW", "COMPLETED"}
      /\ request[s].status = "COMPLETED" => settings.format = "LEAGUE"
      /\ request[s].status = "QUALIFICATION_REVIEW" /\ settings.format # "LEAGUE" =>
           status # "LEAGUE_IN_PROGRESS"
  BY <1>1 DEF LoadedInTime
<1>3. /\ IsRequest(on) /\ on # Idle /\ on.step = "qualify"
      /\ on.new = request[s].new /\ on.status = request[s].status
  <2>1. request[s] = [step |-> "after", new |-> request[s].new, status |-> request[s].status]
    BY <1>1 DEF Shapes, IsRequest
  <2>2. on = [step |-> "qualify", new |-> request[s].new, status |-> request[s].status]
    BY <2>1
  <2> QED BY <2>2, RequestRecords DEF Idle
<1>4. IsRequest(Idle) /\ Idle.step = "idle" BY RequestRecords DEF Idle
<1>5. GoOn(s) => request' = [request EXCEPT ![s] = on] BY DEF GoOn
<1> HIDE DEF on
<1>6. Over <=> Pending = {} BY DEF Over, Pending
<1>7. CASE Pending # {}
  <2>1. Finish(s) /\ status' = status /\ league' = league BY <1>7 DEF EndOfLeague
  <2> QED BY <1>1, <1>4, <1>6, <1>7, <2>1, StepsOn DEF Finish
<1>8. CASE Pending = {} /\ settings.format = "LEAGUE"
  <2>1. /\ request' = [request EXCEPT ![s] = Idle] /\ league' = "COMPLETED"
        /\ status' \in {status, "COMPLETED", "LEAGUE_IN_PROGRESS"}
    BY <1>8 DEF EndOfLeague, CompleteLeagueOnly, Finish
  <2> QED BY <1>1, <1>4, <1>6, <1>8, <2>1, StepsOn
<1>9. CASE Pending = {} /\ settings.format # "LEAGUE"
  <2>1. league' = "COMPLETED" BY <1>9 DEF EndOfLeague
  <2>2. CASE request[s].status = "LEAGUE_IN_PROGRESS" /\ status = "LEAGUE_IN_PROGRESS"
    <3>1. /\ status' = "QUALIFICATION_REVIEW"
          /\ request' = [request EXCEPT ![s] = on]
      BY <1>5, <1>9, <2>2 DEF EndOfLeague
    <3> QED BY <1>1, <1>3, <1>6, <1>9, <2>1, <3>1, StepsOn
  <2>3. CASE request[s].status = "QUALIFICATION_REVIEW"
    <3>1. /\ status' = status /\ status # "LEAGUE_IN_PROGRESS"
          /\ request' = [request EXCEPT ![s] = on]
      BY <1>2, <1>5, <1>9, <2>3 DEF EndOfLeague
    <3> QED BY <1>1, <1>3, <1>6, <1>9, <2>1, <3>1, StepsOn
  <2>4. CASE request[s].status = "LEAGUE_IN_PROGRESS" /\ status # "LEAGUE_IN_PROGRESS"
    <3>1. status' = status /\ request' = [request EXCEPT ![s] = Idle]
      BY <1>9, <2>4 DEF EndOfLeague, Finish
    <3> QED BY <1>1, <1>4, <1>6, <1>9, <2>1, <2>4, <3>1, StepsOn
  <2> QED BY <1>2, <1>9, <2>2, <2>3, <2>4
<1> QED BY <1>7, <1>8, <1>9

\* Every other step of a request in flight.
LEMMA StepKeeps == ASSUME LeagueInv, NEW s \in Slot, Step(s) PROVE LeagueInv'
<1> USE DEF LeagueInv
<1>1. CASE SaveMatch(s) BY <1>1, SaveKeeps
<1>2. CASE EndOfLeague(s) BY <1>2, EndKeeps
<1>3. CASE ReadGroup(s)
  <2> DEFINE r == [step |-> "cache", group |-> request[s].group,
                   table |-> Table(request[s].group, rulings),
                   new |-> request[s].new, status |-> request[s].status]
  <2>1. /\ request[s].step = "read" /\ request' = [request EXCEPT ![s] = r]
        /\ match' = match /\ settings' = settings /\ status' = status /\ league' = league
    BY <1>3 DEF ReadGroup, At, setup
  <2>2. /\ IsRequest(r) /\ r.step = "cache" /\ r.new = request[s].new
        /\ r.status = request[s].status
    BY RequestRecords
  <2>3. request[s] # Idle BY <2>1 DEF Idle
  <2> HIDE DEF r
  <2> QED BY <2>1, <2>2, <2>3, StepsOn
<1>4. CASE CacheStandings(s)
  <2> DEFINE r == [step |-> "after", new |-> request[s].new, status |-> request[s].status]
  <2>1. /\ request[s].step = "cache" /\ request' = [request EXCEPT ![s] = r]
        /\ match' = match /\ settings' = settings /\ status' = status /\ league' = league
    BY <1>4 DEF CacheStandings, At, setup
  <2>2. /\ IsRequest(r) /\ r.step = "after" /\ r.new = request[s].new
        /\ r.status = request[s].status
    BY RequestRecords
  <2>3. request[s] # Idle BY <2>1 DEF Idle
  <2> HIDE DEF r
  <2> QED BY <2>1, <2>2, <2>3, StepsOn
<1>5. CASE ReviewResults(s)
  <2>1. /\ request[s].step = "qualify" /\ request' = [request EXCEPT ![s] = Idle]
        /\ match' = match /\ settings' = settings /\ status' = status /\ league' = league
    BY <1>5 DEF ReviewResults, At, Finish, setup
  <2>2. request[s] # Idle /\ IsRequest(Idle) BY <2>1, RequestRecords DEF Idle
  <2> QED BY <2>1, <2>2, StepsOn
<1> QED BY <1>1, <1>2, <1>3, <1>4, <1>5 DEF Step

\* Cancelling leaves the requests in flight.
LEMMA CancelKeeps == ASSUME LeagueInv, Cancel PROVE LeagueInv'
<1>1. /\ status' = "CANCELLED" /\ match' = match /\ settings' = settings
      /\ league' = league /\ request' = request
  BY DEF Cancel, setup
<1>2. Over' = Over BY <1>1 DEF Over
<1> QED BY <1>1, <1>2 DEF LeagueInv, Shapes, ResultsApart, LoadedInTime, BeforeStart, Ended,
             SomebodyLooks

\* The organizer's requests of a league that is over.
LEMMA ReviewStepKeeps == ASSUME LeagueInv, Alone, league = "COMPLETED", Review PROVE LeagueInv'
<1> USE DEF LeagueInv
<1>1. ASSUME NEW t \in Teams, WithdrawInKnockout(t) PROVE LeagueInv'
  <2>1. /\ league' = league /\ match' = match /\ request' = request /\ settings' = settings
        /\ status' = "KNOCKOUT_IN_PROGRESS"
    BY <1>1 DEF WithdrawInKnockout, setup
  <2> QED BY <2>1, ReviewKeeps
<1>2. ASSUME NEW t \in Teams, NEW s \in Slot, WithdrawInReview(s, t) PROVE LeagueInv'
  <2>1. /\ league' = league /\ match' = match /\ settings' = settings
        /\ request' = [request EXCEPT ![s] = Requalify]
        /\ status' = "QUALIFICATION_REVIEW"
    BY <1>2 DEF WithdrawInReview, setup
  <2> QED BY <2>1, ReviewKeeps
<1>3. ASSUME NEW order, ResolveTie(order) PROVE LeagueInv'
  <2>1. /\ league' = league /\ match' = match /\ settings' = settings /\ request' = request
        /\ status \in {"QUALIFICATION_REVIEW", "LEAGUE_IN_PROGRESS"}
    BY <1>3 DEF ResolveTie, MayRule, setup
  <2>2. status' \in {status, "COMPLETED"}
    BY <1>3, <2>1 DEF ResolveTie, CompleteLeagueOnly
  <2> QED BY <2>1, <2>2, ReviewKeeps
<1>4. ASSUME ConfirmBracket \/ RebuildBracket
             \/ \E slots \in Layouts, confirm \in BOOLEAN : LayOutBracket(slots, confirm)
      PROVE  LeagueInv'
  <2>1. /\ league' = league /\ match' = match /\ settings' = settings /\ request' = request
        /\ status = "QUALIFICATION_REVIEW" /\ status' = status
    BY <1>4 DEF ConfirmBracket, RebuildBracket, LayOutBracket, MayBuild, setup
  <2> QED BY <2>1, ReviewKeeps
<1>5. ASSUME StartKnockout PROVE LeagueInv'
  <2>1. /\ league' = league /\ match' = match /\ request' = request
        /\ status' = "KNOCKOUT_IN_PROGRESS"
    BY <1>5 DEF StartKnockout
  <2> QED BY <2>1, ReviewKeeps
<1>6. ASSUME NEW s \in Slot, NEW seeding \in Seedings, SetFormat(s, seeding) PROVE LeagueInv'
  <2>1. /\ league' = league /\ match' = match /\ status' = "QUALIFICATION_REVIEW"
        /\ request' = [request EXCEPT ![s] = Requalify]
    BY <1>6 DEF SetFormat
  <2> QED BY <2>1, ReviewKeeps
<1> QED BY <1>1, <1>2, <1>3, <1>4, <1>5, <1>6 DEF Review

LEMMA LeagueNext == ASSUME LeagueInv, Next PROVE LeagueInv'
<1>1. CASE Draw
  <2>1. /\ match' = <<>> /\ request' = request /\ league' = "PENDING"
        /\ status = "REGISTRATION_CLOSED" /\ status' = status
    BY <1>1 DEF Draw
  <2>2. \A s \in Slot : request[s] = Idle BY <2>1 DEF LeagueInv, BeforeStart
  <2> QED BY <2>1, <2>2, EmptyLeague
<1>2. CASE Restructure
  <2>1. /\ match' = <<>> /\ request' = request /\ league' = "PENDING"
        /\ status' = "REGISTRATION_CLOSED"
    BY <1>2 DEF Restructure
  <2>2. \A s \in Slot : request[s] = Idle BY <1>2, AloneIdle DEF Restructure, LeagueInv
  <2> QED BY <2>1, <2>2, EmptyLeague
<1>3. CASE GenerateFixtures BY <1>3, FixturesKeep
<1>4. CASE StartLeague BY <1>4, StartKeeps
<1>5. CASE Cancel BY <1>5, CancelKeeps
<1>6. ASSUME NEW s \in Slot, Step(s) PROVE LeagueInv' BY <1>6, StepKeeps
<1>7. ASSUME NEW s \in Slot, NEW i \in DOMAIN match, NEW score \in Scores,
             LoadMatch(s, i, score)
      PROVE  LeagueInv'
  BY <1>7, LoadKeeps
<1>8. ASSUME NEW s \in Slot, NEW t \in Teams, WithdrawFromLeague(s, t) PROVE LeagueInv'
  BY <1>8, WithdrawalKeeps
<1>9. CASE Alone /\ league = "COMPLETED" /\ Review BY <1>9, ReviewStepKeeps
<1> QED BY <1>1, <1>2, <1>3, <1>4, <1>5, <1>6, <1>7, <1>8, <1>9 DEF Next, League

LEMMA InitLeague == Init => LeagueInv
<1> SUFFICES ASSUME Init PROVE LeagueInv OBVIOUS
<1>1. /\ match = <<>> /\ DOMAIN match = {} /\ match = [i \in DOMAIN match |-> match[i]]
      /\ status = "REGISTRATION_CLOSED" /\ league = "PENDING"
      /\ request = [s \in Slot |-> request[s]]
      /\ \A s \in Slot : request[s] = Idle
  BY DEF Init
<1>2. Shapes BY <1>1, RequestRecords DEF Shapes
<1>3. ResultsApart BY <1>1 DEF ResultsApart
<1>4. LoadedInTime BY <1>1 DEF LoadedInTime, Idle
<1>5. BeforeStart BY <1>1 DEF BeforeStart
<1>6. Ended BY <1>1 DEF Ended
<1>7. SomebodyLooks BY <1>1 DEF SomebodyLooks
<1> QED BY <1>2, <1>3, <1>4, <1>5, <1>6, <1>7 DEF LeagueInv

LEMMA LeagueStutter == ASSUME LeagueInv, UNCHANGED vars PROVE LeagueInv'
<1>1. /\ match' = match /\ settings' = settings /\ status' = status /\ league' = league
      /\ request' = request
  BY DEF vars
<1>2. Over' = Over BY <1>1 DEF Over
<1> QED BY <1>1, <1>2 DEF LeagueInv, Shapes, ResultsApart, LoadedInTime, BeforeStart, Ended,
             SomebodyLooks

LEMMA LeagueInvariant == Spec => []LeagueInv
<1>1. LeagueInv /\ [Next]_vars => LeagueInv' BY LeagueNext, LeagueStutter
<1> QED BY InitLeague, <1>1, PTL DEF Spec

-----------------------------------------------------------------------------
(* The properties *)

\* A league ends once everything is played, and then it does end
\* (tournament-phases.service.ts, afterLeagueResult): in the review, the knockout
\* or a completed tournament no match of the league is left to play; and when no
\* request is in flight and nothing is left to play, a league with a knockout is
\* not in progress, whichever of the last results overtook which.
THEOREM LeagueEndsOnce == Spec => []LeagueEnds
<1>1. LeagueInv => LeagueEnds
  <2> SUFFICES ASSUME LeagueInv PROVE LeagueEnds OBVIOUS
  <2>1. status \in {"QUALIFICATION_REVIEW", "KNOCKOUT_IN_PROGRESS", "COMPLETED"} => Over
    BY DEF LeagueInv, Ended
  <2>2. ASSUME Alone, status = "LEAGUE_IN_PROGRESS", Over PROVE settings.format = "LEAGUE"
    BY <2>2, AloneIdle DEF LeagueInv, SomebodyLooks, Idle
  <2> QED BY <2>1, <2>2 DEF LeagueEnds
<1> QED BY <1>1, LeagueInvariant, PTL

\* A cancelled tournament stays cancelled, whatever result or withdrawal was in
\* flight when it was cancelled (setStatus, completeLeagueOnly, afterLeagueResult).
THEOREM CancelledForGood == Spec => CancelIsFinal
<1>1. ASSUME Next, status = "CANCELLED" PROVE status' = "CANCELLED"
  <2> USE <1>1
  <2>1. ASSUME NEW s \in Slot, Step(s) PROVE status' = "CANCELLED"
    BY <2>1 DEF Step, SaveMatch, ReadGroup, CacheStandings, ReviewResults, EndOfLeague,
               CompleteLeagueOnly
  <2>2. CASE \E s \in Slot, i \in DOMAIN match, score \in Scores : LoadMatch(s, i, score)
    BY <2>2 DEF LoadMatch, Editable
  <2>3. CASE Review
    BY <2>3 DEF Review, WithdrawInKnockout, WithdrawInReview, ResolveTie, MayRule,
               ConfirmBracket, RebuildBracket, LayOutBracket, StartKnockout, MayBuild, SetFormat
  <2>4. CASE \E s \in Slot, t \in Teams : WithdrawFromLeague(s, t)
    BY <2>4 DEF WithdrawFromLeague
  <2>5. CASE Draw \/ GenerateFixtures \/ StartLeague \/ Restructure \/ Cancel
    BY <2>5 DEF Draw, GenerateFixtures, StartLeague, Restructure, Cancel
  <2> QED BY <2>1, <2>2, <2>3, <2>4, <2>5 DEF Next, League
<1>2. [Next]_vars => [status = "CANCELLED" => status' = "CANCELLED"]_vars
  BY <1>1 DEF vars
<1> QED BY <1>2, PTL DEF Spec, CancelIsFinal

=============================================================================
