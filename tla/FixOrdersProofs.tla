--------------------------- MODULE FixOrdersProofs ---------------------------
(***************************************************************************)
(* Theorems about FixOrders, for any calls, channel and number of reports.    *)
(*                                                                         *)
(* Neither property is inductive.  What a caller is told holds at the venue    *)
(* because a message leaves at most once (Sent), because the reports on their *)
(* way agree with the venue's last word, and because an entry is gone once    *)
(* its answer is there (Told, Entries).                                      *)
(***************************************************************************)
EXTENDS FixOrders, SequenceTheorems, TLAPS

\* The message of c was handed to the engine.
Left(c) == pc[c] \in {"wait", "remove", "done"} /\ outcome[c] \notin {"unavailable", "unsent"}

Entries ==
  \A c \in Calls :
    /\ pc[c] \in {"send", "wait"} => c \in pending \/ answer[c] # None
    /\ c \in pending => /\ pc[c] \in {"send", "wait", "remove"} \/ outcome[c] \in {"unsent", "dropped"}
                        /\ answer[c] = None
    /\ outcome[c] # None <=> pc[c] = "done"

Sent ==
  /\ \A i \in DOMAIN outbox : venue[outbox[i]] = None /\ Left(outbox[i])
  /\ \A i, j \in DOMAIN outbox : outbox[i] = outbox[j] => i = j
  /\ \A c \in Calls : venue[c] # None => Left(c)

Told ==
  \A c \in Calls :
    /\ \A i \in DOMAIN reports[c] :
         venue[c] # None /\ (reports[c][i] = "new" \/ reports[c][i] = venue[c])
    /\ answer[c] # None => venue[c] # None /\ AnswerTo(c, venue[c]) = answer[c]
    /\ outcome[c] \in Answers => outcome[c] = answer[c]

Inv == TypeOK /\ Entries /\ Sent /\ Told

\* AnswerTo word by word.
LEMMA AnswerWords ==
  ASSUME NEW c \in Calls
  PROVE  /\ AnswerTo(c, "rejected") = "rejected" /\ AnswerTo(c, "filled") = "executed"
         /\ AnswerTo(c, "unpriced") = "failed" /\ AnswerTo(c, "quoted") = "failed"
         /\ AnswerTo(c, "new") = None
BY DEF AnswerTo, None

\* Init establishes the invariant.
LEMMA InitSound == Init => Inv
<1> SUFFICES ASSUME Init PROVE Inv
  OBVIOUS
<1>1. TypeOK
  <2>1. loggedOn \in BOOLEAN /\ engine \in BOOLEAN
    BY DEF Init
  <2>2. outbox \in Seq(Calls) /\ Len(outbox) <= Capacity
    BY FixAssumption DEF Init
  <2>3. reports \in [Calls -> Seq(Words)]
    BY DEF Init
  <2> QED BY <2>1, <2>2, <2>3 DEF Init, TypeOK
<1>2. Entries /\ Sent /\ Told
  BY DEF Init, Entries, Sent, Told, Left, Answers, None
<1> QED BY <1>1, <1>2 DEF Inv

\* The steps of a call keep the invariant.
LEMMA CallSound ==
  ASSUME Inv, NEW c \in Calls, Call(c) \/ DropCall(c)
  PROVE  Inv'
<1> USE DEF Inv, Go, End, None
<1>1. CASE CheckSession(c)
  BY <1>1 DEF CheckSession, TypeOK, Entries, Sent, Told, Left, Answers
<1>2. CASE Refuse(c)
  BY <1>2 DEF Refuse, TypeOK, Entries, Sent, Told, Left, Answers, Outcomes
<1>3. CASE Insert(c)
  BY <1>3 DEF Insert, TypeOK, Entries, Sent, Told, Left, Answers
<1>4. CASE EncodeFails(c)
  BY <1>4 DEF EncodeFails, TypeOK, Entries, Sent, Told, Left, Answers, Outcomes
<1>5. CASE Send(c)
  <2> USE <1>5 DEF Send
  <2>1. /\ outbox' \in Seq(Calls) /\ Len(outbox') <= Capacity
        /\ DOMAIN outbox' = 1..Len(outbox) + 1
        /\ \A i \in DOMAIN outbox : outbox'[i] = outbox[i]
        /\ outbox'[Len(outbox) + 1] = c
        /\ DOMAIN outbox = 1..Len(outbox)
    BY FixAssumption DEF TypeOK
  <2>2. venue[c] = None /\ \A i \in DOMAIN outbox : outbox[i] # c
    BY DEF Sent, Left
  <2>3. TypeOK' /\ Entries' /\ Told'
    BY <2>1 DEF TypeOK, Entries, Told, Answers
  <2>4. outcome[c] = None
    BY DEF Entries
  <2>5. Sent'
    BY <2>1, <2>2, <2>4 DEF TypeOK, Sent, Left
  <2> QED BY <2>3, <2>5
<1>6. CASE SendFails(c)
  BY <1>6 DEF SendFails, TypeOK, Entries, Sent, Told, Left, Answers, Outcomes
<1>7. CASE Answered(c)
  BY <1>7 DEF Answered, TypeOK, Entries, Sent, Told, Left, Answers, Outcomes
<1>8. CASE TimesOut(c)
  BY <1>8 DEF TimesOut, TypeOK, Entries, Sent, Told, Left, Answers
<1>9. CASE Remove(c)
  BY <1>9 DEF Remove, TypeOK, Entries, Sent, Told, Left, Answers, Outcomes
<1>10. CASE DropCall(c)
  BY <1>10 DEF DropCall, TypeOK, Entries, Sent, Told, Left, Answers, Outcomes
<1> QED BY <1>1, <1>2, <1>3, <1>4, <1>5, <1>6, <1>7, <1>8, <1>9, <1>10 DEF Call

\* A report taken out, or delivered again, leaves reports that were there.
LEMMA ReportsLeft ==
  ASSUME Inv, NEW c \in Calls, FromApp(c)
  PROVE  /\ reports' \in [Calls -> Seq(Words)]
         /\ \A d \in Calls : \A i \in DOMAIN reports'[d] :
              \E j \in DOMAIN reports[d] : reports'[d][i] = reports[d][j]
         /\ Head(reports[c]) \in {"new", venue[c]} /\ venue[c] # None
<1> USE DEF Inv, None
<1>0. reports \in [Calls -> Seq(Words)]
  BY DEF TypeOK
<1>1. reports[c] \in Seq(Words) /\ reports[c] # <<>>
  BY <1>0 DEF FromApp
<1>2. /\ Tail(reports[c]) \in Seq(Words)
      /\ \A i \in DOMAIN Tail(reports[c]) : i + 1 \in DOMAIN reports[c]
                                           /\ Tail(reports[c])[i] = reports[c][i + 1]
      /\ Head(reports[c]) = reports[c][1] /\ 1 \in DOMAIN reports[c]
  BY <1>1
<1>3. reports' = [reports EXCEPT ![c] = Tail(@)] \/ reports' = reports
  BY DEF FromApp
<1>4. ASSUME NEW d \in Calls, NEW i \in DOMAIN reports'[d]
      PROVE  \E j \in DOMAIN reports[d] : reports'[d][i] = reports[d][j]
  <2>1. reports'[d] = reports[d] \/ (d = c /\ reports'[d] = Tail(reports[c]))
    BY <1>0, <1>3
  <2>2. CASE d = c /\ reports'[d] = Tail(reports[c])
    BY <1>2, <2>2
  <2>3. CASE reports'[d] = reports[d]
    BY <2>3
  <2> QED BY <2>1, <2>2, <2>3
<1>5. reports' \in [Calls -> Seq(Words)]
  BY <1>2, <1>3 DEF TypeOK
<1>6. Head(reports[c]) \in {"new", venue[c]} /\ venue[c] # None
  BY <1>2 DEF Told
<1> QED BY <1>4, <1>5, <1>6

\* The callbacks keep it.
LEMMA FromAppSound ==
  ASSUME Inv, NEW c \in Calls, FromApp(c)
  PROVE  Inv'
<1> USE DEF Inv, None
<1> DEFINE r == Head(reports[c])
<1>1. UNCHANGED <<loggedOn, engine, outbox, pc, outcome, venue>>
  BY DEF FromApp
<1>2. CASE c \in pending /\ AnswerTo(c, r) # "none"
  <2>1. pending' = pending \ {c} /\ answer' = [answer EXCEPT ![c] = AnswerTo(c, r)]
    BY <1>2 DEF FromApp, Handle
  <2>2. r = venue[c] /\ AnswerTo(c, r) \in Answers
    <3>1. r \in {"new", venue[c]} /\ venue[c] # None /\ venue[c] \in Words \cup {None}
      BY ReportsLeft DEF TypeOK
    <3>2. r # "new" /\ r \in Words
      BY <1>2, <3>1, AnswerWords
    <3> QED BY <1>2, <3>1, <3>2 DEF AnswerTo, Answers
  <2>3. outcome[c] \notin Answers
    BY <1>2 DEF Entries, Answers
  <2>4. TypeOK'
    BY <1>1, <2>1, <2>2, ReportsLeft DEF TypeOK
  <2>5. Entries'
    BY <1>1, <2>1, <2>2 DEF Entries, TypeOK, Answers
  <2>6. Sent'
    BY <1>1 DEF Sent, Left
  <2>7. Told'
    <3> SUFFICES ASSUME NEW d \in Calls
                 PROVE  /\ \A i \in DOMAIN reports'[d] :
                             venue[d] # None /\ (reports'[d][i] = "new" \/ reports'[d][i] = venue[d])
                        /\ answer'[d] # None => venue[d] # None /\ AnswerTo(d, venue[d]) = answer'[d]
                        /\ outcome[d] \in Answers => outcome[d] = answer'[d]
      BY <1>1 DEF Told, AnswerTo
    <3>1. \A i \in DOMAIN reports'[d] :
            venue[d] # None /\ (reports'[d][i] = "new" \/ reports'[d][i] = venue[d])
      BY ReportsLeft DEF Told
    <3>2. CASE d = c
      BY <3>1, <3>2, <2>1, <2>2, <2>3, ReportsLeft DEF TypeOK
    <3>3. CASE d # c
      BY <3>1, <3>3, <2>1 DEF TypeOK, Told
    <3> QED BY <3>2, <3>3
  <2> QED BY <2>4, <2>5, <2>6, <2>7
<1>3. CASE ~(c \in pending /\ AnswerTo(c, r) # "none")
  <2>1. UNCHANGED <<pending, answer>>
    BY <1>3 DEF FromApp, Handle
  <2>2. TypeOK' /\ Entries' /\ Sent'
    BY <1>1, <2>1, ReportsLeft DEF TypeOK, Entries, Sent, Left
  <2>3. Told'
    <3> SUFFICES ASSUME NEW d \in Calls
                 PROVE  /\ \A i \in DOMAIN reports'[d] :
                             venue[d] # None /\ (reports'[d][i] = "new" \/ reports'[d][i] = venue[d])
                        /\ answer[d] # None => venue[d] # None /\ AnswerTo(d, venue[d]) = answer[d]
                        /\ outcome[d] \in Answers => outcome[d] = answer[d]
      BY <1>1, <2>1 DEF Told, AnswerTo
    <3> QED BY ReportsLeft DEF Told
  <2> QED BY <2>2, <2>3
<1> QED BY <1>2, <1>3

\* The engine keeps it: the message it takes has left and is not queued twice.
LEMMA TransmitSound ==
  ASSUME Inv, Transmit
  PROVE  Inv'
<1> USE DEF Inv, None
<1> DEFINE h == Head(outbox)
<1>1. /\ outbox' \in Seq(Calls) /\ Len(outbox') <= Capacity
      /\ \A i \in DOMAIN outbox' : i + 1 \in DOMAIN outbox /\ outbox'[i] = outbox[i + 1]
      /\ \A i \in DOMAIN outbox' : i \in Nat \ {0}
      /\ h = outbox[1] /\ 1 \in DOMAIN outbox /\ h \in Calls
  BY FixAssumption DEF Transmit, TypeOK
<1>2. venue[h] = None /\ Left(h) /\ \A i \in DOMAIN outbox' : outbox'[i] # h
  BY <1>1 DEF Sent
<1>3. venue' = [venue EXCEPT ![h] = "new"] \/ venue' = venue
  BY DEF Transmit
<1>4. UNCHANGED <<loggedOn, engine, pc, pending, outcome, answer, reports>>
  BY DEF Transmit, client
<1>5. \A d \in Calls : venue'[d] = venue[d] \/ (d = h /\ venue'[d] = "new")
  <2>1. venue \in [Calls -> Words \cup {None}]
    BY DEF TypeOK
  <2> QED BY <1>1, <1>3, <2>1
<1>6. TypeOK'
  BY <1>1, <1>3, <1>4, <1>5 DEF TypeOK, Words
<1>7. Entries'
  BY <1>4 DEF Entries
<1>8. Sent'
  BY <1>1, <1>2, <1>4, <1>5 DEF Sent, Left, TypeOK
<1>9. Told'
  <2>1. answer[h] = None /\ DOMAIN reports[h] = {}
    BY <1>1, <1>2 DEF Told
  <2> QED BY <1>1, <1>4, <1>5, <2>1 DEF Told, AnswerTo
<1> QED BY <1>6, <1>7, <1>8, <1>9

\* The venue keeps it: it changes its mind only while the order is open.
LEMMA VenueSound ==
  ASSUME Inv, NEW c \in Calls, VenueReports(c)
  PROVE  Inv'
<1> USE DEF Inv, None
<1>1. PICK r \in Final[c] \cup {"new"} : /\ venue' = [venue EXCEPT ![c] = r]
                                        /\ reports' = [reports EXCEPT ![c] = Append(@, r)]
  BY DEF VenueReports
<1>2. venue[c] = "new" /\ r \in Words
  BY DEF VenueReports, Final, Words
<1>3. UNCHANGED <<loggedOn, engine, outbox, pc, pending, outcome, answer>>
  BY DEF VenueReports, client
<1>4. /\ reports'[c] \in Seq(Words)
      /\ \A i \in DOMAIN reports'[c] : 
           reports'[c][i] = r \/ (i \in DOMAIN reports[c] /\ reports'[c][i] = reports[c][i])
  <2>1. reports \in [Calls -> Seq(Words)]
    BY DEF TypeOK
  <2>2. reports[c] \in Seq(Words) /\ reports'[c] = Append(reports[c], r)
    BY <1>1, <2>1
  <2> QED BY <1>2, <2>2
<1>5. TypeOK'
  BY <1>1, <1>2, <1>3, <1>4 DEF TypeOK
<1>6. Entries'
  BY <1>3 DEF Entries
<1>7. Sent'
  BY <1>1, <1>2, <1>3 DEF Sent, Left, TypeOK
<1>8. Told'
  <2>1. answer[c] = None
    BY <1>2, AnswerWords DEF Told
  <2> SUFFICES ASSUME NEW d \in Calls
               PROVE  /\ \A i \in DOMAIN reports'[d] :
                           venue'[d] # None /\ (reports'[d][i] = "new" \/ reports'[d][i] = venue'[d])
                      /\ answer[d] # None => venue'[d] # None /\ AnswerTo(d, venue'[d]) = answer[d]
                      /\ outcome[d] \in Answers => outcome[d] = answer[d]
    BY <1>3 DEF Told, AnswerTo
  <2>2. CASE d = c
    BY <1>1, <1>2, <1>4, <2>1, <2>2 DEF Told, TypeOK, Words
  <2>3. CASE d # c
    BY <1>1, <2>3 DEF Told, TypeOK
  <2> QED BY <2>2, <2>3
<1> QED BY <1>5, <1>6, <1>7, <1>8

\* The session and the engine's end keep it.
LEMMA SessionSound ==
  ASSUME Inv, Logon \/ Logout \/ EngineStops \/ UNCHANGED vars
  PROVE  Inv'
<1>1. UNCHANGED <<pc, pending, outcome, answer, venue, reports>>
  BY DEF Logon, Logout, EngineStops, vars, client
<1>2. loggedOn' \in BOOLEAN /\ engine' \in BOOLEAN
  BY DEF Logon, Logout, EngineStops, vars, Inv, TypeOK
<1>3. outbox' = outbox \/ outbox' = <<>>
  BY DEF Logon, Logout, EngineStops, vars
<1>4. outbox' \in Seq(Calls) /\ Len(outbox') <= Capacity
  <2>1. CASE outbox' = outbox
    BY <2>1 DEF Inv, TypeOK
  <2>2. CASE outbox' = <<>>
    BY <2>2, FixAssumption
  <2> QED BY <1>3, <2>1, <2>2
<1>5. TypeOK'
  BY <1>1, <1>2, <1>4 DEF Inv, TypeOK
<1>6. Entries' /\ Told'
  BY <1>1 DEF Inv, Entries, Told, AnswerTo
<1>7. Sent'
  BY <1>1, <1>3 DEF Inv, Sent, Left
<1> QED BY <1>5, <1>6, <1>7 DEF Inv

(***************************************************************************)
(* Every step of every call, callback, engine and venue keeps the invariant.  *)
(***************************************************************************)
THEOREM FixInductive == Spec => []Inv
<1>1. Inv /\ [Next]_vars => Inv'
  <2> SUFFICES ASSUME Inv, [Next]_vars PROVE Inv'
    OBVIOUS
  <2>1. ASSUME NEW c \in Calls, Call(c) \/ DropCall(c) PROVE Inv'
    BY <2>1, CallSound
  <2>2. ASSUME NEW c \in Calls, FromApp(c) PROVE Inv'
    BY <2>2, FromAppSound
  <2>3. ASSUME NEW c \in Calls, VenueReports(c) PROVE Inv'
    BY <2>3, VenueSound
  <2> QED BY <2>1, <2>2, <2>3, TransmitSound, SessionSound DEF Next
<1> QED BY InitSound, <1>1, PTL DEF Spec

(***************************************************************************)
(* A waiting call of request_quote or execute_trade can be answered or has    *)
(* been, and what was answered or timed out leaves no entry in the tables.    *)
(***************************************************************************)
THEOREM EntriesMatch == Spec => []EntriesAreCallers
<1>1. Inv => EntriesAreCallers
  BY DEF Inv, Entries, EntriesAreCallers, TypeOK, Answers, None
<1> QED BY <1>1, FixInductive, PTL

(***************************************************************************)
(* What execute_trade returns agrees with the venue, now and ever after.      *)
(***************************************************************************)
THEOREM AnswersAreTrue == Spec => []AnswersHold
<1>1. Inv => AnswersHold
  <2> SUFFICES ASSUME Inv, NEW o \in Orders
               PROVE  /\ outcome[o] = "executed" => venue[o] = "filled"
                      /\ outcome[o] = "failed"   => venue[o] = "unpriced"
                      /\ outcome[o] = "rejected" => venue[o] = "rejected"
                      /\ outcome[o] \in {"unavailable", "unsent"} =>
                           venue[o] = None /\ \A i \in DOMAIN outbox : outbox[i] # o
    BY DEF AnswersHold
  <2>1. o \in Calls /\ venue[o] \in {"filled", "unpriced", "rejected", "none", "new"}
    BY DEF Inv, TypeOK, Calls, Final, None
  <2>2. outcome[o] \in Answers => venue[o] # "none" /\ AnswerTo(o, venue[o]) = outcome[o]
    BY <2>1 DEF Inv, Told, Answers, None
  <2>3. outcome[o] \in {"unavailable", "unsent"} =>
          venue[o] = None /\ \A i \in DOMAIN outbox : outbox[i] # o
    BY <2>1 DEF Inv, Sent, Left
  <2> QED BY <2>1, <2>2, <2>3, AnswerWords DEF Answers, None
<1> QED BY <1>1, FixInductive, PTL
=============================================================================
