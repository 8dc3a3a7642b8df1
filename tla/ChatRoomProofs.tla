--------------------------- MODULE ChatRoomProofs ---------------------------
(***************************************************************************)
(* Theorems about ChatRoom, for any pages, messages and page size.         *)
(***************************************************************************)
EXTENDS ChatRoom, FiniteSetTheorems, SequenceTheorems, TLAPS

\* The slots hold what their pc promises.
LEMMA SlotTypes ==
  ASSUME TypeOK, NEW r \in Req
  PROVE  /\ req[r].pc \in {"idle", "create", "emit"}
         /\ req[r].pc = "idle" => req[r] = Idle
         /\ req[r].pc = "create" => req[r].from \in Page \cup {"REST"}
         /\ req[r].pc = "emit" => req[r].from \in Page /\ req[r].msg \in Msg
<1>1. req[r] \in {Idle} \cup Sending
  BY DEF TypeOK
<1>2. QED
  BY <1>1 DEF Idle, Sending

LEMMA PutTypes ==
  ASSUME TypeOK, NEW r \in Req, NEW q \in {Idle} \cup Sending, Put(r, q)
  PROVE  req' \in [Req -> {Idle} \cup Sending]
BY DEF TypeOK, Put

LEMMA FinishTypes ==
  ASSUME TypeOK, NEW r \in Req, Finish(r)
  PROVE  req' \in [Req -> {Idle} \cup Sending]
BY DEF TypeOK, Finish, Put

\* The last n of a sequence are n at most, and as long as there is a last one
\* it is among them.
LEMMA LastOfTypes ==
  ASSUME NEW s \in Seq(Msg), NEW n \in Nat \ {0}
  PROVE  /\ LastOf(s, n) \in Seq(Msg) /\ Len(LastOf(s, n)) <= n
         /\ ToSet(LastOf(s, n)) \subseteq ToSet(s)
         /\ s # <<>> => s[Len(s)] \in ToSet(LastOf(s, n))
<1> DEFINE k == IF Len(s) > n THEN Len(s) - n + 1 ELSE 1
           t == LastOf(s, n)
<1>1. Len(s) \in Nat /\ DOMAIN s = 1..Len(s) /\ \A i \in 1..Len(s) : s[i] \in Msg
  BY LenProperties, ElementOfSeq
<1>2. k \in 1..Len(s) + 1 /\ Len(s) - k + 1 <= n
  BY <1>1
<1>3. t = SubSeq(s, k, Len(s))
  BY DEF LastOf
<1> HIDE DEF k
<1>4. k \in Int /\ Len(s) \in Int /\ \A i \in k..Len(s) : s[i] \in Msg
  BY <1>1, <1>2
<1>5. /\ t \in Seq(Msg) /\ Len(t) = IF k <= Len(s) THEN Len(s) - k + 1 ELSE 0
      /\ \A i \in 1..Len(s) - k + 1 : t[i] = s[k + i - 1]
  BY <1>3, <1>4, SubSeqProperties
<1>6. DOMAIN t = 1..Len(t) /\ Len(t) = Len(s) - k + 1
  BY <1>1, <1>2, <1>5, LenProperties
<1>7. ASSUME NEW i \in DOMAIN t PROVE t[i] \in ToSet(s)
  <2>1. t[i] = s[k + i - 1] /\ k + i - 1 \in DOMAIN s
    BY <1>1, <1>2, <1>5, <1>6
  <2>2. QED
    BY <2>1 DEF ToSet
<1>8. ASSUME s # <<>> PROVE s[Len(s)] \in ToSet(t)
  <2>1. Len(s) >= 1
    BY <1>1, <1>8, EmptySeq
  <2>2. k <= Len(s)
    BY <1>1, <2>1 DEF k
  <2>3. Len(t) \in DOMAIN t /\ t[Len(t)] = s[Len(s)]
    BY <1>1, <1>2, <1>5, <1>6, <2>2
  <2>4. QED
    BY <2>3 DEF ToSet
<1>9. QED
  BY <1>1, <1>2, <1>5, <1>6, <1>7, <1>8 DEF ToSet

LEMMA Appended ==
  ASSUME NEW S, NEW s \in Seq(S), NEW x \in S
  PROVE  /\ Append(s, x) \in Seq(S)
         /\ DOMAIN Append(s, x) = 1..Len(s) + 1 /\ DOMAIN s = 1..Len(s) /\ Len(s) \in Nat
         /\ \A i \in DOMAIN s : i \in DOMAIN Append(s, x) /\ Append(s, x)[i] = s[i]
         /\ Append(s, x)[Len(s) + 1] = x
         /\ ToSet(Append(s, x)) = ToSet(s) \cup {x}
         /\ x \notin ToSet(s) /\ IsInjective(s) => IsInjective(Append(s, x))
<1> DEFINE t == Append(s, x)
<1>1. Len(s) \in Nat /\ DOMAIN s = 1..Len(s)
  BY LenProperties
<1>2. /\ t \in Seq(S) /\ Len(t) = Len(s) + 1
      /\ \A i \in 1..Len(s) : t[i] = s[i]
      /\ t[Len(s) + 1] = x
  BY AppendProperties
<1>3. DOMAIN t = 1..Len(s) + 1
  BY <1>2, LenProperties
<1> HIDE DEF t
<1>4. \A i \in DOMAIN t : i \in DOMAIN s \/ i = Len(s) + 1
  BY <1>1, <1>3
<1>5. DOMAIN s \subseteq DOMAIN t /\ Len(s) + 1 \in DOMAIN t
  BY <1>1, <1>3
<1>6. ToSet(t) = ToSet(s) \cup {x}
  BY <1>1, <1>2, <1>4, <1>5 DEF ToSet
<1>7. ASSUME x \notin ToSet(s), IsInjective(s) PROVE IsInjective(t)
  <2>1. \A i \in DOMAIN s : s[i] # x
    BY <1>7 DEF ToSet
  <2>2. QED
    BY <1>1, <1>2, <1>4, <1>7, <2>1 DEF IsInjective
<1>8. QED
  BY <1>1, <1>2, <1>3, <1>5, <1>6, <1>7 DEF t

-----------------------------------------------------------------------------
(* Types.  A page has a socket from the chat on, and an open one while its *)
(* join is being checked.                                                  *)

ConnInv ==
  /\ TypeOK
  /\ \A d \in Page :
       /\ history[d] \in {"none", "listing", "listed"} => socket[d] = "off"
       /\ join[d] = "checking" => socket[d] = "in"

LEMMA InitConnInv == Init => ConnInv
<1> SUFFICES ASSUME Init PROVE ConnInv
  OBVIOUS
<1>1. <<>> \in Seq(Msg) /\ Len(<<>>) = 0 /\ DOMAIN <<>> = {}
  BY EmptySeq
<1>2. IsInjective(<<>>)
  BY <1>1 DEF IsInjective
<1>3. QED
  BY <1>1, <1>2, ChatRoomAssumption DEF Init, ConnInv, TypeOK, Idle

LEMMA PageConnInv ==
  ASSUME ConnInv, NEW d \in Page,
         \/ OpenMatches(d) \/ GetMyMatches(d) \/ Open(d) \/ Leave(d) \/ Reconnect(d)
         \/ ShowHistory(d) \/ Receive(d)
         \/ HandleConnection(d) \/ JoinMatch(d) \/ EnterRoom(d) \/ GetMessages(d)
  PROVE  ConnInv'
<1> USE DEF ConnInv, TypeOK, server, sockets, lists
<1>e. <<>> \in Seq(Msg) /\ Len(<<>>) = 0 /\ Take \in Nat
  BY EmptySeq, ChatRoomAssumption
<1>1. CASE OpenMatches(d)
  BY <1>1 DEF OpenMatches
<1>2. CASE GetMyMatches(d)
  <2>1. saved # <<>> => Last(saved) \in Msg
    <3>1. saved # <<>> => Len(saved) \in 1..Len(saved)
      BY EmptySeq
    <3>2. QED
      BY <3>1, ElementOfSeq DEF Last
  <2>2. preview' \in [Page -> Msg \cup {NoMsg}]
    BY <1>2, <2>1 DEF GetMyMatches
  <2>3. QED
    BY <1>2, <2>2 DEF GetMyMatches
<1>3. CASE Open(d)
  <2>1. d \notin room
    BY <1>3 DEF Open, HasButton
  <2>2. QED
    BY <1>3, <2>1 DEF Open
<1>4. CASE Leave(d)
  BY <1>4, <1>e DEF Leave, Unplug
<1>5. CASE Reconnect(d)
  BY <1>5, <1>e DEF Reconnect, Unplug
<1>6. CASE ShowHistory(d)
  BY <1>6, <1>e DEF ShowHistory
<1>7. CASE Receive(d)
  <2>1. Head(inbox[d]) \in Msg /\ Tail(inbox[d]) \in Seq(Msg)
    BY <1>7, HeadTailProperties DEF Receive
  <2>2. Append(shown[d], Head(inbox[d])) \in Seq(Msg)
    BY <2>1, AppendProperties
  <2>3. QED
    BY <1>7, <2>1, <2>2 DEF Receive
<1>8. CASE HandleConnection(d)
  <2>1. d \notin room /\ socket[d] = "connecting" /\ join[d] # "checking"
    BY <1>8 DEF HandleConnection
  <2>2. CASE socket' = [socket EXCEPT ![d] = "in"] /\ UNCHANGED join
    BY <1>8, <2>1, <2>2 DEF HandleConnection
  <2>3. CASE socket' = [socket EXCEPT ![d] = "off"] /\ join' = [join EXCEPT ![d] = "none"]
    BY <1>8, <2>1, <2>3 DEF HandleConnection
  <2>4. QED
    BY <1>8, <2>2, <2>3 DEF HandleConnection
<1>9. CASE JoinMatch(d)
  BY <1>9 DEF JoinMatch
<1>10. CASE EnterRoom(d)
  BY <1>10 DEF EnterRoom
<1>11. CASE GetMessages(d)
  <2>1. LastOf(saved, Take) \in Seq(Msg) /\ Len(LastOf(saved, Take)) <= Take
    BY LastOfTypes, ChatRoomAssumption
  <2>2. QED
    BY <1>11, <2>1 DEF GetMessages
<1>12. QED
  BY <1>1, <1>2, <1>3, <1>4, <1>5, <1>6, <1>7, <1>8, <1>9, <1>10, <1>11

LEMMA SendConnInv ==
  ASSUME ConnInv, NEW r \in Req, BeginSend(r) \/ Step(r)
  PROVE  ConnInv'
<1> USE DEF ConnInv, server, sockets, lists
<1>1. CASE BeginSend(r)
  <2>1. req' \in [Req -> {Idle} \cup Sending]
    BY <1>1, PutTypes DEF BeginSend, Sending
  <2>2. QED
    BY <1>1, <2>1 DEF BeginSend, TypeOK
<1>2. CASE CreateMessage(r)
  <2>1. PICK m \in Msg \ ToSet(saved) :
          /\ saved' = Append(saved, m)
          /\ IF req[r].from = "REST"
             THEN Finish(r) /\ UNCHANGED watch
             ELSE /\ Put(r, [pc |-> "emit", from |-> req[r].from, msg |-> m])
                  /\ watch' = [watch EXCEPT ![m] = Ready]
    BY <1>2 DEF CreateMessage
  <2>2. saved' \in Seq(Msg) /\ IsInjective(saved')
    BY <2>1, Appended DEF TypeOK
  <2>3. CASE req[r].from = "REST"
    BY <1>2, <2>1, <2>2, <2>3, FinishTypes DEF CreateMessage, TypeOK
  <2>4. CASE req[r].from # "REST"
    <3>1. req[r].from \in Page
      BY <1>2, <2>4, SlotTypes DEF CreateMessage
    <3>2. [pc |-> "emit", from |-> req[r].from, msg |-> m] \in Sending
      BY <3>1 DEF Sending
    <3>3. req' \in [Req -> {Idle} \cup Sending]
      BY <2>1, <2>4, <3>2, PutTypes
    <3>4. watch' \in [Msg -> SUBSET Page]
      <4>1. Ready \subseteq Page /\ watch \in [Msg -> SUBSET Page]
        BY DEF TypeOK, Ready
      <4>2. QED
        BY <2>1, <2>4, <4>1
    <3>5. QED
      BY <1>2, <2>2, <3>3, <3>4 DEF CreateMessage, TypeOK
  <2>5. QED
    BY <2>3, <2>4
<1>3. CASE Emit(r)
  <2>1. req[r].msg \in Msg
    BY <1>3, SlotTypes DEF Emit
  <2>2. ASSUME NEW d \in Page PROVE Append(inbox[d], req[r].msg) \in Seq(Msg) /\ inbox[d] \in Seq(Msg)
    BY <2>1, AppendProperties DEF TypeOK
  <2>3. inbox' \in [Page -> Seq(Msg)]
    BY <1>3, <2>2 DEF Emit
  <2>4. QED
    BY <1>3, <2>3, FinishTypes DEF Emit, TypeOK
<1>4. QED
  BY <1>1, <1>2, <1>3 DEF Step

LEMMA NextConnInv == ConnInv /\ [Next]_vars => ConnInv'
<1> SUFFICES ASSUME ConnInv, [Next]_vars PROVE ConnInv'
  OBVIOUS
<1>1. CASE Unmatch \/ Rematch \/ UNCHANGED vars
  BY <1>1 DEF Unmatch, Rematch, vars, server, sockets, lists, ConnInv, TypeOK
<1>2. QED
  BY <1>1, PageConnInv, SendConnInv DEF Next

(* Every variable keeps its type: no two rows are one message, who is in   *)
(* the room has an open socket, and no answer is longer than the page.     *)
THEOREM TypeCorrect == Spec => []TypeOK
<1>1. ConnInv => TypeOK
  BY DEF ConnInv
<1>2. QED
  BY <1>1, InitConnInv, NextConnInv, PTL DEF Spec

-----------------------------------------------------------------------------
(* The chat and the list that led to it.  What the list showed is a row,   *)
(* and the answer on its way has that row or a later one.                  *)

\* The messages have m, or one saved after it.
Reaches(messages, m) ==
  \E i, j \in DOMAIN saved : i <= j /\ saved[i] = m /\ saved[j] \in ToSet(messages)

ListInv ==
  /\ ConnInv
  /\ \A d \in Page : preview[d] # NoMsg =>
       /\ preview[d] \in ToSet(saved)
       /\ history[d] = "answered" => Reaches(answer[d], preview[d])
       /\ history[d] = "shown" => Reaches(shown[d], preview[d])

\* More rows and more messages reach what fewer reach.
LEMMA StillReaches ==
  ASSUME TypeOK, NEW messages, NEW more, ToSet(messages) \subseteq ToSet(more),
         NEW m, Reaches(messages, m),
         \A i \in DOMAIN saved : i \in DOMAIN saved' /\ saved'[i] = saved[i]
  PROVE  Reaches(more, m)'
BY DEF Reaches

\* The latest messages reach every row.
LEMMA LatestReach ==
  ASSUME TypeOK, NEW m \in ToSet(saved)
  PROVE  Reaches(LastOf(saved, Take), m)
<1>1. PICK i \in DOMAIN saved : saved[i] = m
  BY DEF ToSet
<1>2. saved \in Seq(Msg) /\ DOMAIN saved = 1..Len(saved) /\ Len(saved) \in Nat
  BY LenProperties DEF TypeOK
<1>3. saved # <<>>
  BY <1>1, EmptySeq
<1>4. saved[Len(saved)] \in ToSet(LastOf(saved, Take))
  BY <1>2, <1>3, LastOfTypes, ChatRoomAssumption
<1>5. Len(saved) \in DOMAIN saved /\ i <= Len(saved)
  BY <1>1, <1>2
<1>6. QED
  BY <1>1, <1>4, <1>5 DEF Reaches

LEMMA InitListInv == Init => ListInv
BY InitConnInv DEF Init, ListInv

LEMMA PageListInv ==
  ASSUME ListInv, NEW d \in Page,
         \/ OpenMatches(d) \/ GetMyMatches(d) \/ Open(d) \/ Leave(d) \/ Reconnect(d)
         \/ ShowHistory(d) \/ Receive(d)
         \/ HandleConnection(d) \/ JoinMatch(d) \/ EnterRoom(d) \/ GetMessages(d)
  PROVE  ListInv'
<1>t. ConnInv /\ TypeOK /\ ConnInv'
  BY PageConnInv DEF ListInv, ConnInv
<1>s. saved' = saved
  BY DEF OpenMatches, GetMyMatches, Open, Leave, Reconnect, ShowHistory, Receive, HandleConnection,
     JoinMatch, EnterRoom, GetMessages, server
<1>r. \A messages, m : Reaches(messages, m)' <=> Reaches(messages, m)
  BY <1>s DEF Reaches
<1> SUFFICES ASSUME NEW e \in Page, preview'[e] # NoMsg
             PROVE  /\ preview'[e] \in ToSet(saved)
                    /\ history'[e] = "answered" => Reaches(answer'[e], preview'[e])
                    /\ history'[e] = "shown" => Reaches(shown'[e], preview'[e])
  BY <1>t, <1>s, <1>r DEF ListInv, Reaches
<1> USE <1>t DEF ListInv, TypeOK
<1>1. CASE OpenMatches(d)
  BY <1>1 DEF OpenMatches
<1>2. CASE GetMyMatches(d)
  <2>1. saved # <<>> => Last(saved) \in ToSet(saved)
    <3>1. saved # <<>> => Len(saved) \in DOMAIN saved
      BY LenProperties, EmptySeq
    <3>2. QED
      BY <3>1 DEF Last, ToSet
  <2>2. QED
    BY <1>2, <2>1 DEF GetMyMatches
<1>3. CASE Open(d)
  BY <1>3 DEF Open
<1>4. CASE Leave(d)
  BY <1>4 DEF Leave
<1>5. CASE ShowHistory(d)
  BY <1>5 DEF ShowHistory
<1>6. CASE Receive(d)
  <2>1. Head(inbox[d]) \in Msg
    BY <1>6, HeadTailProperties DEF Receive
  <2>2. shown[d] \in Seq(Msg)
    OBVIOUS
  <2>3. ToSet(shown[d]) \subseteq ToSet(Append(shown[d], Head(inbox[d])))
    BY <2>1, <2>2, Appended
  <2>4. shown'[d] = Append(shown[d], Head(inbox[d])) /\ \A f \in Page \ {d} : shown'[f] = shown[f]
    BY <1>6 DEF Receive
  <2>5. ToSet(shown[e]) \subseteq ToSet(shown'[e])
    BY <2>3, <2>4
  <2>6. QED
    BY <1>6, <2>5 DEF Receive, Reaches
<1>7. CASE GetMessages(d)
  <2>1. preview[e] # NoMsg => Reaches(LastOf(saved, Take), preview[e])
    BY LatestReach
  <2>2. QED
    BY <1>7, <2>1 DEF GetMessages
<1>8. CASE Reconnect(d) \/ HandleConnection(d) \/ JoinMatch(d) \/ EnterRoom(d)
  BY <1>8 DEF Reconnect, HandleConnection, JoinMatch, EnterRoom, lists
<1>9. QED
  BY <1>1, <1>2, <1>3, <1>4, <1>5, <1>6, <1>7, <1>8

\* Rows are only added, and the lists of the pages left alone.
LEMMA RowsListInv ==
  ASSUME ListInv, ConnInv', UNCHANGED lists,
         \A i \in DOMAIN saved : i \in DOMAIN saved' /\ saved'[i] = saved[i]
  PROVE  ListInv'
<1>1. \A m \in ToSet(saved) : m \in ToSet(saved')
  BY DEF ToSet
<1>2. \A messages, m : Reaches(messages, m) => Reaches(messages, m)'
  BY DEF Reaches
<1>3. QED
  BY <1>1, <1>2 DEF ListInv, lists

LEMMA NextListInv == ListInv /\ [Next]_vars => ListInv'
<1> SUFFICES ASSUME ListInv, [Next]_vars PROVE ListInv'
  OBVIOUS
<1>t. ConnInv'
  BY NextConnInv DEF ListInv
<1>1. ASSUME NEW r \in Req, CreateMessage(r) PROVE ListInv'
  <2>1. \A i \in DOMAIN saved : i \in DOMAIN saved' /\ saved'[i] = saved[i]
    BY <1>1, Appended DEF CreateMessage, ListInv, ConnInv, TypeOK
  <2>2. QED
    BY <1>1, <1>t, <2>1, RowsListInv DEF CreateMessage
<1>2. ASSUME NEW r \in Req, BeginSend(r) \/ Emit(r) PROVE ListInv'
  BY <1>2, <1>t, RowsListInv DEF BeginSend, Emit
<1>3. CASE Unmatch \/ Rematch \/ UNCHANGED vars
  BY <1>3, <1>t, RowsListInv DEF Unmatch, Rematch, vars, server
<1>4. QED
  BY <1>1, <1>2, <1>3, PageListInv DEF Next, Step

(* A chat that has its history shows the message that the list showed, or  *)
(* a later one, whatever was sent between the requests of the two pages.   *)
THEOREM NotBehindTheListHolds == Spec => []NotBehindTheList
<1>1. ListInv => NotBehindTheList
  BY DEF ListInv, NotBehindTheList, Reaches
<1>2. QED
  BY <1>1, InitListInv, NextListInv, PTL DEF Spec

-----------------------------------------------------------------------------
(* What a ready page hears.  First how its messages change.                *)

LEMMA Concat ==
  ASSUME NEW S, NEW s \in Seq(S), NEW t \in Seq(S)
  PROVE  s \o t \in Seq(S) /\ ToSet(s \o t) = ToSet(s) \cup ToSet(t)
<1>1. /\ s \o t \in Seq(S) /\ Len(s \o t) = Len(s) + Len(t)
      /\ \A i \in 1..Len(s) + Len(t) :
           (s \o t)[i] = IF i <= Len(s) THEN s[i] ELSE t[i - Len(s)]
  BY ConcatProperties
<1>2. /\ DOMAIN s = 1..Len(s) /\ DOMAIN t = 1..Len(t)
      /\ Len(s) \in Nat /\ Len(t) \in Nat
  BY LenProperties
<1> DEFINE c == s \o t
<1>3. DOMAIN c = 1..Len(s) + Len(t)
  BY <1>1, LenProperties
<1>4. /\ \A i \in 1..Len(s) : i \in DOMAIN c /\ c[i] = s[i]
      /\ \A i \in 1..Len(t) : Len(s) + i \in DOMAIN c /\ c[Len(s) + i] = t[i]
      /\ \A i \in DOMAIN c : \/ i \in 1..Len(s) /\ c[i] = s[i]
                             \/ i - Len(s) \in 1..Len(t) /\ c[i] = t[i - Len(s)]
  BY <1>1, <1>2, <1>3
<1> HIDE DEF c
<1>5. ToSet(c) \subseteq ToSet(s) \cup ToSet(t)
  BY <1>2, <1>4 DEF ToSet
<1>6. ToSet(s) \subseteq ToSet(c) /\ ToSet(t) \subseteq ToSet(c)
  BY <1>2, <1>4 DEF ToSet
<1>7. QED
  BY <1>1, <1>5, <1>6 DEF c

\* What was under way is shown, and what is sent comes last.
LEMMA HeadShown ==
  ASSUME NEW S, NEW s \in Seq(S), NEW t \in Seq(S), t # <<>>
  PROVE  Append(s, Head(t)) \o Tail(t) = s \o t
<1>1. Len(t) \in Nat /\ Len(t) >= 1
  BY EmptySeq
<1>2. Head(t) \in S /\ Tail(t) \in Seq(S) /\ Head(t) = t[1]
  BY HeadTailProperties
<1>3. <<t[1]>> \o Tail(t) = t
  <2>1. SubSeq(t, 1, Len(t)) = <<t[1]>> \o SubSeq(t, 2, Len(t))
    <3>1. 1 \in 1..Len(t) /\ Len(t) \in 1..Len(t) /\ 1 + 1 = 2
      BY <1>1
    <3>2. SubSeq(t, 1, Len(t)) = <<t[1]>> \o SubSeq(t, 1 + 1, Len(t))
      BY <3>1, SubSeqRecursiveFirst
    <3>3. QED
      BY <3>1, <3>2
  <2>2. QED
    BY <2>1, SubSeqFull, TailIsSubSeq
<1>4. Append(s, Head(t)) = s \o <<Head(t)>> /\ <<Head(t)>> \in Seq(S)
  BY <1>2, AppendIsConcat
<1>5. QED
  BY <1>2, <1>3, <1>4, ConcatAssociative

LEMMA SentLast ==
  ASSUME NEW S, NEW s \in Seq(S), NEW t \in Seq(S), NEW x \in S
  PROVE  s \o Append(t, x) = Append(s \o t, x)
<1>1. Append(t, x) = t \o <<x>> /\ <<x>> \in Seq(S)
  BY AppendIsConcat
<1>2. s \o t \in Seq(S)
  BY Concat
<1>3. Append(s \o t, x) = (s \o t) \o <<x>>
  BY <1>2, AppendIsConcat
<1>4. QED
  BY <1>1, <1>3, ConcatAssociative

-----------------------------------------------------------------------------
(* Who watches a message is ready; whatever is seen anywhere is a row; a   *)
(* row is about to be sent by one request at most; and until then no page  *)
(* that watches it has it, afterwards each has it once.                    *)

WatchInv == \A m \in Msg : watch[m] \subseteq Ready

Known ==
  /\ \A d \in Page : ToSet(shown[d]) \cup ToSet(inbox[d]) \cup ToSet(answer[d]) \subseteq ToSet(saved)
  /\ \A r \in Req : req[r].pc = "emit" => req[r].msg \in ToSet(saved)
  /\ \A m \in Msg \ ToSet(saved) : watch[m] = {}

OneSender ==
  \A r, s \in Req :
    req[r].pc = "emit" /\ req[s].pc = "emit" /\ req[r].msg = req[s].msg => r = s

\* In these messages m is there once, or not at all.
OnceIn(m, messages) ==
  \A i, j \in DOMAIN messages : messages[i] = m /\ messages[j] = m => i = j
Told ==
  \A m \in Msg : \A d \in watch[m] :
    OnceIn(m, Coming(d)) /\ (m \in ToSet(Coming(d)) <=> ~Unsent(m))

Parts == WatchInv /\ Known /\ OneSender /\ Told /\ SameOrder
HeardInv == ConnInv /\ Parts

LEMMA InitHeardInv == Init => HeardInv
<1> SUFFICES ASSUME Init PROVE HeardInv
  OBVIOUS
<1>1. ToSet(<<>>) = {}
  BY EmptySeq DEF ToSet
<1>2. QED
  BY <1>1, InitConnInv DEF Init, HeardInv, Parts, WatchInv, Known, OneSender, Told, SameOrder, Idle

LEMMA ComingTypes ==
  ASSUME TypeOK, NEW d \in Page
  PROVE  /\ Coming(d) \in Seq(Msg)
         /\ ToSet(Coming(d)) = ToSet(shown[d]) \cup ToSet(inbox[d])
BY Concat DEF TypeOK, Coming

\* As long as a page watches, nothing but a send changes its messages.
LEMMA QuietPages ==
  ASSUME HeardInv, \A m \in Msg : Unsent(m)' <=> Unsent(m),
         \A m \in Msg : watch'[m] \subseteq watch[m],
         \A m \in Msg : \A d \in watch'[m] : Coming(d)' = Coming(d)
  PROVE  Told' /\ SameOrder'
<1> USE DEF HeardInv, Parts
<1>2. Told'
  BY DEF Told
<1>3. SameOrder'
  <2>1. \A m, n \in Msg : \A d \in watch'[m] : Before(d, m, n)' <=> Before(d, m, n)
    BY DEF Before
  <2>2. SUFFICES ASSUME NEW m \in Msg, NEW n \in Msg,
                        NEW d \in watch'[m] \cap watch'[n], NEW e \in watch'[m] \cap watch'[n],
                        m # n, Before(d, m, n)'
                 PROVE  ~Before(e, n, m)'
    BY DEF SameOrder
  <2>3. Before(d, m, n) /\ (Before(e, n, m)' <=> Before(e, n, m))
    BY <2>1, <2>2
  <2>4. d \in watch[m] \cap watch[n] /\ e \in watch[m] \cap watch[n]
    OBVIOUS
  <2>5. QED
    BY <2>2, <2>3, <2>4 DEF SameOrder
<1>4. QED
  BY <1>2, <1>3

-----------------------------------------------------------------------------
(* The steps of the pages.                                                 *)

\* Who reads and shows leaves nothing unknown and nobody unwatched.
LEMMA PageParts ==
  ASSUME HeardInv, NEW d \in Page,
         \/ OpenMatches(d) \/ GetMyMatches(d) \/ Open(d) \/ Leave(d) \/ Reconnect(d)
         \/ ShowHistory(d) \/ Receive(d)
         \/ HandleConnection(d) \/ JoinMatch(d) \/ EnterRoom(d) \/ GetMessages(d)
  PROVE  Parts'
<1> USE DEF HeardInv, ConnInv, Parts
<1>s. saved' = saved /\ req' = req
  BY DEF OpenMatches, GetMyMatches, Open, Leave, Reconnect, ShowHistory, Receive, HandleConnection,
     JoinMatch, EnterRoom, GetMessages, server
<1>w. watch' = watch \/ watch' = [m \in Msg |-> watch[m] \ {d}]
  BY DEF OpenMatches, GetMyMatches, Open, Leave, Reconnect, Unplug, ShowHistory, Receive,
     HandleConnection, JoinMatch, EnterRoom, GetMessages
<1>v. \A m \in Msg : watch'[m] \subseteq watch[m] /\ watch[m] \subseteq Page
  BY <1>w DEF TypeOK
\* d leaves the watchers together with its history and its room.
<1>1. WatchInv'
  <2>1. SUFFICES ASSUME NEW m \in Msg, NEW e \in watch'[m]
                 PROVE  e \in room' /\ history'[e] = "shown"
    BY DEF WatchInv, Ready
  <2>2. e \in watch[m] /\ e \in Page /\ e \in room /\ history[e] = "shown" /\ socket[e] = "in"
    BY <1>v, <2>1 DEF WatchInv, Ready, TypeOK
  <2>3. CASE Leave(d) \/ Reconnect(d)
    <3>1. e # d
      BY <2>1, <2>3 DEF Leave, Reconnect, Unplug
    <3>2. QED
      BY <2>2, <2>3, <3>1 DEF Leave, Reconnect, Unplug, lists, TypeOK
  <2>4. CASE OpenMatches(d) \/ GetMyMatches(d) \/ Open(d) \/ ShowHistory(d) \/ GetMessages(d)
    BY <2>2, <2>4 DEF OpenMatches, GetMyMatches, Open, HasButton, ShowHistory, GetMessages, sockets,
       TypeOK
  <2>5. CASE Receive(d) \/ HandleConnection(d) \/ JoinMatch(d) \/ EnterRoom(d)
    BY <2>2, <2>5 DEF Receive, HandleConnection, JoinMatch, EnterRoom, lists
  <2>6. QED
    BY <2>3, <2>4, <2>5
<1>2. Known'
  <2>1. ToSet(<<>>) = {}
    BY EmptySeq DEF ToSet
  <2>2. \A e \in Page \ {d} : shown'[e] = shown[e] /\ inbox'[e] = inbox[e] /\ answer'[e] = answer[e]
    BY DEF OpenMatches, GetMyMatches, Open, Leave, Reconnect, Unplug, ShowHistory, Receive,
       HandleConnection, JoinMatch, EnterRoom, GetMessages, sockets, lists, TypeOK
  <2>3. ToSet(shown'[d]) \cup ToSet(inbox'[d]) \cup ToSet(answer'[d]) \subseteq ToSet(saved)
    <3>1. CASE Leave(d) \/ Reconnect(d) \/ ShowHistory(d)
      BY <2>1, <3>1 DEF Leave, Reconnect, Unplug, ShowHistory, sockets, lists, Known, TypeOK
    <3>2. CASE Receive(d)
      <4>1. shown[d] \in Seq(Msg) /\ inbox[d] \in Seq(Msg) /\ inbox[d] # <<>>
        BY <3>2 DEF Receive, TypeOK
      <4>2. Head(inbox[d]) \in Msg /\ Tail(inbox[d]) \in Seq(Msg)
        BY <4>1, HeadTailProperties
      <4>3. Append(shown[d], Head(inbox[d])) \o Tail(inbox[d]) = shown[d] \o inbox[d]
        BY <4>1, HeadShown
      <4>4. Append(shown[d], Head(inbox[d])) \in Seq(Msg)
        BY <4>1, <4>2, Appended
      <4>5. ToSet(Append(shown[d], Head(inbox[d]))) \cup ToSet(Tail(inbox[d]))
              = ToSet(shown[d]) \cup ToSet(inbox[d])
        <5>1. ToSet(Append(shown[d], Head(inbox[d])) \o Tail(inbox[d]))
                = ToSet(Append(shown[d], Head(inbox[d]))) \cup ToSet(Tail(inbox[d]))
          BY <4>2, <4>4, Concat
        <5>2. ToSet(shown[d] \o inbox[d]) = ToSet(shown[d]) \cup ToSet(inbox[d])
          BY <4>1, Concat
        <5>3. QED
          BY <4>3, <5>1, <5>2
      <4>6. /\ shown'[d] = Append(shown[d], Head(inbox[d])) /\ inbox'[d] = Tail(inbox[d])
            /\ answer'[d] = answer[d]
        BY <3>2 DEF Receive, TypeOK
      <4>7. QED
        BY <4>5, <4>6 DEF Known
    <3>3. CASE GetMessages(d)
      <4>1. ToSet(LastOf(saved, Take)) \subseteq ToSet(saved)
        BY LastOfTypes, ChatRoomAssumption DEF TypeOK
      <4>2. /\ shown'[d] = shown[d] /\ inbox'[d] = inbox[d]
            /\ answer'[d] = LastOf(saved, Take)
        BY <3>3 DEF GetMessages, sockets, TypeOK
      <4>3. QED
        BY <4>1, <4>2 DEF Known
    <3>4. CASE \/ OpenMatches(d) \/ GetMyMatches(d) \/ Open(d)
               \/ HandleConnection(d) \/ JoinMatch(d) \/ EnterRoom(d)
      BY <3>4 DEF OpenMatches, GetMyMatches, Open, HandleConnection, JoinMatch, EnterRoom, sockets,
         lists, Known
    <3>5. QED
      BY <3>1, <3>2, <3>3, <3>4
  <2>4. QED
    BY <1>s, <1>v, <2>2, <2>3 DEF Known
\* A page that still watches keeps its messages.
<1>3. ASSUME NEW m \in Msg, NEW e \in watch'[m]
      PROVE  Coming(e)' = Coming(e)
  <2>1. e \in Page /\ e \in room /\ history[e] = "shown"
    BY <1>3, <1>v DEF WatchInv, Ready
  <2>2. CASE Leave(d) \/ Reconnect(d)
    <3>1. e # d
      BY <1>3, <2>2 DEF Leave, Reconnect, Unplug
    <3>2. QED
      BY <2>1, <2>2, <3>1 DEF Leave, Reconnect, Unplug, lists, Coming, TypeOK
  <2>3. CASE Receive(d)
    <3>1. CASE e = d
      <4>1. shown[d] \in Seq(Msg) /\ inbox[d] \in Seq(Msg) /\ inbox[d] # <<>>
        BY <2>3 DEF Receive, TypeOK
      <4>2. shown'[d] = Append(shown[d], Head(inbox[d])) /\ inbox'[d] = Tail(inbox[d])
        BY <2>3 DEF Receive, TypeOK
      <4>3. QED
        BY <3>1, <4>1, <4>2, HeadShown DEF Coming
    <3>2. CASE e # d
      BY <2>1, <2>3, <3>2 DEF Receive, Coming, TypeOK
    <3>3. QED
      BY <3>1, <3>2
  <2>4. CASE OpenMatches(d) \/ GetMyMatches(d) \/ Open(d) \/ ShowHistory(d) \/ GetMessages(d)
    BY <2>1, <2>4 DEF OpenMatches, GetMyMatches, Open, ShowHistory, GetMessages, sockets, Coming,
       TypeOK
  <2>5. CASE HandleConnection(d) \/ JoinMatch(d) \/ EnterRoom(d)
    BY <2>5 DEF HandleConnection, JoinMatch, EnterRoom, lists, Coming
  <2>6. QED
    BY <2>2, <2>3, <2>4, <2>5
<1>4. \A m \in Msg : Unsent(m)' <=> Unsent(m)
  BY <1>s DEF Unsent
<1>5. Told' /\ SameOrder'
  BY <1>v, <1>3, <1>4, QuietPages
<1>6. OneSender'
  BY <1>s DEF OneSender
<1>7. QED
  BY <1>1, <1>2, <1>5, <1>6

-----------------------------------------------------------------------------
(* The steps of the sends.                                                 *)

\* A new row is watched by the ready pages, and none of them has it yet.
LEMMA CreateParts ==
  ASSUME HeardInv, NEW r \in Req, CreateMessage(r)
  PROVE  Parts'
<1> USE DEF HeardInv, ConnInv, Parts
<1>1. PICK m \in Msg \ ToSet(saved) :
        /\ saved' = Append(saved, m)
        /\ IF req[r].from = "REST"
           THEN Finish(r) /\ UNCHANGED watch
           ELSE /\ Put(r, [pc |-> "emit", from |-> req[r].from, msg |-> m])
                /\ watch' = [watch EXCEPT ![m] = Ready]
  BY DEF CreateMessage
<1>2. UNCHANGED <<room, shown, inbox, answer, history>> /\ req[r].pc = "create"
  BY DEF CreateMessage, sockets, lists
<1>3. ToSet(saved') = ToSet(saved) \cup {m}
  BY <1>1, Appended DEF TypeOK
<1>4. \A s \in Req \ {r} : req'[s] = req[s]
  BY <1>1 DEF Finish, Put, TypeOK
<1>5. \/ req'[r] = Idle /\ watch' = watch
      \/ /\ req'[r].pc = "emit" /\ req'[r].msg = m
         /\ watch'[m] = Ready /\ \A n \in Msg \ {m} : watch'[n] = watch[n]
  BY <1>1 DEF Finish, Put, TypeOK
<1>6. \A n \in Msg \ {m} : watch'[n] = watch[n]
  BY <1>5
<1>7. Ready' = Ready /\ \A d : Coming(d)' = Coming(d)
  BY <1>2 DEF Ready, Coming
<1>8. \A s \in Req : req[s].pc = "emit" => req[s].msg # m
  BY DEF Known
<1>9. WatchInv'
  BY <1>5, <1>7 DEF WatchInv
<1>10. Known'
  <2>1. \A d \in Page : ToSet(shown'[d]) \cup ToSet(inbox'[d]) \cup ToSet(answer'[d]) \subseteq ToSet(saved')
    BY <1>2, <1>3 DEF Known
  <2>2. \A s \in Req : req'[s].pc = "emit" => req'[s].msg \in ToSet(saved')
    BY <1>3, <1>4, <1>5 DEF Known, Idle
  <2>3. \A n \in Msg \ ToSet(saved') : watch'[n] = {}
    BY <1>3, <1>6 DEF Known
  <2>4. QED
    BY <2>1, <2>2, <2>3 DEF Known
<1>11. OneSender'
  BY <1>4, <1>5, <1>8 DEF OneSender, Idle
<1>12. \A n \in Msg \ {m} : Unsent(n)' <=> Unsent(n)
  BY <1>2, <1>4, <1>5 DEF Unsent, Idle
<1>13. \A d \in Page : m \notin ToSet(Coming(d))
  BY ComingTypes DEF Known
<1>14. \A d \in watch'[m] : d \in Page /\ Unsent(m)'
  <2>1. CASE req'[r] = Idle /\ watch' = watch
    BY <2>1 DEF Known
  <2>2. CASE req'[r].pc = "emit" /\ req'[r].msg = m /\ watch'[m] = Ready
    BY <2>2 DEF Unsent, Ready, TypeOK
  <2>3. QED
    BY <1>5, <2>1, <2>2
<1>15. Told'
  <2>1. ASSUME NEW d \in watch'[m]
        PROVE  OnceIn(m, Coming(d)) /\ m \notin ToSet(Coming(d))
    BY <1>13, <1>14 DEF OnceIn, ToSet
  <2>2. ASSUME NEW n \in Msg \ {m}, NEW d \in watch'[n]
        PROVE  OnceIn(n, Coming(d)) /\ (n \in ToSet(Coming(d)) <=> ~Unsent(n))
    BY <1>6 DEF Told
  <2>3. \A n \in Msg : \A d \in watch'[n] :
          OnceIn(n, Coming(d)) /\ (n \in ToSet(Coming(d)) <=> ~Unsent(n)')
    BY <1>12, <1>14, <2>1, <2>2
  <2>4. \A n, d : OnceIn(n, Coming(d))' <=> OnceIn(n, Coming(d))
    BY <1>7 DEF OnceIn
  <2>5. QED
    BY <1>7, <2>3, <2>4 DEF Told
<1>16. SameOrder'
  <2>1. \A d, n, o : Before(d, n, o)' <=> Before(d, n, o)
    BY <1>7 DEF Before
  <2>2. \A d \in Page, n \in Msg : ~Before(d, m, n) /\ ~Before(d, n, m)
    BY <1>13 DEF Before, ToSet
  <2>3. SUFFICES ASSUME NEW n \in Msg, NEW o \in Msg,
                        NEW d \in watch'[n] \cap watch'[o], NEW e \in watch'[n] \cap watch'[o],
                        n # o, Before(d, n, o)
                 PROVE  ~Before(e, o, n)
    BY <2>1 DEF SameOrder
  <2>4. CASE n = m \/ o = m
    BY <1>14, <2>2, <2>3, <2>4
  <2>5. CASE n # m /\ o # m
    BY <1>6, <2>3, <2>5 DEF SameOrder
  <2>6. QED
    BY <2>4, <2>5
<1>17. QED
  BY <1>9, <1>10, <1>11, <1>15, <1>16

\* m is before n in these messages.
Earlier(m, n, messages) ==
  \E i, j \in DOMAIN messages : i < j /\ messages[i] = m /\ messages[j] = n

\* What comes last disturbs nothing that is there, and is before nothing.
LEMMA LastComer ==
  ASSUME NEW s \in Seq(Msg), NEW x \in Msg
  PROVE  /\ \A m : m # x => (OnceIn(m, Append(s, x)) <=> OnceIn(m, s))
         /\ x \notin ToSet(s) => OnceIn(x, Append(s, x))
         /\ \A m, n : m # x /\ n # x => (Earlier(m, n, Append(s, x)) <=> Earlier(m, n, s))
         /\ \A n : x \notin ToSet(s) => ~Earlier(x, n, Append(s, x))
<1> DEFINE t == Append(s, x)
<1>1. /\ Len(s) \in Nat /\ DOMAIN s = 1..Len(s)
      /\ \A i \in DOMAIN s : i \in DOMAIN t /\ t[i] = s[i]
      /\ \A i \in DOMAIN t : i \in DOMAIN s \/ (i = Len(s) + 1 /\ t[i] = x)
      /\ DOMAIN t = 1..Len(s) + 1
  BY Appended
<1> HIDE DEF t
<1>2. ASSUME NEW m, m # x PROVE OnceIn(m, t) <=> OnceIn(m, s)
  BY <1>1, <1>2 DEF OnceIn
<1>3. ASSUME x \notin ToSet(s)
      PROVE  \A i \in DOMAIN t : t[i] = x => i = Len(s) + 1
  BY <1>1, <1>3 DEF ToSet
<1>4. x \notin ToSet(s) => OnceIn(x, t)
  BY <1>3 DEF OnceIn
<1>5. ASSUME NEW m, NEW n, m # x, n # x PROVE Earlier(m, n, t) <=> Earlier(m, n, s)
  BY <1>1, <1>5 DEF Earlier
<1>6. ASSUME NEW n, x \notin ToSet(s), NEW i \in DOMAIN t, NEW j \in DOMAIN t,
             i < j, t[i] = x, t[j] = n
      PROVE  FALSE
  <2>1. i = Len(s) + 1
    BY <1>3, <1>6
  <2>2. QED
    BY <1>1, <1>6, <2>1
<1>7. \A n : x \notin ToSet(s) => ~Earlier(x, n, t)
  BY <1>6 DEF Earlier
<1>8. QED
  BY <1>2, <1>4, <1>5, <1>7 DEF t

\* Every page of the room is sent the message, behind the others.
LEMMA EmitParts ==
  ASSUME HeardInv, NEW r \in Req, Emit(r)
  PROVE  Parts'
<1> USE DEF HeardInv, ConnInv, Parts
<1> DEFINE x == req[r].msg
<1>1. req[r].pc = "emit" /\ x \in Msg
  BY SlotTypes DEF Emit
<1>2. /\ inbox' = [d \in Page |-> IF d \in room THEN Append(inbox[d], x) ELSE inbox[d]]
      /\ UNCHANGED <<saved, room, history, shown, answer, watch>>
  BY DEF Emit, lists
<1>3. req'[r] = Idle /\ \A s \in Req \ {r} : req'[s] = req[s]
  BY DEF Emit, Finish, Put, TypeOK
<1> HIDE DEF x
<1>4. \A m \in Msg : Unsent(m)' <=> Unsent(m) /\ m # x
  BY <1>1, <1>3 DEF Unsent, OneSender, Idle, x
<1>5. Unsent(x)
  BY <1>1 DEF Unsent, x
<1>6. ASSUME NEW d \in Page, d \in room
      PROVE  Coming(d)' = Append(Coming(d), x)
  BY <1>1, <1>2, <1>6, SentLast DEF Coming, TypeOK
<1>7. \A m \in Msg : \A d \in watch[m] : d \in Page /\ d \in room
  BY DEF WatchInv, Ready, TypeOK
<1>8. WatchInv'
  BY <1>2 DEF WatchInv, Ready
<1>9. Known'
  <2>1. x \in ToSet(saved)
    BY <1>1 DEF Known, x
  <2>2. \A d \in Page : inbox[d] \in Seq(Msg)
    BY DEF TypeOK
  <2>3. \A d \in Page : ToSet(Append(inbox[d], x)) = ToSet(inbox[d]) \cup {x}
    BY <1>1, <2>2, Appended
  <2>4. \A d \in Page : ToSet(inbox'[d]) \subseteq ToSet(inbox[d]) \cup {x}
    BY <1>2, <2>3
  <2>5. \A d \in Page : ToSet(shown'[d]) \cup ToSet(inbox'[d]) \cup ToSet(answer'[d]) \subseteq ToSet(saved')
    BY <1>2, <2>1, <2>4 DEF Known
  <2>6. \A s \in Req : req'[s].pc = "emit" => req'[s].msg \in ToSet(saved')
    BY <1>2, <1>3 DEF Known, Idle
  <2>7. \A m \in Msg \ ToSet(saved') : watch'[m] = {}
    BY <1>2 DEF Known
  <2>8. QED
    BY <2>5, <2>6, <2>7 DEF Known
<1>10. OneSender'
  BY <1>3 DEF OneSender, Idle
<1>11. \A m \in Msg : \A d \in watch[m] : Coming(d) \in Seq(Msg) /\ Coming(d)' = Append(Coming(d), x)
  BY <1>6, <1>7, ComingTypes
<1>12. Told'
  <2>1. SUFFICES ASSUME NEW m \in Msg, NEW d \in watch[m]
                 PROVE  OnceIn(m, Coming(d)') /\ (m \in ToSet(Coming(d)') <=> ~Unsent(m)')
    BY <1>2 DEF Told, OnceIn
  <2>2. ToSet(Coming(d)') = ToSet(Coming(d)) \cup {x}
    <3>1. Coming(d) \in Seq(Msg) /\ Coming(d)' = Append(Coming(d), x)
      BY <1>11
    <3>2. ToSet(Append(Coming(d), x)) = ToSet(Coming(d)) \cup {x}
      BY <1>1, <3>1, Appended
    <3>3. QED
      BY <3>1, <3>2
  <2>3. OnceIn(m, Coming(d)) /\ (m \in ToSet(Coming(d)) <=> ~Unsent(m))
    BY DEF Told
  <2>4. m \in ToSet(Coming(d)') <=> ~Unsent(m)'
    BY <1>4, <2>2, <2>3
  <2>5. OnceIn(m, Append(Coming(d), x))
    BY <1>1, <1>5, <1>11, <2>3, LastComer
  <2>6. QED
    BY <1>11, <2>4, <2>5
<1>13. SameOrder'
  <2>1. \A m, n \in Msg : \A d \in watch[m] : Before(d, m, n)' <=> Earlier(m, n, Append(Coming(d), x))
    BY <1>11 DEF Before, Earlier
  <2>2. \A m, n, d : Before(d, m, n) <=> Earlier(m, n, Coming(d))
    BY DEF Before, Earlier
  <2>3. \A m \in Msg : \A d \in watch[m] : x = m => m \notin ToSet(Coming(d))
    BY <1>5 DEF Told
  <2>4. SUFFICES ASSUME NEW m \in Msg, NEW n \in Msg,
                        NEW d \in watch[m] \cap watch[n], NEW e \in watch[m] \cap watch[n],
                        m # n, Before(d, m, n)'
                 PROVE  ~Before(e, n, m)'
    BY <1>2 DEF SameOrder
  <2>5. CASE x = m
    BY <1>1, <1>11, <2>1, <2>3, <2>4, <2>5, LastComer
  <2>6. CASE x = n
    <3>1. n \notin ToSet(Coming(e)) /\ Coming(e) \in Seq(Msg)
      BY <1>11, <2>3, <2>6
    <3>2. ~Earlier(n, m, Append(Coming(e), x))
      BY <1>1, <2>6, <3>1, LastComer
    <3>3. QED
      BY <2>1, <3>2
  <2>7. CASE x # m /\ x # n
    <3>1. Earlier(m, n, Coming(d))
      BY <1>1, <1>11, <2>1, <2>4, <2>7, LastComer
    <3>2. ~Earlier(n, m, Coming(e))
      BY <2>2, <2>4, <3>1 DEF SameOrder
    <3>3. ~Earlier(n, m, Append(Coming(e), x))
      BY <1>1, <1>11, <2>7, <3>2, LastComer
    <3>4. QED
      BY <2>1, <3>3
  <2>8. QED
    BY <2>5, <2>6, <2>7
<1>14. QED
  BY <1>8, <1>9, <1>10, <1>12, <1>13

LEMMA BeginParts ==
  ASSUME HeardInv, NEW r \in Req, BeginSend(r)
  PROVE  Parts'
<1> USE DEF HeardInv, ConnInv, Parts
<1>1. req[r].pc = "idle" /\ req'[r].pc = "create" /\ \A s \in Req \ {r} : req'[s] = req[s]
  BY DEF BeginSend, Put, TypeOK
<1>2. UNCHANGED <<saved, room, inbox, history, answer, shown, watch>>
  BY DEF BeginSend, sockets, lists
<1>3. \A m : Unsent(m)' <=> Unsent(m)
  BY <1>1 DEF Unsent
<1>4. WatchInv' /\ Known' /\ OneSender'
  BY <1>1, <1>2 DEF WatchInv, Ready, Known, OneSender
<1>5. Told' /\ SameOrder'
  BY <1>2, <1>3, QuietPages DEF Coming
<1>6. QED
  BY <1>4, <1>5

LEMMA NextHeardInv == HeardInv /\ [Next]_vars => HeardInv'
<1> SUFFICES ASSUME HeardInv, [Next]_vars PROVE HeardInv'
  OBVIOUS
<1>1. ConnInv'
  BY NextConnInv DEF HeardInv
<1>2. ASSUME NEW r \in Req, BeginSend(r) \/ Step(r) PROVE Parts'
  BY <1>2, BeginParts, CreateParts, EmitParts DEF Step
<1>3. ASSUME Unmatch \/ Rematch \/ UNCHANGED vars PROVE Parts'
  <2>1. UNCHANGED <<saved, req, room, inbox, history, answer, shown, watch>>
    BY <1>3 DEF Unmatch, Rematch, vars, server, sockets, lists
  <2>2. WatchInv' /\ Known' /\ OneSender'
    BY <2>1 DEF HeardInv, Parts, WatchInv, Ready, Known, OneSender
  <2>3. Told' /\ SameOrder'
    BY <2>1, QuietPages DEF Coming, Unsent
  <2>4. QED
    BY <2>2, <2>3 DEF Parts
<1>4. Parts'
  BY <1>2, <1>3, PageParts DEF Next
<1>5. QED
  BY <1>1, <1>4 DEF HeardInv

LEMMA HeardInvHolds == Spec => []HeardInv
BY InitHeardInv, NextHeardInv, PTL DEF Spec

(* A page that was ready when a message was saved, and stays connected, is *)
(* sent the message once: never lost, never doubled.                       *)
THEOREM HeardOnceHolds == Spec => []HeardOnce
<1>1. ASSUME HeardInv, NEW m \in Msg, NEW d \in watch[m]
      PROVE  Cardinality({i \in DOMAIN Coming(d) : Coming(d)[i] = m}) = IF Unsent(m) THEN 0 ELSE 1
  <2> DEFINE places == {i \in DOMAIN Coming(d) : Coming(d)[i] = m}
  <2>1. OnceIn(m, Coming(d)) /\ (m \in ToSet(Coming(d)) <=> ~Unsent(m))
    BY <1>1 DEF HeardInv, Parts, Told
  <2>2. CASE Unsent(m)
    <3>1. places = {}
      BY <2>1, <2>2 DEF ToSet
    <3>2. QED
      BY <2>2, <3>1, FS_EmptySet
  <2>3. CASE ~Unsent(m)
    <3>1. PICK i \in DOMAIN Coming(d) : Coming(d)[i] = m
      BY <2>1, <2>3 DEF ToSet
    <3>2. places = {i}
      BY <2>1, <3>1 DEF OnceIn
    <3>3. QED
      BY <2>3, <3>2, FS_Singleton
  <2>4. QED
    BY <2>2, <2>3
<1>2. HeardInv => HeardOnce
  BY <1>1 DEF HeardOnce
<1>3. QED
  BY <1>2, HeardInvHolds, PTL

(* Ready pages show the live messages in one order, in whatever order the  *)
(* sends overtake each other between the insert and the broadcast.         *)
THEOREM SameOrderHolds == Spec => []SameOrder
<1>1. HeardInv => SameOrder
  BY DEF HeardInv, Parts
<1>2. QED
  BY <1>1, HeardInvHolds, PTL
=============================================================================
