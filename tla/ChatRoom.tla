------------------------------ MODULE ChatRoom ------------------------------
(***************************************************************************)
(* The chat of one match as its pages see it: MatchesPage, whose list      *)
(* leads to it, MessagesGateway with its sockets and the room of the       *)
(* match, and ChatPage, which puts a list together from the history (REST) *)
(* and from the live messages (socket).                                    *)
(*                                                                         *)
(* Who may send is the subject of Messages; here it matters who hears of   *)
(* what was sent.  One action is one statement, one packet handled or one  *)
(* callback of a page.                                                     *)
(***************************************************************************)
EXTENDS Integers, Sequences, FiniteSets, SequencesExt

CONSTANTS
  Page,   \* pages of the two users of the match
  Msg,    \* ids of messages
  Req,    \* slots for sends in flight
  Take,   \* how many messages the history returns
  NoMsg

ASSUME ChatRoomAssumption == Take \in Nat \ {0} /\ IsFiniteSet(Msg) /\ NoMsg \notin Msg

VARIABLES
  active,   \* Match.isActive
  saved,    \* the Message rows in the order of createdAt
  req,      \* the sends in flight
  socket,   \* the socket of each page
  join,     \* its join_match
  room,     \* the pages whose socket is in the room of the match
  inbox,    \* new_message events on their way to a page
  preview,  \* the message that the list of matches showed with the match
  history,  \* the GET of the list of matches, then of the history
  answer,   \* what it returned
  shown,    \* the messages of the page, in the order shown
  watch     \* history variable: the pages that were ready when a message was
            \* saved and have kept their connection since

server == <<active, saved, req>>
sockets == <<socket, join, room, inbox>>
lists == <<preview, history, answer, shown>>
vars == <<server, sockets, lists, watch>>

Idle == [pc |-> "idle"]
Sending ==
  [pc : {"create"}, from : Page \cup {"REST"}]
    \cup [pc : {"emit"}, from : Page, msg : Msg]

TypeOK ==
  /\ active \in BOOLEAN
  /\ saved \in Seq(Msg) /\ IsInjective(saved)
  /\ req \in [Req -> {Idle} \cup Sending]
  /\ socket \in [Page -> {"off", "connecting", "in"}]
  /\ join \in [Page -> {"none", "sent", "checking"}]
  /\ room \subseteq {d \in Page : socket[d] = "in"}
  /\ inbox \in [Page -> Seq(Msg)]
  /\ preview \in [Page -> Msg \cup {NoMsg}]
  /\ history \in [Page -> {"none", "listing", "listed", "asked", "answered", "shown"}]
  /\ answer \in [Page -> Seq(Msg)] /\ \A d \in Page : Len(answer[d]) <= Take
  /\ shown \in [Page -> Seq(Msg)]
  /\ watch \in [Msg -> SUBSET Page]

Init ==
  /\ active = TRUE
  /\ saved = <<>>
  /\ req = [r \in Req |-> Idle]
  /\ socket = [d \in Page |-> "off"]
  /\ join = [d \in Page |-> "none"]
  /\ room = {}
  /\ inbox = [d \in Page |-> <<>>]
  /\ preview = [d \in Page |-> NoMsg]
  /\ history = [d \in Page |-> "none"]
  /\ answer = [d \in Page |-> <<>>]
  /\ shown = [d \in Page |-> <<>>]
  /\ watch = [m \in Msg |-> {}]

-----------------------------------------------------------------------------
(* MatchesPage, and MatchesService.getMyMatches                            *)

OpenMatches(d) ==
  /\ history[d] = "none"
  /\ history' = [history EXCEPT ![d] = "listing"]
  /\ UNCHANGED <<server, sockets, preview, answer, shown, watch>>

\* The active matches, each with its latest message.  If the match is not
\* among them the page has no button for it: it stays with "listing".
GetMyMatches(d) ==
  /\ history[d] = "listing" /\ active
  /\ history' = [history EXCEPT ![d] = "listed"]
  /\ preview' = [preview EXCEPT ![d] = IF saved = <<>> THEN NoMsg ELSE Last(saved)]
  /\ UNCHANGED <<server, sockets, answer, shown, watch>>

\* The list has a button that leads to the match.
HasButton(d) == history[d] = "listed"

-----------------------------------------------------------------------------
(* ChatPage                                                                *)

\* From the button of the match, which may have ended since the list was made:
\* the page asks for the history, connects, and emits join_match at once.
Open(d) ==
  /\ HasButton(d)
  /\ history' = [history EXCEPT ![d] = "asked"]
  /\ socket' = [socket EXCEPT ![d] = "connecting"]
  /\ join' = [join EXCEPT ![d] = "sent"]
  /\ UNCHANGED <<server, room, inbox, preview, answer, shown, watch>>

\* The socket of a page is gone: no room, no events under way.
Unplug(d) ==
  /\ join' = [join EXCEPT ![d] = "none"]
  /\ room' = room \ {d}
  /\ inbox' = [inbox EXCEPT ![d] = <<>>]
  /\ watch' = [m \in Msg |-> watch[m] \ {d}]

\* Unmounting disconnects the socket and forgets the list.
Leave(d) ==
  /\ history[d] # "none"
  /\ preview' = [preview EXCEPT ![d] = NoMsg]
  /\ socket' = [socket EXCEPT ![d] = "off"]
  /\ Unplug(d)
  /\ history' = [history EXCEPT ![d] = "none"]
  /\ answer' = [answer EXCEPT ![d] = <<>>]
  /\ shown' = [shown EXCEPT ![d] = <<>>]
  /\ UNCHANGED server

\* The network drops the socket, and socket.io connects again by itself;
\* the page does not join again.
Reconnect(d) ==
  /\ socket[d] # "off"
  /\ socket' = [socket EXCEPT ![d] = "connecting"]
  /\ Unplug(d)
  /\ UNCHANGED <<server, lists>>

\* The answer replaces whatever the page has shown so far.
ShowHistory(d) ==
  /\ history[d] = "answered"
  /\ shown' = [shown EXCEPT ![d] = answer[d]]
  /\ answer' = [answer EXCEPT ![d] = <<>>]
  /\ history' = [history EXCEPT ![d] = "shown"]
  /\ UNCHANGED <<server, sockets, preview, watch>>

\* The handler of new_message appends.
Receive(d) ==
  /\ inbox[d] # <<>>
  /\ shown' = [shown EXCEPT ![d] = Append(@, Head(inbox[d]))]
  /\ inbox' = [inbox EXCEPT ![d] = Tail(@)]
  /\ UNCHANGED <<server, socket, join, room, preview, history, answer, watch>>

-----------------------------------------------------------------------------
(* MessagesGateway: handleConnection and joinMatch                         *)

\* The account is looked up; it is active, or the socket is disconnected.
HandleConnection(d) ==
  /\ socket[d] = "connecting"
  /\ \/ socket' = [socket EXCEPT ![d] = "in"] /\ UNCHANGED join
     \/ socket' = [socket EXCEPT ![d] = "off"] /\ join' = [join EXCEPT ![d] = "none"]
  /\ UNCHANGED <<server, room, inbox, lists, watch>>

\* client.data.userId is there, or the lookup has not ended: 'Unauthorized'.
JoinMatch(d) ==
  /\ join[d] = "sent"
  /\ join' = [join EXCEPT ![d] = IF socket[d] = "in" THEN "checking" ELSE "none"]
  /\ UNCHANGED <<server, socket, room, inbox, lists, watch>>

\* assertParticipant, then client.join
EnterRoom(d) ==
  /\ join[d] = "checking"
  /\ room' = IF active THEN room \cup {d} ELSE room
  /\ join' = [join EXCEPT ![d] = "none"]
  /\ UNCHANGED <<server, socket, inbox, lists, watch>>

-----------------------------------------------------------------------------
(* MessagesService: getMessages, and sendMessage by socket or REST         *)

\* mutant of LastOf: the oldest messages, for want of 'desc'
FirstOf(s, n) == SubSeq(s, 1, IF Len(s) > n THEN n ELSE Len(s))

LastOf(s, n) == SubSeq(s, IF Len(s) > n THEN Len(s) - n + 1 ELSE 1, Len(s))

\* mutant of GetMessages: the page size is forgotten
GetAllMessages(d) ==
  /\ history[d] = "asked"
  /\ IF active
     THEN /\ answer' = [answer EXCEPT ![d] = saved]
          /\ history' = [history EXCEPT ![d] = "answered"]
     ELSE UNCHANGED <<answer, history>>
  /\ UNCHANGED <<server, sockets, preview, shown, watch>>

\* The latest Take messages.  For an inactive match the request fails and the
\* page shows nothing: it stays with history "asked".
GetMessages(d) ==
  /\ history[d] = "asked" /\ active
  /\ answer' = [answer EXCEPT ![d] = LastOf(saved, Take)]
  /\ history' = [history EXCEPT ![d] = "answered"]
  /\ UNCHANGED <<server, sockets, preview, shown, watch>>

Put(r, request) == req' = [req EXCEPT ![r] = request]
Finish(r) == Put(r, Idle)

\* The checks of sendMessage are in Messages; here they let a send pass as
\* long as the match is active.
BeginSend(r) ==
  /\ req[r].pc = "idle" /\ active
  /\ \E d \in {e \in Page : socket[e] = "in"} \cup {"REST"} :
       Put(r, [pc |-> "create", from |-> d])
  /\ UNCHANGED <<active, saved, sockets, lists, watch>>

\* Ready pages have their history and their room.
Ready == {d \in room : history[d] = "shown"}

\* mutant of CreateMessage: the sender is shown the message at once
CreateOptimistic(r) ==
  /\ req[r].pc = "create"
  /\ \E m \in Msg \ ToSet(saved) :
       /\ saved' = Append(saved, m)
       /\ IF req[r].from = "REST"
          THEN Finish(r) /\ UNCHANGED <<watch, inbox>>
          ELSE /\ Put(r, [pc |-> "emit", from |-> req[r].from, msg |-> m])
               /\ watch' = [watch EXCEPT ![m] = Ready]
               /\ inbox' = [inbox EXCEPT ![req[r].from] = Append(@, m)]
  /\ UNCHANGED <<active, socket, join, room, lists>>

(* message.create.  The gateway broadcasts what it has saved; the REST     *)
(* controller does not.                                                    *)
CreateMessage(r) ==
  /\ req[r].pc = "create"
  /\ \E m \in Msg \ ToSet(saved) :
       /\ saved' = Append(saved, m)
       /\ IF req[r].from = "REST"
          THEN Finish(r) /\ UNCHANGED watch
          ELSE /\ Put(r, [pc |-> "emit", from |-> req[r].from, msg |-> m])
               /\ watch' = [watch EXCEPT ![m] = Ready]
  /\ UNCHANGED <<active, sockets, lists>>

\* mutant of Emit: client.to instead of server.to
EmitToOthers(r) ==
  /\ req[r].pc = "emit"
  /\ inbox' = [d \in Page |-> IF d \in room \ {req[r].from}
                              THEN Append(inbox[d], req[r].msg) ELSE inbox[d]]
  /\ Finish(r)
  /\ UNCHANGED <<active, saved, socket, join, room, lists, watch>>

\* After the recipient and the profile were read for the notification.
Emit(r) ==
  /\ req[r].pc = "emit"
  /\ inbox' = [d \in Page |-> IF d \in room THEN Append(inbox[d], req[r].msg) ELSE inbox[d]]
  /\ Finish(r)
  /\ UNCHANGED <<active, saved, socket, join, room, lists, watch>>

\* unmatch or blockUser; a new mutual swipe
Unmatch == active /\ active' = FALSE /\ UNCHANGED <<saved, req, sockets, lists, watch>>
Rematch == ~active /\ active' = TRUE /\ UNCHANGED <<saved, req, sockets, lists, watch>>

-----------------------------------------------------------------------------
Step(r) == CreateMessage(r) \/ Emit(r)

Next ==
  \/ \E d \in Page :
       \/ OpenMatches(d) \/ GetMyMatches(d) \/ Open(d) \/ Leave(d) \/ Reconnect(d)
       \/ ShowHistory(d) \/ Receive(d)
       \/ HandleConnection(d) \/ JoinMatch(d) \/ EnterRoom(d) \/ GetMessages(d)
  \/ \E r \in Req : BeginSend(r) \/ Step(r)
  \/ Unmatch \/ Rematch

Spec == Init /\ [][Next]_vars

-----------------------------------------------------------------------------
(* Properties.                                                             *)

\* What a page shows or is about to show.
Coming(d) == shown[d] \o inbox[d]
Unsent(m) == \E r \in Req : req[r].pc = "emit" /\ req[r].msg = m

(* A page that had its history and its room when a message was saved, and  *)
(* kept its connection, is sent the message exactly once: no loss and no   *)
(* copy, whatever else is sent, joined, answered and unmatched meanwhile.  *)
HeardOnce ==
  \A m \in Msg : \A d \in watch[m] :
    Cardinality({i \in DOMAIN Coming(d) : Coming(d)[i] = m}) = IF Unsent(m) THEN 0 ELSE 1

(* A chat is never behind the list it was opened from: once it has its     *)
(* history, it shows the message that the list showed, or one saved after  *)
(* it.  Both are requests of their own, messages arrive between them, and  *)
(* the history drops the live messages that were there before it.          *)
NotBehindTheList ==
  \A d \in Page :
    history[d] = "shown" /\ preview[d] # NoMsg =>
      \E i, j \in DOMAIN saved :
        i <= j /\ saved[i] = preview[d] /\ saved[j] \in ToSet(shown[d])

(* Two ready pages show the live messages in the same order, though it may *)
(* not be the order of createdAt: sends overtake each other between the    *)
(* insert and the broadcast.                                               *)
Before(d, m, n) ==
  \E i, j \in DOMAIN Coming(d) : i < j /\ Coming(d)[i] = m /\ Coming(d)[j] = n
SameOrder ==
  \A m, n \in Msg : \A d, e \in watch[m] \cap watch[n] :
    m # n /\ Before(d, m, n) => ~Before(e, n, m)
=============================================================================
