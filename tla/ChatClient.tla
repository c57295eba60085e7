----------------------------- MODULE ChatClient -----------------------------
(***************************************************************************)
(* The chat of the web client: the store of conversations (chat-store.ts), *)
(* the page of one conversation (chat-interface.tsx) and the ways to reach *)
(* it (chat-navigation.ts), for one signed-in user.                        *)
(*                                                                         *)
(* The router shows another conversation with a new instance of the page.  *)
(* What an old instance awaited still comes back, and still changes the    *)
(* store.  A conversation's title is the start of its first question, so   *)
(* two conversations can have the same one; the store takes a conversation *)
(* for another of the same title when both were updated within two         *)
(* minutes, which is what a session as short as these is.                  *)
(*                                                                         *)
(* Messages are records of a turn: its question, and its answer, which is  *)
(* empty while it is streamed.  Of messages of equal role and text only    *)
(* the first is kept (dedupeMessages) and shown (displayMessages).  As     *)
(* nothing but whether there are messages is ever asked of the store, it   *)
(* has all of them here, and Shown is what remains of them.                *)
(***************************************************************************)
EXTENDS Naturals, FiniteSets

CONSTANTS
  Conversations,  \* the ids a conversation can get
  Titles,         \* titles
  Title,          \* the title of each conversation
  Early,          \* the conversations there were before this session
  Texts, Text,    \* texts, and the text of each turn's question, answer and error
  Home, New,      \* the pages "/" and "/c"
  None,           \* no conversation, no navigation
  MaxTurns,       \* bound: questions asked
  MaxActs,        \* bound: what the user does, asking included
  MaxAwaited      \* bound: calls in flight when the user, or Launched, causes another

ASSUME ChatAssumption ==
  /\ Early \subseteq Conversations
  /\ Title \in [Conversations -> Titles]
  /\ Text \in [{"question", "answer", "error"} \X (0 .. MaxTurns) -> Texts]
  /\ {Home, New, None} \cap Conversations = {}
  /\ Home # New /\ Home # None /\ New # None
  /\ {MaxTurns, MaxActs, MaxAwaited} \subseteq Nat

VARIABLES
  saved,          \* server: the conversations there are
  kept,           \* server: the messages of each
  list,           \* conversations: the ids the store has
  messages,       \* conversations: the messages of each, none if not loaded
  active,         \* activeConversationId
  isLoading,      \* the composer waits for an answer
  pending,        \* useChatSessionStore.pending: a question to ask on arrival
  route,          \* the page that is shown
  going,          \* the navigation that is under way
  sends,          \* handleSendMessage and navigateToChatLaunch, in progress
  lists,          \* list fetches that have not come back
  loads,          \* conversations whose messages are being fetched
  deletes,        \* deletions that have not come back
  turns, acts,    \* how many questions were asked, how much was done
  born,           \* history: every conversation there ever was
  gone,           \* history: conversations the user deleted
  strayed,        \* history: a page's load came back after the page was left
  hasty           \* history: questions asked before the store had the conversation for good

store == <<list, messages, active, isLoading, pending>>
server == <<saved, kept>>
page == <<route, going>>
calls == <<sends, lists, loads, deletes>>
history == <<born, gone, strayed, hasty>>
vars == <<store, server, page, calls, turns, acts, history>>

Pages == Conversations \cup {Home, New}
Slot == Conversations \cup {None}
Turns == 1 .. MaxTurns

Question(of, turn) == [of |-> of, turn |-> turn, role |-> "question"]
Reply(of, turn, role) == [of |-> of, turn |-> turn, role |-> role]

\* Two messages of equal role and text; both answers and errors are the
\* assistant's, and an empty message is like no other.
Alike(m, n) ==
  /\ "waiting" \notin {m.role, n.role}
  /\ m.role = "question" <=> n.role = "question"
  /\ Text[m.role, m.turn] = Text[n.role, n.turn]

Twins(c, d) == c # d /\ Title[c] = Title[d]

\* Calls in flight, and whether the user causes another.
InFlight == Cardinality(sends) + Cardinality(lists) + Cardinality(loads)
              + Cardinality(deletes)
MayCall == InFlight < MaxAwaited

\* A fetch of the list, for the list itself or ahead of a page's own fetch.
ListCall(c) == [for |-> c, here |-> TRUE, served |-> FALSE, found |-> {}]

\* The page that made the calls has been left.
Left(S) == {[x EXCEPT !.here = FALSE] : x \in S}

Init ==
  /\ saved = Early /\ kept = [c \in Conversations |->
       IF c \in Early THEN {Question(c, 0), Reply(c, 0, "answer")} ELSE {}]
  /\ list \in SUBSET Early
  /\ messages = [c \in Conversations |-> {}]
  /\ active = None /\ isLoading = FALSE /\ pending = None
  /\ route = Home
  /\ going \in Early \cup {None}
  /\ sends = {} /\ lists = {} /\ loads = {} /\ deletes = {}
  /\ turns = 0 /\ acts = 0
  /\ born = Early /\ gone = {} /\ strayed = FALSE /\ hasty = {}

----------------------------------------------------------------------------
(* The store. *)

\* setConversations, the part of it that keeps messages: what the store has
\* of the same conversation, or else of a twin of it.
Folded(c) ==
  LET orphans == {d \in list : Twins(c, d) /\ messages[d] # {}}
  IN IF messages[c] # {} \/ orphans = {} THEN messages[c]
     ELSE messages[CHOOSE d \in orphans : TRUE]

\* Variant: any other conversation with messages is taken for a twin.
SetConversationsLoosely(found) ==
  LET orphans(c) == {d \in list : d # c /\ messages[d] # {}}
  IN /\ list' = list \cup found
     /\ messages' = [c \in Conversations |->
                       IF c \in found /\ messages[c] = {} /\ orphans(c) # {}
                       THEN messages[CHOOSE d \in orphans(c) : TRUE] ELSE messages[c]]

\* setConversations.  A conversation the server's page does not have stays,
\* unless a twin of it is there.
SetConversations(found) ==
  LET superseded == {c \in list \ found : messages[c] # {} /\ \E d \in found : Twins(c, d)}
  IN /\ list' = (list \ superseded) \cup found
     /\ messages' = [c \in Conversations |->
                       IF c \in superseded THEN {}
                       ELSE IF c \in found THEN Folded(c) ELSE messages[c]]

\* addConversation: what the store had of it is replaced, and it is active,
\* unless the page that is shown makes its own active at once.
AddConversation(c, own, next) ==
  /\ list' = list \cup {c}
  /\ messages' = [messages EXCEPT ![c] = own]
  /\ active' = next

\* deleteConversation
Forget(c) ==
  /\ list' = list \ {c}
  /\ messages' = [messages EXCEPT ![c] = {}]

\* dedupeMessages and displayMessages.
Shown(c) == {m \in messages[c] : \A n \in messages[c] : n.turn < m.turn => ~Alike(m, n)}

----------------------------------------------------------------------------
(* The page of a conversation and how it is reached. *)

\* The load effect of a page, run when it is mounted and when isLoading
\* changes: nothing is fetched for a conversation that has messages, nor
\* while an answer is awaited.  loadConversationMessages fetches the list
\* first, and the conversation next.
LoadOf(p, texts, waiting) ==
  IF p \in Conversations /\ ~waiting /\ texts[p] = {} THEN {ListCall(p)} ELSE {}

\* The page that is shown runs the effect, unless it awaits an answer itself
\* (streamingConversationRef).
EffectRuns(others) ==
  route \in Conversations /\ \A s \in others : ~(s.here /\ s.stage \in {"asked", "streaming"})

\* isLoading has ended: the page is active again, and if it is still empty it
\* is fetched anew, which makes its earlier fetches stale (isCurrentLoad).
LoadingEnds(others, more) ==
  LET fresh == IF isLoading /\ EffectRuns(others) THEN LoadOf(route, messages', FALSE) ELSE {}
  IN /\ active' = IF isLoading /\ EffectRuns(others) THEN route ELSE active
     /\ lists' = more \cup fresh \cup
          {IF fresh # {} /\ r.here THEN [r EXCEPT !.for = None] ELSE r : r \in lists}
     /\ loads' = IF fresh # {} THEN {r \in loads : ~r.here} ELSE loads

\* openChat in the sidebar, navigateToConversation.
OpenChat(c) ==
  /\ c \in list
  /\ active' = c /\ going' = c
  /\ UNCHANGED <<list, messages, isLoading, pending, server, route, calls, turns,
                 history>>

\* navigateToNewChat (to Home) and navigateToAgentChat (to New).  The agent is
\* left to the page as a question would be, which moves launchSeq: the page of a
\* conversation runs its effect, and is active again until it is left.
LeaveChat(p) ==
  /\ active' = IF p = New /\ route \in Conversations THEN route ELSE None
  /\ going' = p
  /\ pending' = None
  /\ UNCHANGED <<list, messages, isLoading, server, route, calls, turns, history>>

\* What handleSendMessage puts in the store when the conversation is there.
Asked(c, turn) == {Question(c, turn), Reply(c, turn, "waiting")}

\* handleSendMessage or navigateToChatLaunch, on the page that is shown.
Ask(turn, of, stage) == [turn |-> turn, of |-> of, stage |-> stage, here |-> TRUE]

\* A question asked before its conversation was listed, or while the home page
\* is still creating the conversation and will empty it (Launched).
Hasty(c, turn) ==
  IF c \in list /\ \A s \in sends : ~(s.stage = "launch" /\ s.of = c)
  THEN hasty ELSE hasty \cup {turn}

\* The router shows the page.  A new instance takes the pending question, if
\* it was for this conversation, and asks it; else the question is dropped.
\* (None is pending on the way to New: navigateToAgentChat replaces it.)
NavigationCommits ==
  /\ going # None
  /\ going' = None
  /\ route' = going
  /\ \/ /\ going = route
        /\ UNCHANGED <<active, pending, messages, isLoading, sends, lists, loads, hasty>>
     \/ /\ going = Home /\ route # Home
        /\ sends' = Left(sends) /\ lists' = Left(lists) /\ loads' = Left(loads)
        /\ UNCHANGED <<active, pending, messages, isLoading, hasty>>
     \/ /\ going = New /\ route # New
        /\ active' = None /\ pending' = None
        /\ sends' = Left(sends) /\ lists' = Left(lists) /\ loads' = Left(loads)
        /\ UNCHANGED <<messages, isLoading, hasty>>
     \/ /\ going \in Conversations /\ going # route
        /\ active' = going
        /\ pending' = None /\ loads' = Left(loads)
        /\ IF pending # None /\ pending.of = going
           THEN /\ messages' = IF going \in list
                     THEN [messages EXCEPT ![going] = @ \cup Asked(going, pending.turn)]
                     ELSE messages
                /\ sends' = Left(sends) \cup {Ask(pending.turn, going, "asked")}
                /\ isLoading' = TRUE
                /\ hasty' = Hasty(going, pending.turn)
                /\ lists' = Left(lists)
           ELSE /\ lists' = Left(lists) \cup LoadOf(going, messages, isLoading)
                /\ sends' = Left(sends)
                /\ UNCHANGED <<messages, isLoading, hasty>>
  /\ UNCHANGED <<list, server, deletes, turns, born, gone, strayed>>

----------------------------------------------------------------------------
(* Asking. *)

\* handleSendMessage in a conversation.  The composer is blocked by isLoading.
Send ==
  /\ route \in Conversations \cup {New} /\ active # None
  /\ ~isLoading
  /\ turns < MaxTurns /\ turns' = turns + 1
  /\ messages' = IF active \in list
       THEN [messages EXCEPT ![active] = @ \cup Asked(active, turns')] ELSE messages
  /\ sends' = sends \cup {Ask(turns', active, "asked")}
  /\ isLoading' = TRUE
  /\ hasty' = Hasty(active, turns')
  /\ UNCHANGED <<list, active, pending, server, page, lists, loads, deletes, born, gone, strayed>>

\* Without a conversation, one is created first, and isLoading is still
\* FALSE meanwhile: from a chat page ("create") or the home page ("launch").
SendNew ==
  /\ MayCall
  /\ turns < MaxTurns /\ turns' = turns + 1
  /\ \/ /\ route \in Conversations \cup {New} /\ active = None /\ ~isLoading
        /\ sends' = sends \cup {Ask(turns', None, "create")}
     \/ /\ route = Home /\ \A s \in sends : s.stage # "launch"
        /\ sends' = sends \cup {Ask(turns', None, "launch")}
  /\ UNCHANGED <<store, server, page, lists, loads, deletes, history>>

ServerCreates(s) ==
  /\ s.stage \in {"create", "launch"} /\ s.of = None
  /\ \E c \in Conversations \ born :
       /\ saved' = saved \cup {c}
       /\ born' = born \cup {c}
       /\ sends' = (sends \ {s}) \cup {[s EXCEPT !.of = c]}
  /\ UNCHANGED <<kept, store, page, lists, loads, deletes, turns, gone, strayed, hasty>>

\* Variant: the address stays.
CreatedWithoutAddress(s) ==
  /\ s.stage = "create" /\ s.of # None
  /\ AddConversation(s.of, Asked(s.of, s.turn), s.of)
  /\ sends' = (sends \ {s}) \cup {[s EXCEPT !.stage = "asked"]}
  /\ isLoading' = TRUE
  /\ UNCHANGED <<pending, server, page, lists, loads, deletes, turns, history>>

\* The chat page goes on with the question and then to the page of the new
\* conversation, wherever the user is by now.  Another page that is shown sees
\* isLoading change, and makes its own conversation active once more.
Created(s) ==
  /\ s.stage = "create" /\ s.of # None
  /\ LET found == Asked(s.of, s.turn)
         reacts == ~s.here /\ ~isLoading /\ EffectRuns(sends \ {s}) /\ messages[route] # {}
     IN IF reacts
        THEN AddConversation(s.of, found, route)
        ELSE AddConversation(s.of, found, s.of)
  /\ going' = s.of
  /\ sends' = (sends \ {s}) \cup {[s EXCEPT !.stage = "asked"]}
  /\ isLoading' = TRUE
  /\ UNCHANGED <<pending, server, route, lists, loads, deletes, turns, history>>

\* The home page leaves the question to the page it goes to.  It moves launchSeq,
\* on which the effect of a chat page depends: one that the user has gone to
\* meanwhile takes the question at once.  The conversation's own page asks it, the
\* new chat page creates another conversation for it, and any other page drops it.
Launched(s) ==
  /\ s.stage = "launch" /\ s.of # None
  /\ \/ /\ route = Home
        /\ AddConversation(s.of, {}, s.of)
        /\ pending' = [of |-> s.of, turn |-> s.turn]
        /\ sends' = sends \ {s} /\ UNCHANGED isLoading
     \/ /\ route = s.of
        /\ AddConversation(s.of, Asked(s.of, s.turn), s.of)
        /\ pending' = None
        /\ sends' = (sends \ {s}) \cup {Ask(s.turn, s.of, "asked")} /\ isLoading' = TRUE
     \/ /\ route = New /\ InFlight <= MaxAwaited
        /\ AddConversation(s.of, {}, None)
        /\ pending' = None
        /\ sends' = (sends \ {s}) \cup {Ask(s.turn, None, "create")} /\ UNCHANGED isLoading
     \/ /\ route \in Conversations \ {s.of}
        /\ AddConversation(s.of, {}, route)
        /\ pending' = None
        /\ sends' = sends \ {s} /\ UNCHANGED isLoading
  /\ going' = s.of
  /\ UNCHANGED <<server, route, lists, loads, deletes, turns, history>>

\* The conversation may have been created all the same.
CreateFails(s) ==
  /\ s.stage \in {"create", "launch"}
  /\ sends' = sends \ {s}
  /\ UNCHANGED <<store, server, page, lists, loads, deletes, turns, history>>

\* The server keeps the question before it streams the answer.
ServerTakesQuestion(s) ==
  /\ s.stage = "asked" /\ s.of \in saved
  /\ kept' = [kept EXCEPT ![s.of] = @ \cup {Question(s.of, s.turn)}]
  /\ sends' = (sends \ {s}) \cup {[s EXCEPT !.stage = "streaming"]}
  /\ UNCHANGED <<saved, store, page, lists, loads, deletes, turns, history>>

\* Variant: the answer goes to the conversation that is open by now.
RepliedInOpenOne(s, role) ==
  /\ messages' = [c \in Conversations |->
       IF c = active /\ Reply(s.of, s.turn, "waiting") \in messages[c]
       THEN (messages[c] \ {Reply(s.of, s.turn, "waiting")}) \cup {Reply(s.of, s.turn, role)}
       ELSE messages[c]]
  /\ isLoading' = FALSE
  /\ sends' = sends \ {s}

\* updateMessage, wherever the user is; then isLoading ends, for whoever else
\* waits too.
Replied(s, role) ==
  /\ messages' = [messages EXCEPT ![s.of] =
       IF Reply(s.of, s.turn, "waiting") \in @
       THEN (@ \ {Reply(s.of, s.turn, "waiting")}) \cup {Reply(s.of, s.turn, role)} ELSE @]
  /\ isLoading' = FALSE
  /\ sends' = sends \ {s}

TurnEnds(s) ==
  /\ s.stage = "streaming"
  /\ kept' = IF s.of \in saved
       THEN [kept EXCEPT ![s.of] = @ \cup {Reply(s.of, s.turn, "answer")}] ELSE kept
  /\ Replied(s, "answer")
  /\ LoadingEnds(sends \ {s}, {ListCall(None)})
  /\ UNCHANGED <<saved, list, pending, page, deletes, turns, history>>

\* An error: the answer says so.  The server may hold one nevertheless.
TurnFails(s) ==
  /\ s.stage \in {"asked", "streaming"}
  /\ \/ kept' = kept
     \/ /\ s.stage = "streaming" /\ s.of \in saved
        /\ kept' = [kept EXCEPT ![s.of] = @ \cup {Reply(s.of, s.turn, "answer")}]
  /\ Replied(s, "error")
  /\ LoadingEnds(sends \ {s}, {})
  /\ UNCHANGED <<saved, list, pending, page, deletes, turns, history>>

----------------------------------------------------------------------------
(* Lists, loads and deletions. *)

\* fetchConversationsPage from the start of the list.
Refresh ==
  /\ MayCall
  /\ lists' = lists \cup {ListCall(None)}
  /\ UNCHANGED <<store, server, page, sends, loads, deletes, turns, history>>

\* The server's page may end before the older conversations.
ServerLists(r) ==
  /\ ~r.served
  /\ \E found \in SUBSET saved :
       /\ saved \ Early \subseteq found
       /\ lists' = (lists \ {r}) \cup {[r EXCEPT !.served = TRUE, !.found = found]}
  /\ UNCHANGED <<store, server, page, sends, loads, deletes, turns, history>>

\* A failed fetch keeps the list.  A page's load goes on either way.
ListArrives(r) ==
  /\ \/ r.served /\ SetConversations(r.found)
     \/ UNCHANGED <<list, messages>>
  /\ lists' = lists \ {r}
  /\ loads' = IF r.for = None THEN loads
              ELSE loads \cup {[of |-> r.for, here |-> r.here, served |-> FALSE,
                                 there |-> FALSE, found |-> {}]}
  /\ UNCHANGED <<active, isLoading, pending, server, page, sends, deletes, turns,
                 history>>

ServerLoads(r) ==
  /\ ~r.served
  /\ loads' = (loads \ {r}) \cup
       {[r EXCEPT !.served = TRUE, !.there = r.of \in saved, !.found = kept[r.of]]}
  /\ UNCHANGED <<store, server, page, sends, lists, deletes, turns, history>>

\* The conversation's messages are kept unless the store has some by now.
\* An instance's own route never changes: isCurrentLoad holds for the pages
\* the user has left, too.
ConversationLoaded(r) ==
  /\ r.served /\ r.there
  /\ \/ /\ r.of \in list /\ messages[r.of] # {}
        /\ UNCHANGED <<list, messages, active>>
     \/ /\ r.of \in list /\ messages[r.of] = {}
        /\ messages' = [messages EXCEPT ![r.of] = r.found]
        /\ UNCHANGED <<list, active>>
     \/ /\ r.of \notin list
        /\ AddConversation(r.of, r.found, r.of)
  /\ loads' = loads \ {r}
  /\ strayed' = (strayed \/ ~r.here)
  /\ UNCHANGED <<isLoading, pending, server, page, sends, lists, deletes, turns, born, gone, hasty>>

\* The server does not have it: the page gives up, and goes home if it is
\* still there to go.
ConversationMissing(r) ==
  /\ r.served /\ ~r.there
  /\ \/ /\ r.of \in list /\ messages[r.of] # {}
        /\ active' = r.of
        /\ UNCHANGED <<list, messages, going>>
     \/ /\ r.of \notin list \/ messages[r.of] = {}
        /\ Forget(r.of)
        /\ active' = None
        /\ going' = IF r.here THEN Home ELSE going
  /\ loads' = loads \ {r}
  /\ strayed' = (strayed \/ ~r.here)
  /\ UNCHANGED <<isLoading, pending, server, route, sends, lists, deletes, turns,
                 born, gone, hasty>>

\* Any other error leaves the page as it is.
LoadFails(r) ==
  /\ loads' = loads \ {r}
  /\ UNCHANGED <<store, server, page, sends, lists, deletes, turns, history>>

\* The page's menu deletes the active conversation and leaves; the sidebar
\* deletes any.
Delete ==
  /\ MayCall
  /\ \E c \in list, leaves \in BOOLEAN :
       /\ leaves => (active = c /\ route \in Conversations \cup {New})
       /\ deletes' = deletes \cup {[of |-> c, leaves |-> leaves, served |-> FALSE]}
  /\ UNCHANGED <<store, server, page, sends, lists, loads, turns, history>>

\* Variant: the messages are not deleted with their conversation.
ServerDeletesRow(r) ==
  /\ ~r.served
  /\ saved' = saved \ {r.of} /\ UNCHANGED kept
  /\ gone' = gone \cup {r.of}
  /\ deletes' = (deletes \ {r}) \cup {[r EXCEPT !.served = TRUE]}
  /\ UNCHANGED <<store, page, sends, lists, loads, turns, born, strayed, hasty>>

ServerDeletes(r) ==
  /\ ~r.served
  /\ saved' = saved \ {r.of}
  /\ kept' = [kept EXCEPT ![r.of] = {}]
  /\ gone' = gone \cup {r.of}
  /\ deletes' = (deletes \ {r}) \cup {[r EXCEPT !.served = TRUE]}
  /\ UNCHANGED <<store, page, sends, lists, loads, turns, born, strayed, hasty>>

Deleted(r) ==
  /\ r.served
  /\ Forget(r.of)
  /\ active' = IF r.leaves \/ active = r.of THEN None ELSE active
  /\ pending' = IF r.leaves THEN None ELSE pending
  /\ going' = IF r.leaves THEN Home ELSE going
  /\ deletes' = deletes \ {r}
  /\ UNCHANGED <<isLoading, server, route, sends, lists, loads, turns, history>>

DeleteFails(r) ==
  /\ deletes' = deletes \ {r}
  /\ UNCHANGED <<store, server, page, sends, lists, loads, turns, history>>

----------------------------------------------------------------------------

UserActs ==
  /\ acts < MaxActs /\ acts' = acts + 1
  /\ \/ \E c \in Conversations : OpenChat(c)
     \/ LeaveChat(Home) \/ LeaveChat(New)
     \/ Send \/ SendNew
     \/ Refresh \/ Delete

Answers ==
  \/ \E s \in sends : ServerCreates(s) \/ Created(s) \/ Launched(s) \/ CreateFails(s)
                        \/ ServerTakesQuestion(s) \/ TurnEnds(s) \/ TurnFails(s)
  \/ \E r \in lists : ServerLists(r) \/ ListArrives(r)
  \/ \E r \in loads : ServerLoads(r) \/ ConversationLoaded(r) \/ ConversationMissing(r)
                        \/ LoadFails(r)
  \/ \E r \in deletes : ServerDeletes(r) \/ Deleted(r) \/ DeleteFails(r)

Next ==
  \/ UserActs
  \/ (NavigationCommits \/ Answers) /\ UNCHANGED acts

Spec == Init /\ [][Next]_vars

----------------------------------------------------------------------------
(* Properties. *)

Message == [of : Conversations, turn : 0 .. MaxTurns,
            role : {"question", "waiting", "answer", "error"}]

\* Every variable has its type; the store has messages of the conversations
\* it lists only, and the server keeps none of a conversation it deleted.
TypeOK ==
  /\ saved \subseteq born /\ kept \in [Conversations -> SUBSET Message]
  /\ list \subseteq Conversations /\ messages \in [Conversations -> SUBSET Message]
  /\ \A c \in Conversations :
       (c \notin list => messages[c] = {}) /\ (c \notin saved => kept[c] = {})
  /\ active \in Slot /\ isLoading \in BOOLEAN
  /\ pending = None \/ pending \in [of : Conversations, turn : Turns]
  /\ route \in Pages /\ going \in Pages \cup {None}
  /\ sends \subseteq [turn : Turns, of : Slot, here : BOOLEAN,
                      stage : {"create", "launch", "asked", "streaming"}]
  /\ lists \subseteq [for : Slot, here : BOOLEAN, served : BOOLEAN,
                      found : SUBSET Conversations]
  /\ deletes \subseteq [of : Conversations, leaves : BOOLEAN, served : BOOLEAN]
  /\ turns \in 0 .. MaxTurns /\ acts \in 0 .. MaxActs
  /\ born \subseteq Conversations /\ gone \subseteq born
  /\ strayed \in BOOLEAN /\ hasty \subseteq Turns

\* No conversation shows another's messages: whatever lists, loads, answers
\* and new conversations arrive in whatever order, a message of the store is
\* of the conversation it is listed under, or of a twin of it -- a
\* conversation with the same title (chat-store.ts:91-101, 144-189,
\* chat-interface.tsx:338-423, 558-596).
MessagesStayHome ==
  \A c \in Conversations : \A m \in messages[c] : m.of = c \/ Twins(m.of, c)

\* No answer is lost: an answer the server has given to a question of a
\* conversation without a twin has come, as an answer or an error, and a message
\* of its text is shown, or it is on its way, wherever the user has been
\* meanwhile, as long as the store has the question and the conversation was not
\* deleted.  Its own place is empty when an earlier message has its text.
\* Excepted is a question asked before its conversation was listed, which a load
\* served in between brings back without its answer, or while the home page is
\* still creating the conversation, which it empties
\* (chat-interface.tsx:120-164, 602-716, chat-store.ts:5-20, 103-142,
\* chat-navigation.ts:37-68).
AnswersFindTheirQuestion ==
  \A c \in list \ gone : \A m \in kept[c] :
    (/\ m.role = "answer" /\ m.turn \notin hasty /\ Question(c, m.turn) \in messages[c]
     /\ \A d \in Conversations : ~Twins(c, d))
      => \/ \E role \in {"answer", "error"} :
              /\ Reply(c, m.turn, role) \in messages[c]
              /\ \E n \in Shown(c) : Alike(n, Reply(c, m.turn, role))
         \/ \E s \in sends : s.turn = m.turn

\* The page shows the conversation of its address: once no navigation is
\* under way, the active conversation is the one of the page that is shown,
\* or none, unless a load came back after its page had been left
\* (chat-interface.tsx:206-244, 338-423, 765-770, chat-navigation.ts:19-85).
PageShowsItsAddress ==
  (~strayed /\ route \in Conversations /\ going = None) => active \in {route, None}
=============================================================================
