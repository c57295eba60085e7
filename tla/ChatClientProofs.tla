-------------------------- MODULE ChatClientProofs --------------------------
(***************************************************************************)
(* Theorems about ChatClient, for every set of conversations, every        *)
(* assignment of titles and every number of questions, acts and calls in   *)
(* flight.                                                                 *)
(*                                                                         *)
(* Shape holds the types, the calls included, and that whatever is listed  *)
(* or was created belongs to a conversation that was born.  AtHome follows *)
(* a message through the server, the loads and the store, Address a page's *)
(* calls back to the page, and Answering a question to its answer: while   *)
(* anything still knows of a question that was asked in time, nothing      *)
(* empties or replaces its conversation, and the place of the answer is    *)
(* there with a call that will fill it.                                    *)
(***************************************************************************)
EXTENDS ChatClient, WellFoundedInduction, TLAPS

SendType == [turn : Turns, of : Slot, here : BOOLEAN,
             stage : {"create", "launch", "asked", "streaming"}]
ListType == [for : Slot, here : BOOLEAN, served : BOOLEAN, found : SUBSET Conversations]
LoadType == [of : Conversations, here : BOOLEAN, served : BOOLEAN, there : BOOLEAN,
             found : SUBSET Message]
DeleteType == [of : Conversations, leaves : BOOLEAN, served : BOOLEAN]

Creators == {s \in sends : s.stage \in {"create", "launch"}}
Askers == {s \in sends : s.stage \in {"asked", "streaming"}}

\* What the store has of messages: none of a conversation it does not list.
TextsOK == /\ list \subseteq born /\ messages \in [Conversations -> SUBSET Message]
           /\ \A c \in Conversations : c \notin list => messages[c] = {}
StoreOK == /\ TextsOK
           /\ active \in Slot /\ isLoading \in BOOLEAN
           /\ pending = None \/ pending \in [of : Conversations, turn : Turns]
ServerOK == /\ saved \subseteq born /\ born \subseteq Conversations /\ gone \subseteq born
            /\ kept \in [Conversations -> SUBSET Message]
            /\ \A c \in Conversations : c \notin saved => kept[c] = {}
PageOK == route \in Pages /\ going \in Pages \cup {None}
SendsOK == /\ sends \subseteq SendType
           /\ \A s \in Creators : s.of \in born \cup {None}
           /\ \A s \in Askers : s.of \in Conversations
ListsOK == lists \subseteq ListType /\ \A r \in lists : r.found \subseteq born
LoadsOK == loads \subseteq LoadType /\ \A r \in loads : r.there => r.of \in born
DeletesOK == deletes \subseteq DeleteType /\ \A r \in deletes : r.of \in born
CountsOK == /\ turns \in 0 .. MaxTurns /\ acts \in 0 .. MaxActs
            /\ strayed \in BOOLEAN /\ hasty \subseteq Turns

\* The types, and where the conversations of the calls come from.
Shape == /\ StoreOK /\ ServerOK /\ PageOK /\ SendsOK
         /\ ListsOK /\ LoadsOK /\ DeletesOK /\ CountsOK

----------------------------------------------------------------------------
(* What is not touched keeps its shape. *)

\* More conversations are born, never fewer.
LEMMA BornGrows == ServerOK /\ [Next]_vars => born \subseteq born'
<1> SUFFICES ASSUME ServerOK, [Next]_vars PROVE born \subseteq born'
  OBVIOUS
<1>1. CASE UNCHANGED vars
  BY <1>1 DEF vars, history
<1>2. CASE UserActs
  BY <1>2 DEF UserActs, OpenChat, LeaveChat, Send, SendNew, Refresh, Delete, history
<1>3. CASE NavigationCommits
  BY <1>3 DEF NavigationCommits
<1>4. CASE Answers
  BY <1>4 DEF Answers, ServerCreates, Created, Launched, CreateFails, ServerTakesQuestion,
     TurnEnds, TurnFails, ServerLists, ListArrives, ServerLoads, ConversationLoaded,
     ConversationMissing, LoadFails, ServerDeletes, Deleted, DeleteFails, history
<1> QED
  BY <1>1, <1>2, <1>3, <1>4 DEF Next

\* What a step leaves alone keeps its shape.
LEMMA Untouched ==
  ASSUME Shape, born \subseteq born'
  PROVE  /\ UNCHANGED <<list, messages>> => TextsOK'
         /\ UNCHANGED store => StoreOK'
         /\ UNCHANGED <<saved, kept, born, gone>> => ServerOK'
         /\ UNCHANGED page => PageOK'
         /\ UNCHANGED sends => SendsOK'
         /\ UNCHANGED lists => ListsOK'
         /\ UNCHANGED loads => LoadsOK'
         /\ UNCHANGED deletes => DeletesOK'
<1>1. UNCHANGED <<list, messages>> => TextsOK'
  BY DEF Shape, StoreOK, TextsOK
<1>2. UNCHANGED store => StoreOK'
  BY <1>1 DEF Shape, StoreOK, store
<1>3. UNCHANGED <<saved, kept, born, gone>> => ServerOK'
  BY DEF Shape, ServerOK
<1>4. UNCHANGED page => PageOK'
  BY DEF Shape, PageOK, page
<1>5. UNCHANGED sends => SendsOK'
  BY DEF Shape, SendsOK, Creators, Askers
<1>6. UNCHANGED lists => ListsOK'
  BY DEF Shape, ListsOK
<1>7. UNCHANGED loads => LoadsOK'
  BY DEF Shape, LoadsOK
<1>8. UNCHANGED deletes => DeletesOK'
  BY DEF Shape, DeletesOK
<1> QED
  BY <1>1, <1>2, <1>3, <1>4, <1>5, <1>6, <1>7, <1>8

----------------------------------------------------------------------------
(* What the helpers do to the messages of the store. *)

\* The messages of a turn.
LEMMA MessageTypes ==
  /\ \A c \in Conversations, k \in 0 .. MaxTurns :
       /\ Question(c, k) \in Message
       /\ \A role \in {"waiting", "answer", "error"} : Reply(c, k, role) \in Message
  /\ \A c \in Conversations, k \in Turns : Asked(c, k) \subseteq Message
  /\ Turns \subseteq 0 .. MaxTurns
<1>1. \A c \in Conversations, k \in 0 .. MaxTurns :
        /\ Question(c, k) \in Message
        /\ \A role \in {"waiting", "answer", "error"} : Reply(c, k, role) \in Message
  BY DEF Question, Reply, Message
<1>2. Turns \subseteq 0 .. MaxTurns
  BY ChatAssumption DEF Turns
<1> QED
  BY <1>1, <1>2 DEF Asked

\* A question is added to a conversation that is listed.
LEMMA AskingTexts ==
  ASSUME Shape, NEW c \in list, NEW k \in Turns, UNCHANGED <<list, born>>,
         messages' = [messages EXCEPT ![c] = @ \cup Asked(c, k)]
  PROVE  /\ TextsOK'
         /\ messages'[c] = messages[c] \cup Asked(c, k)
         /\ \A d \in Conversations \ {c} : messages'[d] = messages[d]
<1>1. c \in Conversations /\ messages \in [Conversations -> SUBSET Message]
  BY DEF Shape, StoreOK, TextsOK, ServerOK
<1>2. Asked(c, k) \subseteq Message
  BY <1>1, MessageTypes
<1> QED
  BY <1>1, <1>2 DEF Shape, StoreOK, TextsOK

\* A list that arrives drops conversations that have a twin in it, gives new
\* ones the messages of a twin, and leaves the messages of all others.
LEMMA ListedTexts ==
  ASSUME Shape, NEW found \in SUBSET born, SetConversations(found), UNCHANGED born
  PROVE  /\ TextsOK'
         /\ \A c \in Conversations :
              \/ messages'[c] \in {{}, messages[c]}
              \/ \E d \in Conversations : Twins(c, d) /\ messages'[c] = messages[d]
         /\ \A c \in list :
              messages[c] # {} /\ (\A d \in Conversations : ~Twins(c, d))
                => c \in list' /\ messages'[c] = messages[c]
<1> DEFINE S == {c \in list \ found : messages[c] # {} /\ \E d \in found : Twins(c, d)}
           O(c) == {d \in list : Twins(c, d) /\ messages[d] # {}}
<1>0. /\ list \subseteq born /\ born \subseteq Conversations /\ found \subseteq Conversations
      /\ messages \in [Conversations -> SUBSET Message]
      /\ \A c \in Conversations : c \notin list => messages[c] = {}
  BY DEF Shape, StoreOK, TextsOK, ServerOK
<1>1. /\ list' = (list \ S) \cup found
      /\ messages' = [c \in Conversations |->
                        IF c \in S THEN {} ELSE IF c \in found THEN Folded(c) ELSE messages[c]]
  BY DEF SetConversations
<1>2. ASSUME NEW c \in Conversations
      PROVE  \/ Folded(c) = messages[c]
             \/ /\ messages[c] = {}
                /\ \E d \in Conversations : Twins(c, d) /\ Folded(c) = messages[d]
  <2>1. Folded(c) = IF messages[c] # {} \/ O(c) = {} THEN messages[c]
                    ELSE messages[CHOOSE d \in O(c) : TRUE]
    BY DEF Folded
  <2>2. CASE messages[c] # {} \/ O(c) = {}
    BY <2>1, <2>2
  <2>3. CASE messages[c] = {} /\ O(c) # {}
    <3>1. (CHOOSE d \in O(c) : TRUE) \in O(c)
      BY <2>3
    <3> QED
      BY <1>0, <2>1, <2>3, <3>1
  <2> QED
    BY <2>2, <2>3
<1>3. \A c \in Conversations : Folded(c) \in SUBSET Message
  BY <1>0, <1>2
<1>4. S \subseteq list /\ S \cap found = {} /\ \A c \in S : \E d \in Conversations : Twins(c, d)
  BY <1>0
<1> HIDE DEF S
<1>5. TextsOK'
  BY <1>0, <1>1, <1>3, <1>4 DEF TextsOK
<1>6. \A c \in Conversations :
        \/ messages'[c] \in {{}, messages[c]}
        \/ \E d \in Conversations : Twins(c, d) /\ messages'[c] = messages[d]
  BY <1>1, <1>2
<1>7. \A c \in list :
        messages[c] # {} /\ (\A d \in Conversations : ~Twins(c, d))
          => c \in list' /\ messages'[c] = messages[c]
  BY <1>0, <1>1, <1>2, <1>4
<1> QED
  BY <1>5, <1>6, <1>7

\* A conversation is added with the messages given, whatever it had.
LEMMA AddedTexts ==
  ASSUME Shape, NEW c \in born, NEW own \in SUBSET Message, NEW next \in Slot,
         AddConversation(c, own, next), UNCHANGED born
  PROVE  /\ TextsOK' /\ list' = list \cup {c} /\ active' = next
         /\ messages'[c] = own
         /\ \A d \in Conversations \ {c} : messages'[d] = messages[d]
BY DEF Shape, StoreOK, TextsOK, ServerOK, AddConversation

\* A conversation is forgotten with its messages.
LEMMA ForgottenTexts ==
  ASSUME Shape, NEW c \in Conversations, Forget(c), UNCHANGED born
  PROVE  /\ TextsOK' /\ list' = list \ {c}
         /\ messages'[c] = {}
         /\ \A d \in Conversations \ {c} : messages'[d] = messages[d]
BY DEF Shape, StoreOK, TextsOK, Forget

\* An answer or an error takes the place of the reply that waits, if it is there.
LEMMA RepliedTexts ==
  ASSUME Shape, NEW s \in Askers, NEW role \in {"answer", "error"}, Replied(s, role),
         UNCHANGED <<list, born>>
  PROVE  /\ TextsOK' /\ s.of \in Conversations /\ s.turn \in Turns
         /\ isLoading' = FALSE /\ sends' = sends \ {s}
         /\ messages'[s.of] =
              IF Reply(s.of, s.turn, "waiting") \in messages[s.of]
              THEN (messages[s.of] \ {Reply(s.of, s.turn, "waiting")})
                     \cup {Reply(s.of, s.turn, role)}
              ELSE messages[s.of]
         /\ \A d \in Conversations \ {s.of} : messages'[d] = messages[d]
<1>1. s.of \in Conversations /\ s \in SendType
  BY DEF Shape, SendsOK, Askers
<1>2. s.turn \in Turns
  BY <1>1 DEF SendType
<1>3. Reply(s.of, s.turn, role) \in Message
  BY <1>1, <1>2, MessageTypes
<1> DEFINE w == Reply(s.of, s.turn, "waiting")
           a == Reply(s.of, s.turn, role)
<1> HIDE DEF w, a
<1>4. messages' = [messages EXCEPT ![s.of] = IF w \in @ THEN (@ \ {w}) \cup {a} ELSE @]
      /\ isLoading' = FALSE /\ sends' = sends \ {s}
  BY DEF Replied, w, a
<1>5. messages \in [Conversations -> SUBSET Message]
      /\ \A c \in Conversations : c \notin list => messages[c] = {}
  BY DEF Shape, StoreOK, TextsOK
<1>6. a \in Message
  BY <1>3 DEF a
<1>7. /\ messages' \in [Conversations -> SUBSET Message]
      /\ messages'[s.of] = IF w \in messages[s.of] THEN (messages[s.of] \ {w}) \cup {a}
                           ELSE messages[s.of]
      /\ \A d \in Conversations \ {s.of} : messages'[d] = messages[d]
  BY <1>1, <1>4, <1>5, <1>6
<1>8. TextsOK'
  BY <1>1, <1>5, <1>7 DEF Shape, StoreOK, TextsOK
<1> QED
  BY <1>1, <1>2, <1>4, <1>7, <1>8 DEF w, a

----------------------------------------------------------------------------
(* Types. *)

\* The session starts with the shape.
LEMMA InitShape == Init => Shape
<1> SUFFICES ASSUME Init PROVE Shape
  OBVIOUS
<1>0. /\ Early \subseteq Conversations /\ 0 \in 0 .. MaxTurns /\ 0 \in 0 .. MaxActs
      /\ Turns \subseteq 0 .. MaxTurns
  BY ChatAssumption, MessageTypes
<1>1. kept \in [Conversations -> SUBSET Message]
      /\ \A c \in Conversations : c \notin saved => kept[c] = {}
  <2>1. \A c \in Conversations : {Question(c, 0), Reply(c, 0, "answer")} \subseteq Message
    BY <1>0, MessageTypes
  <2> QED
    BY <2>1 DEF Init
<1>2. StoreOK
  BY <1>0 DEF Init, StoreOK, TextsOK, Slot
<1>3. ServerOK /\ PageOK
  BY <1>0, <1>1 DEF Init, ServerOK, PageOK, Pages
<1>4. SendsOK /\ ListsOK /\ LoadsOK /\ DeletesOK /\ CountsOK
  BY <1>0 DEF Init, SendsOK, Creators, Askers, ListsOK, LoadsOK, DeletesOK, CountsOK
<1> QED
  BY <1>2, <1>3, <1>4 DEF Shape

\* The calls of a page that is left.
LEMMA LeftShape ==
  ASSUME Shape, born \subseteq born'
  PROVE  /\ sends' = Left(sends) => SendsOK'
         /\ lists' = Left(lists) => ListsOK'
         /\ loads' = Left(loads) => LoadsOK'
<1>1. ASSUME sends' = Left(sends) PROVE SendsOK'
  <2>1. \A s \in sends' : \E x \in sends :
          s \in SendType /\ s.of = x.of /\ s.stage = x.stage /\ s.turn = x.turn
    <3>1. \A x \in sends : x \in SendType
      BY DEF Shape, SendsOK
    <3> QED
      BY <1>1, <3>1 DEF Left, SendType
  <2> QED
    BY <2>1 DEF Shape, SendsOK, Creators, Askers
<1>2. ASSUME lists' = Left(lists) PROVE ListsOK'
  <2>1. \A r \in lists' : \E x \in lists : r \in ListType /\ r.found = x.found
    <3>1. \A x \in lists : x \in ListType
      BY DEF Shape, ListsOK
    <3> QED
      BY <1>2, <3>1 DEF Left, ListType
  <2> QED
    BY <2>1 DEF Shape, ListsOK
<1>3. ASSUME loads' = Left(loads) PROVE LoadsOK'
  <2>1. \A r \in loads' : \E x \in loads : r \in LoadType /\ r.there = x.there /\ r.of = x.of
    <3>1. \A x \in loads : x \in LoadType
      BY DEF Shape, LoadsOK
    <3> QED
      BY <1>3, <3>1 DEF Left, LoadType
  <2> QED
    BY <2>1 DEF Shape, LoadsOK
<1> QED
  BY <1>1, <1>2, <1>3

\* A fetch of the list that is about to be made.
LEMMA ListCallShape ==
  /\ \A c \in Slot : ListCall(c) \in ListType /\ ListCall(c).found = {} /\ ListCall(c).for = c
                       /\ ~ListCall(c).served
  /\ \A p, texts, waiting : \A r \in LoadOf(p, texts, waiting) :
       p \in Conversations /\ texts[p] = {} /\ r = ListCall(p)
BY DEF ListCall, ListType, Slot, LoadOf

\* Asking from the page that is shown.
LEMMA AskShape ==
  ASSUME NEW k \in Turns, NEW c \in Slot,
         NEW st \in {"create", "launch", "asked", "streaming"}
  PROVE  LET s == Ask(k, c, st)
         IN  s \in SendType /\ s.turn = k /\ s.of = c /\ s.stage = st /\ s.here
BY DEF Ask, SendType

\* A fetch of the list that no longer goes on to a conversation.
Aimless(r) == [r EXCEPT !.for = None]

\* The end of isLoading: the page's own calls are made again or left alone.
LEMMA LoadingEndsShape ==
  ASSUME Shape, born \subseteq born', NEW others, NEW more \in SUBSET {ListCall(None)},
         LoadingEnds(others, more)
  PROVE  ListsOK' /\ LoadsOK' /\ active' \in Slot
<1>1. \A r \in lists : Aimless(r) \in ListType
        /\ Aimless(r).found = r.found
  <2>1. \A r \in lists : r \in ListType
    BY DEF Shape, ListsOK
  <2> QED
    BY <2>1 DEF ListType, Slot, Aimless
<1> DEFINE fresh == IF isLoading /\ EffectRuns(others) THEN LoadOf(route, messages', FALSE)
                    ELSE {}
<1>f. \A r \in fresh : route \in Conversations /\ r = ListCall(route)
  BY DEF LoadOf
<1>l. /\ lists' = more \cup fresh \cup
           {IF fresh # {} /\ r.here THEN Aimless(r) ELSE r : r \in lists}
      /\ loads' \subseteq loads
      /\ active' \in {active, route} /\ (active' = active \/ route \in Conversations)
  BY DEF LoadingEnds, EffectRuns, Aimless
<1> HIDE DEF fresh
<1>2. ASSUME NEW r \in lists'
      PROVE  \/ r = ListCall(None)
             \/ route \in Conversations /\ r = ListCall(route)
             \/ r \in lists
             \/ \E x \in lists : r = Aimless(x)
  <2>1. \/ r \in more \/ r \in fresh
        \/ \E x \in lists : r = IF fresh # {} /\ x.here THEN Aimless(x) ELSE x
    BY <1>l
  <2> QED
    BY <1>f, <2>1
<1>3. ListsOK'
  <2>1. \A r \in lists' : r \in ListType /\ r.found \subseteq born'
    <3>1. \A r \in lists : r \in ListType /\ r.found \subseteq born'
      BY DEF Shape, ListsOK
    <3>2. \A r : r = ListCall(None) \/ (route \in Conversations /\ r = ListCall(route))
                  => r \in ListType /\ r.found \subseteq born'
      BY ListCallShape DEF Slot
    <3> QED
      BY <1>1, <1>2, <3>1, <3>2
  <2> QED
    BY <2>1 DEF ListsOK
<1>4. loads' \subseteq loads
  BY <1>l
<1>5. LoadsOK'
  BY <1>4 DEF Shape, LoadsOK
<1>6. active' \in Slot
  BY <1>l DEF Shape, StoreOK, Slot
<1> QED
  BY <1>3, <1>5, <1>6

\* Navigating keeps the shape.
LEMMA NavigationShape ==
  ASSUME Shape, NavigationCommits, UNCHANGED acts PROVE Shape'
<1>0. /\ born' = born /\ going \in Pages /\ route' = going /\ going' = None
      /\ UNCHANGED <<saved, kept, gone, deletes, turns, list, strayed>>
  BY DEF NavigationCommits, Shape, PageOK, server
<1>1. ServerOK' /\ DeletesOK' /\ PageOK'
  BY <1>0, Untouched DEF PageOK
<1>2. CASE going \notin Conversations \/ going = route
  <2>1. UNCHANGED <<messages, isLoading, hasty>> /\ pending' \in {pending, None}
        /\ active' \in {active, None}
    BY <1>2, ChatAssumption DEF NavigationCommits
  <2>2. /\ sends' = sends \/ sends' = Left(sends)
        /\ lists' = lists \/ lists' = Left(lists)
        /\ loads' = loads \/ loads' = Left(loads)
    BY <1>2 DEF NavigationCommits
  <2>3. SendsOK' /\ ListsOK' /\ LoadsOK'
    BY <1>0, <2>2, Untouched, LeftShape
  <2>4. TextsOK'
    BY <1>0, <2>1, Untouched
  <2>5. StoreOK'
    BY <2>1, <2>4 DEF Shape, StoreOK, Slot
  <2> QED
    BY <1>0, <1>1, <2>1, <2>3, <2>5 DEF Shape, CountsOK
<1>3. CASE going \in Conversations /\ going # route
  <2>0. active' = going /\ pending' = None /\ loads' = Left(loads)
    BY <1>3, ChatAssumption DEF NavigationCommits
  <2>1. CASE pending # None /\ pending.of = going
    <3>1. pending.turn \in Turns
      BY <2>1 DEF Shape, StoreOK
    <3>2. /\ messages' = IF going \in list
                         THEN [messages EXCEPT ![going] = @ \cup Asked(going, pending.turn)]
                         ELSE messages
          /\ sends' = Left(sends) \cup {Ask(pending.turn, going, "asked")}
          /\ isLoading' = TRUE /\ lists' = Left(lists)
          /\ hasty' = Hasty(going, pending.turn)
      BY <1>3, <2>1, ChatAssumption DEF NavigationCommits
    <3>3. TextsOK'
      <4>1. CASE going \in list
        BY <1>0, <3>1, <3>2, <4>1, AskingTexts
      <4>2. CASE going \notin list
        BY <1>0, <3>2, <4>2, Untouched
      <4> QED
        BY <4>1, <4>2
    <3>4. SendsOK'
      <4>1. LET s == Ask(pending.turn, going, "asked")
            IN  s \in SendType /\ s.of = going /\ s.stage = "asked"
        BY <1>3, <3>1, AskShape DEF Slot
      <4>2. \A s \in Left(sends) :
              /\ s \in SendType
              /\ s.stage \in {"create", "launch"} => s.of \in born \cup {None}
              /\ s.stage \in {"asked", "streaming"} => s.of \in Conversations
        <5>1. \A x \in sends :
                /\ x \in SendType
                /\ x.stage \in {"create", "launch"} => x.of \in born \cup {None}
                /\ x.stage \in {"asked", "streaming"} => x.of \in Conversations
          BY DEF Shape, SendsOK, Creators, Askers
        <5> QED
          BY <5>1 DEF Left, SendType
      <4> QED
        BY <1>0, <1>3, <3>2, <4>1, <4>2 DEF SendsOK, Creators, Askers
    <3>5. hasty' \subseteq Turns
      BY <3>1, <3>2 DEF Hasty, Shape, CountsOK
    <3>6. StoreOK'
      BY <1>3, <2>0, <3>2, <3>3 DEF StoreOK, Slot
    <3>7. ListsOK' /\ LoadsOK'
      BY <1>0, <2>0, <3>2, LeftShape
    <3> QED
      BY <1>0, <1>1, <3>4, <3>5, <3>6, <3>7 DEF Shape, CountsOK
  <2>2. CASE ~(pending # None /\ pending.of = going)
    <3>1. /\ lists' = Left(lists) \cup LoadOf(going, messages, isLoading)
          /\ sends' = Left(sends) /\ UNCHANGED <<messages, isLoading, hasty>>
      BY <1>3, <2>2, ChatAssumption DEF NavigationCommits
    <3>2. SendsOK' /\ LoadsOK' /\ TextsOK'
      BY <1>0, <2>0, <3>1, LeftShape, Untouched
    <3>3. ListsOK'
      <4>1. \A r \in Left(lists) : r \in ListType /\ r.found \subseteq born
        <5>1. \A x \in lists : x \in ListType /\ x.found \subseteq born
          BY DEF Shape, ListsOK
        <5> QED
          BY <5>1 DEF Left, ListType
      <4>2. \A r \in LoadOf(going, messages, isLoading) : r \in ListType /\ r.found \subseteq born
        BY ListCallShape DEF Slot
      <4> QED
        BY <1>0, <3>1, <4>1, <4>2 DEF ListsOK
    <3>4. StoreOK'
      BY <1>3, <2>0, <3>1, <3>2 DEF Shape, StoreOK, Slot
    <3> QED
      BY <1>0, <1>1, <3>1, <3>2, <3>3, <3>4 DEF Shape, CountsOK
  <2> QED
    BY <2>1, <2>2
<1> QED
  BY <1>2, <1>3

\* What the user does keeps the shape.
LEMMA UserShape ==
  ASSUME Shape, UserActs PROVE Shape'
<1>a. acts' \in 0 .. MaxActs
  BY ChatAssumption DEF UserActs, Shape, CountsOK
<1>b. born' = born /\ born \subseteq born'
  BY DEF UserActs, OpenChat, LeaveChat, Send, SendNew, Refresh, Delete, history
<1>1. ASSUME NEW c \in Conversations, OpenChat(c) PROVE Shape'
  BY <1>1, <1>a, <1>b, Untouched
  DEF OpenChat, Shape, StoreOK, PageOK, CountsOK, Slot, Pages, calls, server, history
<1>2. ASSUME NEW p \in {Home, New}, LeaveChat(p) PROVE Shape'
  BY <1>2, <1>a, <1>b, Untouched
  DEF LeaveChat, Shape, StoreOK, PageOK, CountsOK, Slot, Pages, calls, server, history
<1>t. turns < MaxTurns /\ turns' = turns + 1 => turns' \in Turns /\ turns' \in 0 .. MaxTurns
  BY ChatAssumption DEF Shape, CountsOK, Turns
<1>3. CASE Send
  <2>0. /\ active \in Conversations /\ turns' \in Turns /\ turns' \in 0 .. MaxTurns
        /\ UNCHANGED <<saved, kept, born, gone, route, going, lists, loads, deletes>>
    BY <1>3, <1>t DEF Send, Shape, StoreOK, Slot, server, page
  <2>1. TextsOK'
    <3>1. CASE active \in list
      BY <1>3, <2>0, <3>1, AskingTexts DEF Send
    <3>2. CASE active \notin list
      BY <1>3, <1>b, <3>2, Untouched DEF Send
    <3> QED
      BY <3>1, <3>2
  <2>2. SendsOK'
    <3>1. LET s == Ask(turns', active, "asked")
          IN  s \in SendType /\ s.of = active /\ s.stage = "asked"
      BY <2>0, AskShape DEF Slot
    <3> QED
      BY <1>3, <1>b, <2>0, <3>1 DEF Send, Shape, SendsOK, Creators, Askers
  <2>3. StoreOK'
    BY <1>3, <2>1 DEF Send, Shape, StoreOK
  <2>4. hasty' \subseteq Turns
    BY <1>3, <2>0 DEF Send, Hasty, Shape, CountsOK
  <2> QED
    BY <1>3, <1>a, <1>b, <2>0, <2>2, <2>3, <2>4, Untouched DEF Send, Shape, CountsOK, page
<1>4. CASE SendNew
  <2>0. turns' \in Turns /\ turns' \in 0 .. MaxTurns /\ None \in Slot
    BY <1>4, <1>t DEF SendNew, Slot
  <2>1. PICK st \in {"create", "launch"} : sends' = sends \cup {Ask(turns', None, st)}
    BY <1>4 DEF SendNew
  <2>2. LET s == Ask(turns', None, st) IN s \in SendType /\ s.of = None /\ s.stage = st
    BY <2>0, AskShape
  <2>3. SendsOK'
    BY <1>b, <2>1, <2>2 DEF Shape, SendsOK, Creators, Askers
  <2> QED
    BY <1>4, <1>a, <1>b, <2>0, <2>3, Untouched
    DEF SendNew, Shape, CountsOK, server, history
<1>5. CASE Refresh
  <2>1. ListsOK'
    BY <1>5, <1>b, ListCallShape DEF Refresh, Shape, ListsOK, Slot
  <2> QED
    BY <1>5, <1>a, <1>b, <2>1, Untouched DEF Refresh, Shape, CountsOK, server, history
<1>6. CASE Delete
  <2>1. PICK c \in list, leaves \in BOOLEAN :
          deletes' = deletes \cup {[of |-> c, leaves |-> leaves, served |-> FALSE]}
    BY <1>6 DEF Delete
  <2>2. c \in born /\ c \in Conversations
    BY DEF Shape, StoreOK, TextsOK, ServerOK
  <2>3. DeletesOK'
    <3>1. LET r == [of |-> c, leaves |-> leaves, served |-> FALSE]
          IN  r \in DeleteType /\ r.of = c
      BY <2>2 DEF DeleteType
    <3> QED
      BY <1>b, <2>1, <2>2, <3>1 DEF Shape, DeletesOK
  <2> QED
    BY <1>6, <1>a, <1>b, <2>3, Untouched DEF Delete, Shape, CountsOK, server, history
<1> QED
  BY <1>1, <1>2, <1>3, <1>4, <1>5, <1>6 DEF UserActs

\* The calls of a conversation that is being made or asked.
LEMMA SendFacts ==
  ASSUME Shape, NEW s \in sends
  PROVE  /\ s \in SendType /\ s.turn \in Turns /\ s.of \in Slot
         /\ s.stage \in {"create", "launch"} => s \in Creators /\ s.of \in born \cup {None}
         /\ s.stage \in {"asked", "streaming"} => s \in Askers /\ s.of \in Conversations
BY DEF Shape, SendsOK, Creators, Askers, SendType

\* The end of a launch leaves the new conversation empty or with the question in it.
LEMMA LaunchedFacts ==
  ASSUME Shape, NEW s \in sends, Launched(s)
  PROVE  /\ s.stage = "launch" /\ s.of \in born /\ s.of \in Conversations /\ s.turn \in Turns
         /\ UNCHANGED <<born, saved, kept, gone, route, lists, loads, deletes, turns,
                        strayed, hasty>>
         /\ going' = s.of /\ isLoading' \in {isLoading, TRUE}
         /\ pending' \in {None, [of |-> s.of, turn |-> s.turn]}
         /\ \/ /\ \E next \in Slot : /\ next \in {s.of, route, None}
                                     /\ AddConversation(s.of, {}, next)
               /\ \/ sends' = sends \ {s}
                  \/ sends' = (sends \ {s}) \cup {Ask(s.turn, None, "create")}
            \/ /\ AddConversation(s.of, Asked(s.of, s.turn), s.of)
               /\ sends' = (sends \ {s}) \cup {Ask(s.turn, s.of, "asked")}
<1>1. /\ s.stage = "launch" /\ s.of \in born /\ s.of \in Conversations /\ s.turn \in Turns
      /\ UNCHANGED <<born, saved, kept, gone, route, lists, loads, deletes, turns,
                     strayed, hasty>>
      /\ going' = s.of
  BY SendFacts DEF Launched, server, history, Shape, ServerOK
<1>2. /\ isLoading' \in {isLoading, TRUE}
      /\ pending' \in {None, [of |-> s.of, turn |-> s.turn]}
  BY DEF Launched
<1>3. CASE /\ AddConversation(s.of, Asked(s.of, s.turn), s.of)
           /\ sends' = (sends \ {s}) \cup {Ask(s.turn, s.of, "asked")}
  BY <1>1, <1>2, <1>3
<1>4. CASE /\ sends' \in {sends \ {s}, (sends \ {s}) \cup {Ask(s.turn, None, "create")}}
           /\ \/ AddConversation(s.of, {}, s.of) \/ AddConversation(s.of, {}, None)
              \/ route \in Conversations /\ AddConversation(s.of, {}, route)
  <2>1. \E next \in Slot : next \in {s.of, route, None} /\ AddConversation(s.of, {}, next)
    BY <1>1, <1>4 DEF Slot
  <2> QED
    BY <1>1, <1>2, <1>4, <2>1
<1> QED
  BY <1>3, <1>4 DEF Launched

\* A send that goes on takes the place of what it was.
LEMMA SendGoesOn ==
  ASSUME Shape, born \subseteq born', NEW s \in sends, NEW x \in SendType,
         sends' = (sends \ {s}) \cup {x},
         x.stage \in {"create", "launch"} => x.of \in born' \cup {None},
         x.stage \in {"asked", "streaming"} => x.of \in Conversations
  PROVE  SendsOK'
BY DEF Shape, SendsOK, Creators, Askers

\* What the calls that create or ask do keeps the shape.
LEMMA SendsShape ==
  ASSUME Shape, NEW s \in sends, UNCHANGED acts,
         \/ ServerCreates(s) \/ Created(s) \/ Launched(s) \/ CreateFails(s)
         \/ ServerTakesQuestion(s) \/ TurnEnds(s) \/ TurnFails(s)
  PROVE  Shape'
<1>0. born \subseteq born'
  BY DEF ServerCreates, Created, Launched, CreateFails, ServerTakesQuestion, TurnEnds,
     TurnFails, history
<1>1. CASE ServerCreates(s)
  <2>1. PICK c \in Conversations \ born :
          /\ saved' = saved \cup {c} /\ born' = born \cup {c}
          /\ sends' = (sends \ {s}) \cup {[s EXCEPT !.of = c]}
    BY <1>1 DEF ServerCreates
  <2>2. /\ [s EXCEPT !.of = c] \in SendType /\ [s EXCEPT !.of = c].of = c
        /\ [s EXCEPT !.of = c].stage \in {"create", "launch"}
    BY <1>1, SendFacts DEF ServerCreates, SendType, Slot
  <2>3. SendsOK'
    <3> DEFINE x == [s EXCEPT !.of = c]
    <3>1. /\ x \in SendType /\ x.of \in born' /\ x.stage \in {"create", "launch"}
          /\ x.of \in Conversations /\ sends' = (sends \ {s}) \cup {x}
      BY <2>1, <2>2
    <3> HIDE DEF x
    <3> QED
      BY <1>0, <3>1, SendGoesOn
  <2>4. ServerOK'
    BY <1>1, <2>1 DEF ServerCreates, Shape, ServerOK
  <2> QED
    BY <1>0, <1>1, <2>3, <2>4, Untouched DEF ServerCreates, Shape, CountsOK
<1>2. CASE Created(s)
  <2>0. /\ s.of \in born /\ s.of \in Conversations /\ s.turn \in Turns /\ born' = born
        /\ UNCHANGED <<pending, saved, kept, gone, route, lists, loads, deletes, turns,
                       strayed, hasty>>
        /\ going' = s.of /\ isLoading' = TRUE
    BY <1>2, SendFacts DEF Created, server, history, Shape, ServerOK
  <2>1. PICK next \in Slot : AddConversation(s.of, Asked(s.of, s.turn), next)
    BY <1>2, <2>0 DEF Created, EffectRuns, Slot
  <2>2. TextsOK' /\ active' = next
    BY <2>0, <2>1, AddedTexts, MessageTypes
  <2>3. StoreOK'
    BY <2>0, <2>2 DEF Shape, StoreOK
  <2>4. SendsOK'
    <3>1. LET x == [s EXCEPT !.stage = "asked"]
          IN  x \in SendType /\ x.of = s.of /\ x.stage = "asked"
      BY SendFacts DEF SendType
    <3> QED
      BY <1>0, <1>2, <2>0, <3>1, SendGoesOn DEF Created
  <2>5. PageOK'
    BY <2>0 DEF Shape, PageOK, Pages
  <2> QED
    BY <1>0, <2>0, <2>3, <2>4, <2>5, Untouched DEF Shape, CountsOK
<1>3. CASE Launched(s)
  <2>0. /\ s.of \in born /\ s.of \in Conversations /\ s.turn \in Turns /\ born' = born
        /\ UNCHANGED <<saved, kept, gone, route, lists, loads, deletes, turns, strayed, hasty>>
        /\ going' = s.of /\ isLoading' \in BOOLEAN
        /\ pending' = None \/ pending' \in [of : Conversations, turn : Turns]
    <3>1. isLoading \in BOOLEAN
      BY DEF Shape, StoreOK
    <3>2. /\ s.of \in Conversations /\ s.turn \in Turns
          /\ pending' \in {None, [of |-> s.of, turn |-> s.turn]}
      BY <1>3, LaunchedFacts
    <3>3. pending' = None \/ pending' \in [of : Conversations, turn : Turns]
      BY <3>2
    <3>4. isLoading' \in {isLoading, TRUE}
      BY <1>3, LaunchedFacts
    <3>5. isLoading' \in BOOLEAN
      BY <3>1, <3>4
    <3> QED
      BY <1>3, <3>3, <3>5, LaunchedFacts
  <2>1. TextsOK' /\ active' \in Slot
    <3>1. PICK next \in Slot, own \in {Asked(s.of, s.turn), {}} : AddConversation(s.of, own, next)
      BY <1>3, <2>0, LaunchedFacts DEF Slot
    <3>2. own \in SUBSET Message
      BY <2>0, MessageTypes
    <3> QED
      BY <2>0, <3>1, <3>2, AddedTexts
  <2>2. StoreOK'
    BY <2>0, <2>1 DEF StoreOK
  <2>3. SendsOK'
    <3>1. CASE sends' = sends \ {s}
      BY <2>0, <3>1 DEF Shape, SendsOK, Creators, Askers
    <3>2. CASE sends' = (sends \ {s}) \cup {Ask(s.turn, None, "create")}
      <4> DEFINE x == Ask(s.turn, None, "create")
      <4>1. x \in SendType /\ x.of = None /\ x.stage = "create"
        BY <2>0 DEF Ask, SendType, Slot
      <4> HIDE DEF x
      <4>2. sends' = (sends \ {s}) \cup {x}
        BY <3>2 DEF x
      <4> QED
        BY <1>0, <4>1, <4>2, SendGoesOn
    <3>3. CASE sends' = (sends \ {s}) \cup {Ask(s.turn, s.of, "asked")}
      <4> DEFINE x == Ask(s.turn, s.of, "asked")
      <4>1. x \in SendType /\ x.of = s.of /\ x.stage = "asked"
        BY <2>0 DEF Ask, SendType, Slot
      <4> HIDE DEF x
      <4>2. sends' = (sends \ {s}) \cup {x}
        BY <3>3 DEF x
      <4> QED
        BY <1>0, <2>0, <4>1, <4>2, SendGoesOn
    <3> QED
      BY <1>3, <3>1, <3>2, <3>3, LaunchedFacts
  <2>4. PageOK'
    BY <2>0 DEF Shape, PageOK, Pages
  <2> QED
    BY <1>0, <2>0, <2>2, <2>3, <2>4, Untouched DEF Shape, CountsOK
<1>4. CASE CreateFails(s)
  <2>1. SendsOK'
    BY <1>0, <1>4 DEF CreateFails, Shape, SendsOK, Creators, Askers
  <2> QED
    BY <1>0, <1>4, <2>1, Untouched DEF CreateFails, server, history, Shape, CountsOK
<1>5. CASE ServerTakesQuestion(s)
  <2>0. s.of \in Conversations /\ s.turn \in Turns /\ s.of \in saved
        /\ UNCHANGED <<saved, born, gone>>
    BY <1>5, SendFacts DEF ServerTakesQuestion, history
  <2>1. kept' \in [Conversations -> SUBSET Message]
        /\ \A c \in Conversations : c \notin saved => kept'[c] = {}
    <3>1. Question(s.of, s.turn) \in Message
      BY <2>0, MessageTypes
    <3> QED
      BY <1>5, <2>0, <3>1 DEF ServerTakesQuestion, Shape, ServerOK
  <2>2. ServerOK'
    BY <2>0, <2>1 DEF Shape, ServerOK
  <2>3. SendsOK'
    <3>1. LET x == [s EXCEPT !.stage = "streaming"]
          IN  x \in SendType /\ x.of = s.of /\ x.stage = "streaming"
      BY SendFacts DEF SendType
    <3> QED
      BY <1>0, <1>5, <2>0, <3>1, SendGoesOn DEF ServerTakesQuestion
  <2> QED
    BY <1>0, <1>5, <2>2, <2>3, Untouched DEF ServerTakesQuestion, history, Shape, CountsOK
<1>6. CASE TurnEnds(s) \/ TurnFails(s)
  <2>0. /\ s \in Askers /\ s.of \in Conversations /\ s.turn \in Turns
        /\ UNCHANGED <<saved, born, gone, list, pending, route, going, deletes, turns,
                       strayed, hasty>>
    BY <1>6, SendFacts DEF TurnEnds, TurnFails, history, page
  <2>1. PICK role \in {"answer", "error"} : Replied(s, role)
    BY <1>6 DEF TurnEnds, TurnFails
  <2>2. PICK more \in SUBSET {ListCall(None)} : LoadingEnds(sends \ {s}, more)
    BY <1>6 DEF TurnEnds, TurnFails
  <2>3. ServerOK'
    <3>1. \/ kept' = kept
          \/ /\ s.of \in saved
             /\ kept' = [kept EXCEPT ![s.of] = @ \cup {Reply(s.of, s.turn, "answer")}]
      BY <1>6 DEF TurnEnds, TurnFails
    <3>2. Reply(s.of, s.turn, "answer") \in Message
      BY <2>0, MessageTypes
    <3>3. kept' \in [Conversations -> SUBSET Message]
          /\ \A c \in Conversations : c \notin saved => kept'[c] = {}
      BY <2>0, <3>1, <3>2 DEF Shape, ServerOK
    <3> QED
      BY <2>0, <3>3 DEF Shape, ServerOK
  <2>4. TextsOK' /\ isLoading' = FALSE /\ sends' = sends \ {s}
    BY <2>0, <2>1, RepliedTexts
  <2>5. ListsOK' /\ LoadsOK' /\ active' \in Slot
    BY <1>0, <2>2, LoadingEndsShape
  <2>6. StoreOK'
    BY <2>0, <2>4, <2>5 DEF Shape, StoreOK
  <2>7. SendsOK'
    BY <2>0, <2>4 DEF Shape, SendsOK, Creators, Askers
  <2> QED
    BY <1>0, <2>0, <2>3, <2>5, <2>6, <2>7, Untouched DEF Shape, CountsOK, page
<1> QED
  BY <1>1, <1>2, <1>3, <1>4, <1>5, <1>6

\* What the fetches of the list do keeps the shape.
LEMMA ListsShape ==
  ASSUME Shape, NEW r \in lists, UNCHANGED acts, ServerLists(r) \/ ListArrives(r)
  PROVE  Shape'
<1>0. /\ r \in ListType /\ r.found \subseteq born /\ born' = born /\ born \subseteq born'
      /\ r.for \in Slot /\ r.here \in BOOLEAN
  BY DEF Shape, ListsOK, ListType, ServerLists, ListArrives, history
<1>1. CASE ServerLists(r)
  <2>1. PICK found \in SUBSET saved :
          lists' = (lists \ {r}) \cup {[r EXCEPT !.served = TRUE, !.found = found]}
    BY <1>1 DEF ServerLists
  <2>2. LET x == [r EXCEPT !.served = TRUE, !.found = found]
        IN  x \in ListType /\ x.found = found
    BY <1>0 DEF ListType, Shape, ServerOK
  <2>3. ListsOK'
    BY <1>0, <2>1, <2>2 DEF Shape, ListsOK, ServerOK
  <2> QED
    BY <1>0, <1>1, <2>3, Untouched DEF ServerLists, server, history, Shape, CountsOK
<1>2. CASE ListArrives(r)
  <2>1. TextsOK'
    BY <1>0, <1>2, ListedTexts, Untouched DEF ListArrives
  <2>2. StoreOK'
    BY <1>2, <2>1 DEF ListArrives, Shape, StoreOK
  <2>3. ListsOK'
    BY <1>0, <1>2 DEF ListArrives, Shape, ListsOK
  <2>4. LoadsOK'
    <3>1. CASE r.for = None
      BY <1>0, <1>2, <3>1, Untouched DEF ListArrives
    <3>2. CASE r.for # None
      <4>1. LET x == [of |-> r.for, here |-> r.here, served |-> FALSE, there |-> FALSE,
                      found |-> {}]
            IN  x \in LoadType /\ ~x.there
        BY <1>0, <3>2 DEF LoadType, Slot
      <4> QED
        BY <1>0, <1>2, <3>2, <4>1 DEF ListArrives, Shape, LoadsOK
    <3> QED
      BY <3>1, <3>2
  <2> QED
    BY <1>0, <1>2, <2>2, <2>3, <2>4, Untouched DEF ListArrives, server, history, Shape, CountsOK
<1> QED
  BY <1>1, <1>2

\* What the loads do keeps the shape.
LEMMA LoadsShape ==
  ASSUME Shape, NEW r \in loads, UNCHANGED acts,
         ServerLoads(r) \/ ConversationLoaded(r) \/ ConversationMissing(r) \/ LoadFails(r)
  PROVE  Shape'
<1>0. /\ r \in LoadType /\ born' = born /\ born \subseteq born' /\ (r.there => r.of \in born)
      /\ r.of \in Conversations /\ r.here \in BOOLEAN /\ r.found \in SUBSET Message
  BY DEF Shape, LoadsOK, LoadType, ServerLoads, ConversationLoaded, ConversationMissing,
     LoadFails, history
<1>1. CASE ServerLoads(r)
  <2>1. LET x == [r EXCEPT !.served = TRUE, !.there = r.of \in saved, !.found = kept[r.of]]
        IN  x \in LoadType /\ (x.there => x.of \in born)
    <3>1. kept[r.of] \in SUBSET Message /\ (r.of \in saved => r.of \in born)
      BY <1>0 DEF Shape, ServerOK
    <3>2. \A k \in SUBSET Message, b \in BOOLEAN :
            LET x == [r EXCEPT !.served = TRUE, !.there = b, !.found = k]
            IN  x \in LoadType /\ x.there = b /\ x.of = r.of
      BY <1>0 DEF LoadType
    <3>3. (r.of \in saved) \in BOOLEAN
      OBVIOUS
    <3> QED
      BY <3>1, <3>2, <3>3
  <2>2. LoadsOK'
    BY <1>0, <1>1, <2>1 DEF ServerLoads, Shape, LoadsOK
  <2> QED
    BY <1>0, <1>1, <2>2, Untouched DEF ServerLoads, server, history, Shape, CountsOK
<1>2. CASE ConversationLoaded(r)
  <2>1. r.of \in born
    BY <1>0, <1>2 DEF ConversationLoaded
  <2>5. TextsOK' /\ active' \in Slot
    <3>1. TextsOK' /\ (active' = active \/ active' = r.of)
      <4>1. CASE UNCHANGED <<list, messages, active>>
        BY <1>0, <4>1, Untouched
      <4>2. CASE /\ r.of \in list /\ UNCHANGED <<list, active>>
                 /\ messages' = [messages EXCEPT ![r.of] = r.found]
        BY <1>0, <4>2 DEF Shape, StoreOK, TextsOK
      <4>3. CASE AddConversation(r.of, r.found, r.of)
        BY <1>0, <2>1, <4>3, AddedTexts DEF Slot
      <4> QED
        BY <1>2, <4>1, <4>2, <4>3 DEF ConversationLoaded
    <3> QED
      BY <1>0, <3>1 DEF Shape, StoreOK, Slot
  <2>6. StoreOK'
    BY <1>2, <2>5 DEF ConversationLoaded, Shape, StoreOK
  <2>7. LoadsOK'
    BY <1>0, <1>2 DEF ConversationLoaded, Shape, LoadsOK
  <2> QED
    BY <1>0, <1>2, <2>6, <2>7, Untouched DEF ConversationLoaded, server, page, Shape, CountsOK
<1>3. CASE ConversationMissing(r)
  <2>1. TextsOK' /\ active' \in {r.of, None} /\ going' \in {going, Home}
    <3>1. CASE active' = r.of /\ UNCHANGED <<list, messages, going>>
      BY <1>0, <3>1, Untouched
    <3>2. CASE Forget(r.of) /\ active' = None /\ going' = IF r.here THEN Home ELSE going
      BY <1>0, <3>2, ForgottenTexts
    <3> QED
      BY <1>3, <3>1, <3>2 DEF ConversationMissing
  <2>2. StoreOK'
    BY <1>0, <1>3, <2>1 DEF ConversationMissing, Shape, StoreOK, Slot
  <2>3. LoadsOK'
    BY <1>0, <1>3 DEF ConversationMissing, Shape, LoadsOK
  <2>4. PageOK'
    BY <1>3, <2>1 DEF ConversationMissing, Shape, PageOK, Pages
  <2> QED
    BY <1>0, <1>3, <2>2, <2>3, <2>4, Untouched
    DEF ConversationMissing, server, Shape, CountsOK
<1>4. CASE LoadFails(r)
  <2>1. LoadsOK'
    BY <1>0, <1>4 DEF LoadFails, Shape, LoadsOK
  <2> QED
    BY <1>0, <1>4, <2>1, Untouched DEF LoadFails, server, history, Shape, CountsOK
<1> QED
  BY <1>1, <1>2, <1>3, <1>4

\* What the deletions do keeps the shape.
LEMMA DeletesShape ==
  ASSUME Shape, NEW r \in deletes, UNCHANGED acts,
         ServerDeletes(r) \/ Deleted(r) \/ DeleteFails(r)
  PROVE  Shape'
<1>0. /\ r \in DeleteType /\ r.of \in born /\ born' = born /\ born \subseteq born'
      /\ r.of \in Conversations
  BY DEF Shape, DeletesOK, DeleteType, ServerDeletes, Deleted, DeleteFails, history
<1>1. CASE ServerDeletes(r)
  <2>1. ServerOK'
    <3>1. /\ kept' = [kept EXCEPT ![r.of] = {}] /\ saved' = saved \ {r.of}
          /\ gone' = gone \cup {r.of}
      BY <1>1 DEF ServerDeletes
    <3> QED
      BY <1>0, <3>1 DEF Shape, ServerOK
  <2>2. LET x == [r EXCEPT !.served = TRUE] IN x \in DeleteType /\ x.of = r.of
    BY <1>0 DEF DeleteType
  <2>3. DeletesOK'
    BY <1>0, <1>1, <2>2 DEF ServerDeletes, Shape, DeletesOK
  <2> QED
    BY <1>0, <1>1, <2>1, <2>3, Untouched DEF ServerDeletes, Shape, CountsOK
<1>2. CASE Deleted(r)
  <2>1. TextsOK'
    BY <1>0, <1>2, ForgottenTexts DEF Deleted
  <2>2. StoreOK'
    BY <1>2, <2>1 DEF Deleted, Shape, StoreOK, Slot
  <2>3. DeletesOK'
    BY <1>0, <1>2 DEF Deleted, Shape, DeletesOK
  <2>4. PageOK'
    BY <1>2 DEF Deleted, Shape, PageOK, Pages
  <2> QED
    BY <1>0, <1>2, <2>2, <2>3, <2>4, Untouched DEF Deleted, server, history, Shape, CountsOK
<1>3. CASE DeleteFails(r)
  <2>1. DeletesOK'
    BY <1>0, <1>3 DEF DeleteFails, Shape, DeletesOK
  <2> QED
    BY <1>0, <1>3, <2>1, Untouched DEF DeleteFails, server, history, Shape, CountsOK
<1> QED
  BY <1>1, <1>2, <1>3

\* The shape is kept by every step.
LEMMA StepShape == Shape /\ [Next]_vars => Shape'
<1> SUFFICES ASSUME Shape, [Next]_vars PROVE Shape'
  OBVIOUS
<1>1. CASE UNCHANGED vars
  BY <1>1, Untouched DEF vars, store, server, calls, history, Shape, CountsOK
<1>2. CASE UserActs
  BY <1>2, UserShape
<1>3. CASE NavigationCommits /\ UNCHANGED acts
  BY <1>3, NavigationShape
<1>4. CASE Answers /\ UNCHANGED acts
  BY <1>4, SendsShape, ListsShape, LoadsShape, DeletesShape DEF Answers
<1> QED
  BY <1>1, <1>2, <1>3, <1>4 DEF Next

\* The shape holds throughout.
LEMMA ShapeHolds == Spec => []Shape
BY InitShape, StepShape, PTL DEF Spec

\* Whatever is in flight, the store has messages of the conversations it lists
\* only, and the server keeps none of a conversation it deleted.
THEOREM TypeCorrect == Spec => []TypeOK
<1>1. Shape => TypeOK
  <2> SUFFICES ASSUME Shape PROVE TypeOK
    OBVIOUS
  <2>1. list \subseteq Conversations
    BY DEF Shape, StoreOK, TextsOK, ServerOK
  <2> QED
    BY <2>1 DEF Shape, StoreOK, TextsOK, ServerOK, PageOK, SendsOK, ListsOK, DeletesOK,
       CountsOK, TypeOK, SendType, ListType, DeleteType
<1> QED
  BY <1>1, ShapeHolds, PTL

----------------------------------------------------------------------------
(* Whose messages a conversation shows. *)

Belongs(m, c) == m.of = c \/ Twins(m.of, c)

\* What the server keeps of a conversation and what a load of it brings are its
\* own; what the store has of it is its own or a twin's.
AtHome ==
  /\ \A c \in Conversations : \A m \in kept[c] : m.of = c
  /\ \A r \in loads : \A m \in r.found : m.of = r.of
  /\ \A c \in Conversations : \A m \in messages[c] : Belongs(m, c)

\* The messages of a turn are of the conversation it is asked in.
LEMMA OwnMessages ==
  \A c, k, role : /\ Question(c, k).of = c /\ Reply(c, k, role).of = c
                  /\ \A m \in Asked(c, k) : m.of = c
BY DEF Question, Reply, Asked

\* The twin of a twin is a twin, or oneself.
LEMMA TwinsOfTwins ==
  \A m, c, d : Twins(c, d) /\ Belongs(m, d) => Belongs(m, c)
BY DEF Twins, Belongs

\* The messages stay at home when what is new in a conversation is its own, or
\* was a twin's.
LEMMA StoreAtHome ==
  ASSUME \A c \in Conversations : \A m \in messages[c] : Belongs(m, c),
         \A c \in Conversations : \A m \in messages'[c] :
           \/ m \in messages[c] \/ m.of = c
           \/ \E d \in Conversations : Twins(c, d) /\ m \in messages[d]
  PROVE  \A c \in Conversations : \A m \in messages'[c] : Belongs(m, c)
BY TwinsOfTwins DEF Belongs

\* Nothing but the messages of a conversation's own turns, of its own loads and
\* of its twins gets into it.
LEMMA StoreStep ==
  ASSUME Shape, AtHome, [Next]_vars
  PROVE  \A c \in Conversations : \A m \in messages'[c] :
           \/ m \in messages[c] \/ m.of = c
           \/ \E d \in Conversations : Twins(c, d) /\ m \in messages[d]
<1> DEFINE Goal == \A c \in Conversations : \A m \in messages'[c] :
                     \/ m \in messages[c] \/ m.of = c
                     \/ \E d \in Conversations : Twins(c, d) /\ m \in messages[d]
<1>s. ASSUME UNCHANGED messages PROVE Goal
  BY <1>s
<1>o. ASSUME NEW e \in Conversations,
             \A m \in messages'[e] : m \in messages[e] \/ m.of = e,
             \A d \in Conversations \ {e} : messages'[d] = messages[d]
      PROVE  Goal
  BY <1>o
<1>a. messages \in [Conversations -> SUBSET Message]
  BY DEF Shape, StoreOK, TextsOK
<1> HIDE DEF Goal
<1>1. CASE UNCHANGED vars
  BY <1>1, <1>s DEF vars, store
<1>2. CASE UserActs
  <2>1. CASE Send
    <3>1. active \in Conversations /\ turns' \in Turns
      BY <2>1, ChatAssumption DEF Send, Shape, StoreOK, Slot, CountsOK, Turns
    <3>2. CASE messages' = [messages EXCEPT ![active] = @ \cup Asked(active, turns')]
      <4>1. /\ messages'[active] = messages[active] \cup Asked(active, turns')
            /\ \A d \in Conversations \ {active} : messages'[d] = messages[d]
        BY <1>a, <3>1, <3>2
      <4> QED
        BY <1>o, <3>1, <4>1, OwnMessages
    <3>3. CASE messages' = messages
      BY <1>s, <3>3
    <3> QED
      BY <2>1, <3>2, <3>3 DEF Send
  <2>2. CASE ~Send
    BY <1>2, <1>s, <2>2 DEF UserActs, OpenChat, LeaveChat, SendNew, Refresh, Delete, store
  <2> QED
    BY <2>1, <2>2
<1>3. CASE NavigationCommits
  <2>1. CASE UNCHANGED messages
    BY <1>s, <2>1
  <2>2. CASE /\ going \in Conversations /\ pending # None
             /\ messages' = IF going \in list
                            THEN [messages EXCEPT ![going] = @ \cup Asked(going, pending.turn)]
                            ELSE messages
    <3>2. CASE messages' = [messages EXCEPT ![going] = @ \cup Asked(going, pending.turn)]
      <4>1. /\ messages'[going] = messages[going] \cup Asked(going, pending.turn)
            /\ \A d \in Conversations \ {going} : messages'[d] = messages[d]
        BY <1>a, <2>2, <3>2
      <4> QED
        BY <1>o, <2>2, <4>1, OwnMessages
    <3>3. CASE messages' = messages
      BY <1>s, <3>3
    <3> QED
      BY <2>2, <3>2, <3>3
  <2> QED
    BY <1>3, <2>1, <2>2 DEF NavigationCommits
<1>4. ASSUME NEW s \in sends,
             \/ ServerCreates(s) \/ Created(s) \/ Launched(s) \/ CreateFails(s)
             \/ ServerTakesQuestion(s) \/ TurnEnds(s) \/ TurnFails(s)
      PROVE  Goal
  <2>1. CASE ServerCreates(s) \/ CreateFails(s) \/ ServerTakesQuestion(s)
    BY <1>s, <2>1 DEF ServerCreates, CreateFails, ServerTakesQuestion, store
  <2>2. CASE Created(s) \/ Launched(s)
    <3>1. s.of \in born /\ s.of \in Conversations /\ s.turn \in Turns /\ born' = born
      BY <2>2, SendFacts DEF Created, Launched, history, Shape, ServerOK
    <3>2. PICK next \in Slot, own \in {Asked(s.of, s.turn), {}} : AddConversation(s.of, own, next)
      BY <2>2, <3>1 DEF Created, Launched, EffectRuns, Slot
    <3>3. own \subseteq Message /\ \A m \in own : m.of = s.of
      BY <3>1, MessageTypes, OwnMessages
    <3>4. messages'[s.of] = own /\ \A d \in Conversations \ {s.of} : messages'[d] = messages[d]
      BY <3>1, <3>2, <3>3, AddedTexts
    <3> QED
      BY <1>o, <3>1, <3>3, <3>4
  <2>3. CASE TurnEnds(s) \/ TurnFails(s)
    <3>1. s \in Askers /\ UNCHANGED <<list, born>>
      BY <2>3, SendFacts DEF TurnEnds, TurnFails, history
    <3>2. PICK role \in {"answer", "error"} : Replied(s, role)
      BY <2>3 DEF TurnEnds, TurnFails
    <3>3. /\ s.of \in Conversations
          /\ messages'[s.of] =
               IF Reply(s.of, s.turn, "waiting") \in messages[s.of]
               THEN (messages[s.of] \ {Reply(s.of, s.turn, "waiting")})
                      \cup {Reply(s.of, s.turn, role)}
               ELSE messages[s.of]
          /\ \A d \in Conversations \ {s.of} : messages'[d] = messages[d]
      BY <3>1, <3>2, RepliedTexts
    <3>4. \A m \in messages'[s.of] : m \in messages[s.of] \/ m.of = s.of
      BY <3>3, OwnMessages
    <3> QED
      BY <1>o, <3>3, <3>4
  <2> QED
    BY <1>4, <2>1, <2>2, <2>3
<1>5. ASSUME NEW r \in lists, ServerLists(r) \/ ListArrives(r) PROVE Goal
  <2>1. CASE UNCHANGED messages
    BY <1>s, <2>1
  <2>2. CASE SetConversations(r.found) /\ UNCHANGED born
    <3>1. r.found \in SUBSET born
      BY DEF Shape, ListsOK
    <3>2. \A c \in Conversations :
            \/ messages'[c] \in {{}, messages[c]}
            \/ \E d \in Conversations : Twins(c, d) /\ messages'[c] = messages[d]
      BY <2>2, <3>1, ListedTexts
    <3> QED
      BY <3>2 DEF Goal
  <2> QED
    BY <1>5, <2>1, <2>2 DEF ServerLists, ListArrives, store, history
<1>6. ASSUME NEW r \in loads,
             ServerLoads(r) \/ ConversationLoaded(r) \/ ConversationMissing(r) \/ LoadFails(r)
      PROVE  Goal
  <2>0. /\ r.of \in Conversations /\ r.found \in SUBSET Message /\ (r.there => r.of \in born)
        /\ \A m \in r.found : m.of = r.of
    BY DEF Shape, LoadsOK, LoadType, AtHome
  <2>1. CASE UNCHANGED messages
    BY <1>s, <2>1
  <2>2. CASE messages' = [messages EXCEPT ![r.of] = r.found]
    <3>1. messages'[r.of] = r.found /\ \A d \in Conversations \ {r.of} : messages'[d] = messages[d]
      BY <2>0, <2>2 DEF Shape, StoreOK, TextsOK
    <3> QED
      BY <1>o, <2>0, <3>1
  <2>3. CASE AddConversation(r.of, r.found, r.of) /\ r.there /\ UNCHANGED born
    <3>1. messages'[r.of] = r.found /\ \A d \in Conversations \ {r.of} : messages'[d] = messages[d]
      BY <2>0, <2>3, AddedTexts DEF Slot
    <3> QED
      BY <1>o, <2>0, <3>1
  <2>4. CASE Forget(r.of) /\ UNCHANGED born
    BY <1>o, <2>0, <2>4, ForgottenTexts
  <2> QED
    BY <1>6, <2>1, <2>2, <2>3, <2>4
    DEF ServerLoads, ConversationLoaded, ConversationMissing, LoadFails, store, history
<1>7. ASSUME NEW r \in deletes, ServerDeletes(r) \/ Deleted(r) \/ DeleteFails(r) PROVE Goal
  <2>1. CASE UNCHANGED messages
    BY <1>s, <2>1
  <2>2. CASE Forget(r.of) /\ UNCHANGED born
    <3>1. r.of \in Conversations
      BY DEF Shape, DeletesOK, DeleteType
    <3> QED
      BY <1>o, <2>2, <3>1, ForgottenTexts
  <2> QED
    BY <1>7, <2>1, <2>2 DEF ServerDeletes, Deleted, DeleteFails, store, history
<1> QED
  BY <1>1, <1>2, <1>3, <1>4, <1>5, <1>6, <1>7 DEF Next, Answers, Goal

\* The server keeps a turn in the conversation it was asked in, or keeps less.
LEMMA KeptStep ==
  ASSUME Shape, AtHome, [Next]_vars
  PROVE  \A c \in Conversations : \A m \in kept'[c] : m.of = c
<1> DEFINE Goal == \A c \in Conversations : \A m \in kept'[c] : m.of = c
<1>k. kept \in [Conversations -> SUBSET Message]
  BY DEF Shape, ServerOK
<1>s. ASSUME UNCHANGED kept PROVE Goal
  BY <1>s DEF AtHome
<1>1. CASE UNCHANGED vars
  BY <1>1, <1>s DEF vars, server
<1>2. CASE UserActs
  BY <1>2, <1>s DEF UserActs, OpenChat, LeaveChat, Send, SendNew, Refresh, Delete, server
<1>3. CASE NavigationCommits
  BY <1>3, <1>s DEF NavigationCommits, server
<1>4. ASSUME NEW s \in sends, ServerTakesQuestion(s) \/ TurnEnds(s) \/ TurnFails(s)
      PROVE  Goal
  <2>1. s.of \in Conversations
    BY <1>4, SendFacts DEF ServerTakesQuestion, TurnEnds, TurnFails
  <2>2. PICK m \in {Question(s.of, s.turn), Reply(s.of, s.turn, "answer")} :
           kept' = kept \/ kept' = [kept EXCEPT ![s.of] = @ \cup {m}]
    BY <1>4 DEF ServerTakesQuestion, TurnEnds, TurnFails
  <2>3. m.of = s.of
    BY OwnMessages
  <2>4. kept'[s.of] \subseteq kept[s.of] \cup {m}
        /\ \A d \in Conversations \ {s.of} : kept'[d] = kept[d]
    BY <1>k, <2>1, <2>2
  <2> QED
    BY <2>1, <2>3, <2>4 DEF AtHome
<1>5. ASSUME NEW s \in sends,
             ServerCreates(s) \/ Created(s) \/ Launched(s) \/ CreateFails(s)
      PROVE  Goal
  BY <1>5, <1>s DEF ServerCreates, Created, Launched, CreateFails, server
<1>6. ASSUME NEW r \in lists, ServerLists(r) \/ ListArrives(r) PROVE Goal
  BY <1>6, <1>s DEF ServerLists, ListArrives, server
<1>7. ASSUME NEW r \in loads,
             ServerLoads(r) \/ ConversationLoaded(r) \/ ConversationMissing(r) \/ LoadFails(r)
      PROVE  Goal
  BY <1>7, <1>s DEF ServerLoads, ConversationLoaded, ConversationMissing, LoadFails, server
<1>8. ASSUME NEW r \in deletes, ServerDeletes(r) \/ Deleted(r) \/ DeleteFails(r) PROVE Goal
  <2>1. CASE kept' = [kept EXCEPT ![r.of] = {}]
    BY <1>k, <2>1 DEF AtHome
  <2> QED
    BY <1>8, <1>s, <2>1 DEF ServerDeletes, Deleted, DeleteFails, server
<1> QED
  BY <1>1, <1>2, <1>3, <1>4, <1>5, <1>6, <1>7, <1>8 DEF Next, Answers

\* What becomes of the loads in a step: they go on as they are, perhaps for a page
\* that has been left; one is answered by the server; or one begins with nothing.
LEMMA LoadsStep ==
  ASSUME Shape, [Next]_vars
  PROVE  \A x \in loads' :
           \/ x \in loads
           \/ \E r \in loads : x.of = r.of /\ x.found = r.found /\ ~x.here
           \/ \E r \in loads : /\ x.of = r.of /\ x.here = r.here
                               /\ x.found = kept[r.of] /\ x.there = (r.of \in saved)
           \/ /\ x.found = {}
              /\ \E r \in lists : r.for # None /\ x.of = r.for /\ x.here = r.here
<1> DEFINE Goal(x) ==
           \/ x \in loads
           \/ \E r \in loads : x.of = r.of /\ x.found = r.found /\ ~x.here
           \/ \E r \in loads : /\ x.of = r.of /\ x.here = r.here
                               /\ x.found = kept[r.of] /\ x.there = (r.of \in saved)
           \/ /\ x.found = {}
              /\ \E r \in lists : r.for # None /\ x.of = r.for /\ x.here = r.here
<1> SUFFICES ASSUME NEW x \in loads' PROVE Goal(x)
  OBVIOUS
<1>t. \A r \in loads : r \in LoadType
  BY DEF Shape, LoadsOK
<1>s. ASSUME loads' \subseteq loads PROVE Goal(x)
  BY <1>s
<1>1. CASE UNCHANGED vars
  BY <1>1, <1>s DEF vars, calls
<1>2. CASE UserActs
  BY <1>2, <1>s DEF UserActs, OpenChat, LeaveChat, Send, SendNew, Refresh, Delete, calls
<1>3. CASE NavigationCommits
  <2>1. CASE loads' = Left(loads)
    <3>1. PICK r \in loads : x = [r EXCEPT !.here = FALSE]
      BY <2>1 DEF Left
    <3>2. x.of = r.of /\ x.found = r.found /\ ~x.here
      BY <1>t, <3>1 DEF LoadType
    <3> QED
      BY <3>2
  <2> QED
    BY <1>3, <1>s, <2>1 DEF NavigationCommits
<1>4. ASSUME NEW s \in sends,
             \/ ServerCreates(s) \/ Created(s) \/ Launched(s) \/ CreateFails(s)
             \/ ServerTakesQuestion(s) \/ TurnEnds(s) \/ TurnFails(s)
      PROVE  Goal(x)
  BY <1>4, <1>s DEF ServerCreates, Created, Launched, CreateFails, ServerTakesQuestion,
     TurnEnds, TurnFails, LoadingEnds
<1>5. ASSUME NEW r \in lists, ServerLists(r) \/ ListArrives(r) PROVE Goal(x)
  <2>1. CASE /\ r.for # None
             /\ loads' = loads \cup {[of |-> r.for, here |-> r.here, served |-> FALSE,
                                      there |-> FALSE, found |-> {}]}
    <3>1. CASE x \in loads
      BY <3>1
    <3>2. CASE x = [of |-> r.for, here |-> r.here, served |-> FALSE, there |-> FALSE,
                    found |-> {}]
      <4>1. x.of = r.for /\ x.here = r.here /\ x.found = {}
        BY <3>2
      <4> QED
        BY <2>1, <4>1
    <3> QED
      BY <2>1, <3>1, <3>2
  <2> QED
    BY <1>5, <1>s, <2>1 DEF ServerLists, ListArrives
<1>6. ASSUME NEW r \in loads, ServerLoads(r) PROVE Goal(x)
  <2>1. CASE x \in loads
    BY <2>1
  <2>2. CASE x = [r EXCEPT !.served = TRUE, !.there = r.of \in saved, !.found = kept[r.of]]
    <3>1. x.of = r.of /\ x.here = r.here /\ x.found = kept[r.of] /\ x.there = (r.of \in saved)
      BY <1>t, <2>2 DEF LoadType
    <3> QED
      BY <3>1
  <2> QED
    BY <1>6, <2>1, <2>2 DEF ServerLoads
<1>7. ASSUME NEW r \in loads,
             ConversationLoaded(r) \/ ConversationMissing(r) \/ LoadFails(r)
      PROVE  Goal(x)
  BY <1>7, <1>s DEF ConversationLoaded, ConversationMissing, LoadFails
<1>8. ASSUME NEW r \in deletes, ServerDeletes(r) \/ Deleted(r) \/ DeleteFails(r)
      PROVE  Goal(x)
  BY <1>8, <1>s DEF ServerDeletes, Deleted, DeleteFails
<1> HIDE DEF Goal
<1> QED
  BY <1>1, <1>2, <1>3, <1>4, <1>5, <1>6, <1>7, <1>8 DEF Next, Answers

\* Messages stay at home in every step.
LEMMA StepAtHome == Shape /\ AtHome /\ [Next]_vars => AtHome'
<1> SUFFICES ASSUME Shape, AtHome, [Next]_vars PROVE AtHome'
  OBVIOUS
<1>1. \A c \in Conversations : \A m \in kept'[c] : m.of = c
  BY KeptStep
<1>2. \A c \in Conversations : \A m \in messages'[c] : Belongs(m, c)
  BY StoreStep, StoreAtHome DEF AtHome
<1>3. \A x \in loads' : \A m \in x.found : m.of = x.of
  <2>1. \A r \in loads : r.of \in Conversations
    BY DEF Shape, LoadsOK, LoadType
  <2>2. \A r \in loads : \A m \in kept[r.of] : m.of = r.of
    BY <2>1 DEF AtHome
  <2>3. \A r \in loads : \A m \in r.found : m.of = r.of
    BY DEF AtHome
  <2> SUFFICES ASSUME NEW x \in loads' PROVE \A m \in x.found : m.of = x.of
    OBVIOUS
  <2> QED
    BY <2>2, <2>3, LoadsStep
<1>4. \A c \in Conversations : \A m : Belongs(m, c)' <=> Belongs(m, c)
  BY DEF Belongs, Twins
<1> QED
  BY <1>1, <1>2, <1>3, <1>4 DEF AtHome

\* Whatever arrives in whatever order, no conversation shows a message of another
\* that is not its twin.
THEOREM NoStrangersMessages == Spec => []MessagesStayHome
<1>1. Init => AtHome
  BY OwnMessages DEF Init, AtHome
<1>2. AtHome => MessagesStayHome
  BY DEF AtHome, Belongs, MessagesStayHome
<1> QED
  BY <1>1, <1>2, StepAtHome, ShapeHolds, PTL DEF Spec

----------------------------------------------------------------------------
(* What the page shows. *)

\* The calls of the page that is shown are for its conversation, and where the
\* user stays, or is going already, the active conversation is the page's.
Address ==
  /\ \A r \in loads : r.here => r.of = route
  /\ \A r \in lists : r.here /\ r.for # None => r.for = route
  /\ (~strayed /\ route \in Conversations /\ going \in {None, route})
       => active \in {route, None}

\* The fetches of the list that a page makes are for itself.
LEMMA ListsStep ==
  ASSUME Shape, [Next]_vars, ~NavigationCommits
  PROVE  /\ route' = route
         /\ \A x \in lists' : \/ x.for \in {None, route}
                              \/ \E r \in lists : x.for = r.for /\ x.here = r.here
<1> DEFINE Goal == /\ route' = route
                   /\ \A x \in lists' : \/ x.for \in {None, route}
                                        \/ \E r \in lists : x.for = r.for /\ x.here = r.here
<1>t. \A r \in lists : r \in ListType
  BY DEF Shape, ListsOK
<1>f. ListCall(None).for = None /\ (route \in Conversations => ListCall(route).for = route)
  BY ListCallShape DEF Slot
<1>s. ASSUME lists' \subseteq lists \cup {ListCall(None)}, route' = route PROVE Goal
  BY <1>s, <1>f
<1> HIDE DEF Goal
<1>1. ASSUME UNCHANGED vars PROVE Goal
  BY <1>1, <1>s DEF vars, calls, page
<1>2. ASSUME UserActs PROVE Goal
  <2>1. CASE \E c \in Conversations : OpenChat(c)
    BY <1>s, <2>1 DEF OpenChat, calls
  <2>2. CASE LeaveChat(Home) \/ LeaveChat(New)
    BY <1>s, <2>2 DEF LeaveChat, calls
  <2>3. CASE Send \/ SendNew \/ Refresh \/ Delete
    BY <1>s, <2>3 DEF Send, SendNew, Refresh, Delete, page
  <2> QED
    BY <1>2, <2>1, <2>2, <2>3 DEF UserActs
<1>3. ASSUME NEW s \in sends,
             ServerCreates(s) \/ Created(s) \/ Launched(s) \/ CreateFails(s)
             \/ ServerTakesQuestion(s)
      PROVE  Goal
  BY <1>3, <1>s DEF ServerCreates, Created, Launched, CreateFails, ServerTakesQuestion, page
<1>4. ASSUME NEW s \in sends, TurnEnds(s) \/ TurnFails(s) PROVE Goal
  <2>1. PICK more \in SUBSET {ListCall(None)} : LoadingEnds(sends \ {s}, more)
    BY <1>4 DEF TurnEnds, TurnFails
  <2> DEFINE fresh == IF isLoading /\ EffectRuns(sends \ {s})
                      THEN LoadOf(route, messages', FALSE) ELSE {}
  <2>2. lists' = more \cup fresh \cup
                   {IF fresh # {} /\ r.here THEN Aimless(r) ELSE r : r \in lists}
    BY <2>1 DEF LoadingEnds, Aimless
  <2>3. \A r \in fresh : route \in Conversations /\ r = ListCall(route)
    BY DEF LoadOf
  <2> HIDE DEF fresh
  <2>4. \A r \in lists : Aimless(r).for = None
    BY <1>t DEF Aimless, ListType
  <2>5. ASSUME NEW x \in lists'
        PROVE  \/ x.for \in {None, route}
               \/ \E r \in lists : x.for = r.for /\ x.here = r.here
    <3>1. \/ x \in more \/ x \in fresh
          \/ \E r \in lists : x = IF fresh # {} /\ r.here THEN Aimless(r) ELSE r
      BY <2>2
    <3> QED
      BY <1>f, <2>3, <2>4, <3>1
  <2>6. route' = route
    BY <1>4 DEF TurnEnds, TurnFails, page
  <2> QED
    BY <2>5, <2>6 DEF Goal
<1>5. ASSUME NEW r \in lists, ServerLists(r) PROVE Goal
  <2>1. PICK found : lists' = (lists \ {r}) \cup {[r EXCEPT !.served = TRUE, !.found = found]}
    BY <1>5 DEF ServerLists
  <2>2. LET x == [r EXCEPT !.served = TRUE, !.found = found]
        IN  x.for = r.for /\ x.here = r.here
    BY <1>t DEF ListType
  <2>3. route' = route
    BY <1>5 DEF ServerLists, page
  <2> QED
    BY <2>1, <2>2, <2>3 DEF Goal
<1>6. ASSUME NEW r \in lists, ListArrives(r) PROVE Goal
  BY <1>6, <1>s DEF ListArrives, page
<1>7. ASSUME NEW r \in loads,
             ServerLoads(r) \/ ConversationLoaded(r) \/ ConversationMissing(r) \/ LoadFails(r)
      PROVE  Goal
  BY <1>7, <1>s DEF ServerLoads, ConversationLoaded, ConversationMissing, LoadFails, page
<1>8. ASSUME NEW r \in deletes, ServerDeletes(r) \/ Deleted(r) \/ DeleteFails(r) PROVE Goal
  BY <1>8, <1>s DEF ServerDeletes, Deleted, DeleteFails, page
<1> QED
  BY <1>1, <1>2, <1>3, <1>4, <1>5, <1>6, <1>7, <1>8 DEF Next, Answers, Goal

\* A page that is arrived at has no calls but its own.
LEMMA ArrivingAddress ==
  ASSUME Shape, Address, NavigationCommits PROVE Address'
<1>0. going \in Pages /\ route' = going /\ going' = None /\ strayed' = strayed
  BY DEF NavigationCommits, Shape, PageOK
<1>1. CASE going = route
  BY <1>0, <1>1, ChatAssumption DEF NavigationCommits, Address
<1>2. CASE going # route
  <2>1. /\ loads' = Left(loads)
        /\ lists' = Left(lists) \/ lists' = Left(lists) \cup LoadOf(going, messages, isLoading)
        /\ going \in Conversations => active' = going
    BY <1>2, ChatAssumption DEF NavigationCommits
  <2>2. (\A x \in Left(loads) : ~x.here) /\ (\A x \in Left(lists) : ~x.here)
    <3>1. (\A r \in loads : r \in LoadType) /\ (\A r \in lists : r \in ListType)
      BY DEF Shape, LoadsOK, ListsOK
    <3> QED
      BY <3>1 DEF Left, LoadType, ListType
  <2>3. \A x \in LoadOf(going, messages, isLoading) : x.for = going
    BY ListCallShape DEF Slot
  <2> QED
    BY <1>0, <2>1, <2>2, <2>3 DEF Address
<1> QED
  BY <1>1, <1>2

\* Every step keeps to the address.
LEMMA StepAddress == Shape /\ Address /\ [Next]_vars => Address'
<1> SUFFICES ASSUME Shape, Address, [Next]_vars, ~NavigationCommits PROVE Address'
  BY ArrivingAddress
<1>1. /\ route' = route
      /\ \A x \in lists' : \/ x.for \in {None, route}
                           \/ \E r \in lists : x.for = r.for /\ x.here = r.here
  BY ListsStep
<1>2. \A x \in lists' : x.here /\ x.for # None => x.for = route'
  BY <1>1 DEF Address
<1>3. \A x \in loads' : x.here => x.of = route'
  <2> SUFFICES ASSUME NEW x \in loads', x.here PROVE x.of = route'
    OBVIOUS
  <2>1. \/ x \in loads
        \/ \E r \in loads : x.of = r.of /\ x.here = r.here
        \/ \E r \in lists : r.for # None /\ x.of = r.for /\ x.here = r.here
    BY LoadsStep
  <2> QED
    BY <1>1, <2>1 DEF Address
<1> DEFINE Agrees == (~strayed /\ route \in Conversations /\ going \in {None, route})
                      => active \in {route, None}
<1>0. Agrees /\ Home \notin Conversations /\ New \notin Conversations /\ None \notin Conversations
  BY ChatAssumption DEF Address
<1>s. ASSUME active' \in {active, route, None},
             going' = going \/ going' \notin {None, route},
             strayed' = strayed
      PROVE  Agrees'
  BY <1>0, <1>1, <1>s
<1>b. ASSUME strayed' \/ going' \notin {None, route'} \/ active' \in {route', None}
      PROVE  Agrees'
  BY <1>b
<1> HIDE DEF Agrees
<1>4. ASSUME UNCHANGED vars PROVE Agrees'
  BY <1>4, <1>s DEF vars, store, page, history
<1>5. ASSUME UserActs PROVE Agrees'
  <2>1. ASSUME NEW c \in Conversations, OpenChat(c) PROVE Agrees'
    BY <1>0, <1>1, <1>b, <2>1 DEF OpenChat
  <2>2. ASSUME NEW p \in {Home, New}, LeaveChat(p) PROVE Agrees'
    BY <1>1, <1>b, <2>2 DEF LeaveChat
  <2>3. CASE Send \/ SendNew \/ Refresh \/ Delete
    BY <1>s, <2>3 DEF Send, SendNew, Refresh, Delete, store, page, history
  <2> QED
    BY <1>5, <2>1, <2>2, <2>3 DEF UserActs
<1>6. ASSUME NEW s \in sends,
             \/ ServerCreates(s) \/ Created(s) \/ Launched(s) \/ CreateFails(s)
             \/ ServerTakesQuestion(s) \/ TurnEnds(s) \/ TurnFails(s)
      PROVE  Agrees'
  <2>1. CASE ServerCreates(s) \/ CreateFails(s) \/ ServerTakesQuestion(s)
    BY <1>s, <2>1 DEF ServerCreates, CreateFails, ServerTakesQuestion, store, page, history
  <2>2. CASE Created(s) \/ Launched(s)
    <3>1. going' = s.of /\ s.of # None /\ active' \in {s.of, route, None}
      <4>1. CASE Created(s)
        BY <4>1 DEF Created, AddConversation
      <4>2. CASE Launched(s)
        BY <4>2, ChatAssumption, LaunchedFacts DEF Launched, AddConversation
      <4> QED
        BY <2>2, <4>1, <4>2
    <3> QED
      BY <1>1, <1>b, <3>1
  <2>3. CASE TurnEnds(s) \/ TurnFails(s)
    <3>1. active' \in {active, route} /\ UNCHANGED <<going, strayed>>
      BY <2>3 DEF TurnEnds, TurnFails, LoadingEnds, page, history
    <3> QED
      BY <1>s, <3>1
  <2> QED
    BY <1>6, <2>1, <2>2, <2>3
<1>7. ASSUME NEW r \in lists, ServerLists(r) \/ ListArrives(r) PROVE Agrees'
  BY <1>7, <1>s DEF ServerLists, ListArrives, store, page, history
<1>8. ASSUME NEW r \in loads,
             ServerLoads(r) \/ ConversationLoaded(r) \/ ConversationMissing(r) \/ LoadFails(r)
      PROVE  Agrees'
  <2>1. CASE ServerLoads(r) \/ LoadFails(r)
    BY <1>s, <2>1 DEF ServerLoads, LoadFails, store, page, history
  <2>2. CASE ConversationLoaded(r) \/ ConversationMissing(r)
    <3>1. CASE ~r.here
      BY <1>b, <2>2, <3>1 DEF ConversationLoaded, ConversationMissing
    <3>2. CASE r.here
      <4>1. r.of = route
        BY <3>2 DEF Address
      <4>2. (active' \in {active, route} /\ going' = going) \/ active' = None
        BY <2>2, <3>2, <4>1
        DEF ConversationLoaded, ConversationMissing, AddConversation, page
      <4>3. strayed' = strayed
        BY <2>2, <3>2 DEF ConversationLoaded, ConversationMissing, Shape, CountsOK
      <4> QED
        BY <1>b, <1>s, <4>2, <4>3
    <3> QED
      BY <3>1, <3>2
  <2> QED
    BY <1>8, <2>1, <2>2
<1>9. ASSUME NEW r \in deletes, ServerDeletes(r) \/ Deleted(r) \/ DeleteFails(r) PROVE Agrees'
  <2>1. CASE ServerDeletes(r) \/ DeleteFails(r)
    BY <1>s, <2>1 DEF ServerDeletes, DeleteFails, store, page, history
  <2>2. CASE Deleted(r)
    <3>1. /\ strayed' = strayed
          /\ (active' \in {active, None} /\ going' = going) \/ going' = Home
      BY <2>2 DEF Deleted, history
    <3> QED
      BY <1>0, <1>1, <1>s, <3>1, ChatAssumption DEF Agrees
  <2> QED
    BY <1>9, <2>1, <2>2
<1>10. Agrees'
  BY <1>4, <1>5, <1>6, <1>7, <1>8, <1>9 DEF Next, Answers
<1> QED
  BY <1>2, <1>3, <1>10 DEF Address, Agrees

\* Wherever the user has been, the page that is shown and the active conversation
\* are the same once no navigation is under way, unless a load came back after its
\* page had been left.
THEOREM AddressIsShown == Spec => []PageShowsItsAddress
<1>1. Init => Address
  BY DEF Init, Address
<1>2. Address => PageShowsItsAddress
  BY DEF Address, PageShowsItsAddress
<1> QED
  BY <1>1, <1>2, StepAddress, ShapeHolds, PTL DEF Spec

----------------------------------------------------------------------------
(* What becomes of a question. *)

\* Conversations whose answers are followed: not deleted, and no other's twin.
Followed == {c \in Conversations \ gone : \A d \in Conversations : ~Twins(c, d)}

\* A turn has been asked in a conversation, as far as anybody knows.
Bound(c, k) ==
  \/ \E s \in Askers : s.of = c /\ s.turn = k
  \/ Question(c, k) \in kept[c]
  \/ \E r \in loads : r.of = c /\ Question(c, k) \in r.found
  \/ Question(c, k) \in messages[c]

\* Neither a load nor the end of a launch empties or replaces the conversation.
Settled(c) == /\ c \in list /\ messages[c] # {}
              /\ \A s \in sends : ~(s.stage = "launch" /\ s.of = c)

\* A question that is shown has its reply, or a place for it that is looked after.
Answered(c, k) ==
  Question(c, k) \in messages[c]
    => \/ \E role \in {"answer", "error"} : Reply(c, k, role) \in messages[c]
       \/ /\ Reply(c, k, "waiting") \in messages[c]
          /\ \E s \in Askers : s.of = c /\ s.turn = k

Follows(c) ==
  /\ \A k \in Turns \ hasty : Bound(c, k) => Settled(c)
  /\ \A k \in (0 .. MaxTurns) \ hasty : Answered(c, k)

\* The turns there were before this session.
Olden(c, texts) == Question(c, 0) \in texts => Reply(c, 0, "answer") \in texts

\* One call makes a conversation.
OneMaker == \A s, t \in Creators : s.of = t.of /\ s.of # None => s = t

\* One call makes a conversation; a deletion that has been served is remembered;
\* the server has an answer to what was asked before this session; and a question
\* that was not asked too early is in a conversation that nothing will replace.
Answering ==
  /\ OneMaker
  /\ \A r \in deletes : r.served => r.of \in gone
  /\ \A c \in Conversations : Olden(c, kept[c])
  /\ \A r \in loads : Olden(r.of, r.found)
  /\ \A c \in Followed : Follows(c)

\* The messages of different turns and roles differ.
LEMMA Apart ==
  \A c, d, j, k :
    /\ Question(c, j) = Question(d, k) => j = k
    /\ \A role \in {"waiting", "answer", "error"} : Question(c, j) # Reply(d, k, role)
    /\ \A role, other : Reply(c, j, role) = Reply(d, k, other) => j = k /\ role = other
BY DEF Question, Reply

\* A deletion and a question asked too early are not taken back.
LEMMA FewerFollowed ==
  ASSUME Shape, [Next]_vars
  PROVE  gone \subseteq gone' /\ hasty \subseteq hasty' /\ Followed' \subseteq Followed
<1>1. gone \subseteq gone' /\ hasty \subseteq hasty'
  <2>1. CASE UNCHANGED vars
    BY <2>1 DEF vars, history
  <2>2. CASE UserActs
    BY <2>2 DEF UserActs, OpenChat, LeaveChat, Send, SendNew, Refresh, Delete, history, Hasty
  <2>3. CASE NavigationCommits
    BY <2>3 DEF NavigationCommits, Hasty
  <2>4. CASE Answers
    BY <2>4 DEF Answers, ServerCreates, Created, Launched, CreateFails, ServerTakesQuestion,
       TurnEnds, TurnFails, ServerLists, ListArrives, ServerLoads, ConversationLoaded,
       ConversationMissing, LoadFails, ServerDeletes, Deleted, DeleteFails, history
  <2> QED
    BY <2>1, <2>2, <2>3, <2>4 DEF Next
<1> QED
  BY <1>1 DEF Followed, Twins

\* What the server keeps of a conversation changes by a question or an answer of
\* one that is being asked, or is deleted.
LEMMA KeptChanges ==
  ASSUME Shape, [Next]_vars
  PROVE  \A c \in Conversations :
           \/ kept'[c] \in {kept[c], {}}
           \/ \E s \in Askers : s.of = c
                /\ \/ kept'[c] = kept[c] \cup {Question(c, s.turn)}
                   \/ kept'[c] = kept[c] \cup {Reply(c, s.turn, "answer")}
<1> SUFFICES ASSUME NEW c \in Conversations
             PROVE  \/ kept'[c] \in {kept[c], {}}
                    \/ \E s \in Askers : s.of = c
                         /\ \/ kept'[c] = kept[c] \cup {Question(c, s.turn)}
                            \/ kept'[c] = kept[c] \cup {Reply(c, s.turn, "answer")}
  OBVIOUS
<1> DEFINE Goal == \/ kept'[c] \in {kept[c], {}}
                   \/ \E s \in Askers : s.of = c
                        /\ \/ kept'[c] = kept[c] \cup {Question(c, s.turn)}
                           \/ kept'[c] = kept[c] \cup {Reply(c, s.turn, "answer")}
<1>k. kept \in [Conversations -> SUBSET Message]
  BY DEF Shape, ServerOK
<1>s. ASSUME UNCHANGED kept PROVE Goal
  BY <1>s
<1>1. ASSUME UNCHANGED vars PROVE Goal
  BY <1>1, <1>s DEF vars, server
<1>2. ASSUME UserActs PROVE Goal
  BY <1>2, <1>s DEF UserActs, OpenChat, LeaveChat, Send, SendNew, Refresh, Delete, server
<1>3. ASSUME NavigationCommits PROVE Goal
  BY <1>3, <1>s DEF NavigationCommits, server
<1>4. ASSUME NEW s \in sends, ServerTakesQuestion(s) \/ TurnEnds(s) \/ TurnFails(s)
      PROVE  Goal
  <2>1. s \in Askers /\ s.of \in Conversations
    BY <1>4, SendFacts DEF ServerTakesQuestion, TurnEnds, TurnFails
  <2>2. PICK m \in {Question(s.of, s.turn), Reply(s.of, s.turn, "answer")} :
           kept' = kept \/ kept' = [kept EXCEPT ![s.of] = @ \cup {m}]
    BY <1>4 DEF ServerTakesQuestion, TurnEnds, TurnFails
  <2>3. \/ kept' = kept
        \/ kept'[s.of] = kept[s.of] \cup {m} /\ \A d \in Conversations \ {s.of} : kept'[d] = kept[d]
    BY <1>k, <2>1, <2>2
  <2> QED
    BY <2>1, <2>3
<1>5. ASSUME NEW s \in sends,
             ServerCreates(s) \/ Created(s) \/ Launched(s) \/ CreateFails(s)
      PROVE  Goal
  BY <1>5, <1>s DEF ServerCreates, Created, Launched, CreateFails, server
<1>6. ASSUME NEW r \in lists, ServerLists(r) \/ ListArrives(r) PROVE Goal
  BY <1>6, <1>s DEF ServerLists, ListArrives, server
<1>7. ASSUME NEW r \in loads,
             ServerLoads(r) \/ ConversationLoaded(r) \/ ConversationMissing(r) \/ LoadFails(r)
      PROVE  Goal
  BY <1>7, <1>s DEF ServerLoads, ConversationLoaded, ConversationMissing, LoadFails, server
<1>8. ASSUME NEW r \in deletes, ServerDeletes(r) \/ Deleted(r) \/ DeleteFails(r) PROVE Goal
  <2>1. CASE kept' = [kept EXCEPT ![r.of] = {}]
    BY <1>k, <2>1
  <2> QED
    BY <1>8, <1>s, <2>1 DEF ServerDeletes, Deleted, DeleteFails, server
<1> HIDE DEF Goal
<1>9. Goal
  BY <1>1, <1>2, <1>3, <1>4, <1>5, <1>6, <1>7, <1>8 DEF Next, Answers
<1> QED
  BY <1>9 DEF Goal

\* The server and the loads learn of a turn from a question that is being asked.
LEMMA NobodyElseAsks ==
  ASSUME Shape, [Next]_vars, NEW c \in Conversations, NEW k \in Turns
  PROVE  /\ Question(c, k) \in kept'[c] => Bound(c, k)
         /\ \A x \in loads' : x.of = c /\ Question(c, k) \in x.found => Bound(c, k)
<1>1. Question(c, k) \in kept'[c] => Bound(c, k)
  <2>1. ASSUME NEW s \in Askers, s.of = c, kept'[c] = kept[c] \cup {Question(c, s.turn)}
        PROVE  Question(c, k) \in kept'[c] => Bound(c, k)
    BY <2>1, Apart DEF Bound
  <2>2. ASSUME NEW s \in Askers, s.of = c, kept'[c] = kept[c] \cup {Reply(c, s.turn, "answer")}
        PROVE  Question(c, k) \in kept'[c] => Bound(c, k)
    <3>1. Question(c, k) # Reply(c, s.turn, "answer")
      BY DEF Question, Reply
    <3> QED
      BY <2>2, <3>1 DEF Bound
  <2>3. CASE kept'[c] \in {kept[c], {}}
    BY <2>3 DEF Bound
  <2> QED
    BY <2>1, <2>2, <2>3, KeptChanges
<1>2. \A x \in loads' : x.of = c /\ Question(c, k) \in x.found => Bound(c, k)
  BY LoadsStep DEF Bound
<1> QED
  BY <1>1, <1>2

\* The calls that ask in a conversation are the same, and no launch is new to it.
CallsKept(c) ==
  /\ \A x \in Askers' : x.of = c => \E s \in Askers : s.of = c /\ s.turn = x.turn
  /\ \A s \in Askers : s.of = c => \E x \in Askers' : x.of = c /\ x.turn = s.turn
  /\ \A x \in sends' : x.stage = "launch" /\ x.of = c /\ c \in list
                         => \E s \in sends : s.stage = "launch" /\ s.of = c

\* A conversation is followed on when its messages and calls stay as they are.
LEMMA Quiet ==
  ASSUME Shape, [Next]_vars, NEW c \in Conversations, Follows(c),
         messages'[c] = messages[c], Settled(c) => c \in list', CallsKept(c)
  PROVE  Follows(c)'
<1>h. hasty \subseteq hasty'
  BY FewerFollowed
<1>1. ASSUME NEW k \in Turns \ hasty', Bound(c, k)' PROVE Settled(c)'
  <2>1. Bound(c, k)
    <3>1. CASE \E x \in Askers' : x.of = c /\ x.turn = k
      BY <3>1 DEF CallsKept, Bound
    <3>2. CASE Question(c, k) \in messages'[c]
      BY <3>2 DEF Bound
    <3>3. Question(c, k)' = Question(c, k)
      BY DEF Question
    <3> QED
      BY <1>1, <3>1, <3>2, <3>3, NobodyElseAsks DEF Bound
  <2>2. Settled(c)
    BY <1>h, <2>1 DEF Follows
  <2> QED
    BY <2>2 DEF Settled, CallsKept
<1>2. ASSUME NEW k \in (0 .. MaxTurns) \ hasty' PROVE Answered(c, k)'
  <2>1. Answered(c, k)
    BY <1>h DEF Follows
  <2>2. Question(c, k)' = Question(c, k) /\ \A role : Reply(c, k, role)' = Reply(c, k, role)
    BY DEF Question, Reply
  <2> QED
    BY <2>1, <2>2 DEF Answered, CallsKept
<1> QED
  BY <1>1, <1>2 DEF Follows

\* A call that is the same but for the page it was made on.
Same(x, s) == x.of = s.of /\ x.turn = s.turn /\ x.stage = s.stage

\* Leaving a page leaves its calls as they are otherwise.
LEMMA Carried ==
  ASSUME Shape, NEW S \in {sends, Left(sends)}
  PROVE  /\ \A x \in S : \E s \in sends : Same(x, s)
         /\ \A s \in sends : \E x \in S : Same(x, s)
<1> DEFINE left(s) == [s EXCEPT !.here = FALSE]
<1>1. \A s \in sends : Same(left(s), s)
  <2>1. \A s \in sends : s \in SendType
    BY DEF Shape, SendsOK
  <2> QED
    BY <2>1 DEF SendType, Same
<1>2. Left(sends) = {left(s) : s \in sends}
  BY DEF Left
<1>3. \A s : Same(s, s)
  BY DEF Same
<1> HIDE DEF left
<1> QED
  BY <1>1, <1>2, <1>3

\* A question asked in time finds its place; one asked too early is set aside.
LEMMA AskingFollows ==
  ASSUME Shape, [Next]_vars, NEW e \in Conversations, NEW k \in Turns,
         NEW S \in {sends, Left(sends)}, sends' = S \cup {Ask(k, e, "asked")},
         hasty' = Hasty(e, k), list' = list,
         messages' = IF e \in list THEN [messages EXCEPT ![e] = @ \cup Asked(e, k)]
                     ELSE messages,
         NEW c \in Conversations, Follows(c)
  PROVE  Follows(c)'
<1> DEFINE a == Ask(k, e, "asked")
<1>a. a.of = e /\ a.turn = k /\ a.stage = "asked"
  BY DEF Ask
<1>b. /\ sends' = S \cup {a}
      /\ \A x \in S : \E s \in sends : Same(x, s)
      /\ \A s \in sends : \E x \in S : Same(x, s)
  BY Carried
<1> HIDE DEF a
<1>c. /\ \A x \in sends' : x = a \/ \E s \in sends : Same(x, s)
      /\ \A s \in sends : \E x \in sends' : Same(x, s)
      /\ a \in sends'
  BY <1>b
<1>d. /\ \A x \in Askers' : x = a \/ \E s \in Askers : s.of = x.of /\ s.turn = x.turn
      /\ \A s \in Askers : \E x \in Askers' : s.of = x.of /\ s.turn = x.turn
      /\ \A x \in sends' : x.stage = "launch" =>
           \E s \in sends : s.of = x.of /\ s.stage = "launch"
      /\ a \in Askers'
  BY <1>a, <1>c DEF Same, Askers
<1>m. messages \in [Conversations -> SUBSET Message]
  BY DEF Shape, StoreOK, TextsOK
<1>1. CASE c # e
  <2>1. messages'[c] = messages[c]
    BY <1>m, <1>1
  <2>2. CallsKept(c)
    BY <1>1, <1>a, <1>d DEF CallsKept
  <2> QED
    BY <2>1, <2>2, Quiet DEF Settled
<1>2. CASE c = e /\ Settled(c)
  <2>1. messages'[c] = messages[c] \cup Asked(c, k)
    BY <1>m, <1>2 DEF Settled
  <2>2. Settled(c)'
    BY <1>2, <1>d, <2>1 DEF Settled
  <2>3. ASSUME NEW j \in (0 .. MaxTurns) \ hasty' PROVE Answered(c, j)'
    <3>0. /\ Question(c, j)' = Question(c, j)
          /\ \A role : Reply(c, j, role)' = Reply(c, j, role)
      BY DEF Question, Reply
    <3>1. CASE j = k
      <4>1. Reply(c, j, "waiting") \in messages'[c]
        BY <2>1, <3>1 DEF Asked
      <4> QED
        BY <1>2, <1>a, <1>d, <3>0, <3>1, <4>1 DEF Answered
    <3>2. CASE j # k
      <4>1. Question(c, j) \in messages'[c] => Question(c, j) \in messages[c]
        BY <2>1, <3>2, Apart DEF Asked
      <4>2. Answered(c, j)
        BY FewerFollowed DEF Follows
      <4> QED
        BY <1>d, <2>1, <3>0, <4>1, <4>2 DEF Answered
    <3> QED
      BY <3>1, <3>2
  <2> QED
    BY <2>2, <2>3 DEF Follows
<1>3. CASE c = e /\ ~Settled(c)
  <2>1. \A j \in Turns \ hasty : ~Bound(c, j)
    BY <1>3 DEF Follows
  <2>2. CASE c \in list /\ \A s \in sends : ~(s.stage = "launch" /\ s.of = c)
    <3>1. messages[c] = {}
      BY <1>3, <2>2 DEF Settled
    <3>2. messages'[c] = Asked(c, k)
      BY <1>m, <1>3, <2>2, <3>1
    <3>3. Settled(c)'
      BY <1>d, <2>2, <3>2 DEF Settled, Asked
    <3>4. ASSUME NEW j \in (0 .. MaxTurns) \ hasty' PROVE Answered(c, j)'
      <4>1. ASSUME Question(c, j) \in messages'[c]
            PROVE  j = k /\ Reply(c, j, "waiting") \in messages'[c]
        BY <3>2, <4>1, Apart DEF Asked
      <4>2. /\ Question(c, j)' = Question(c, j)
            /\ \A role : Reply(c, j, role)' = Reply(c, j, role)
        BY DEF Question, Reply
      <4> QED
        BY <1>3, <1>a, <1>d, <4>1, <4>2 DEF Answered
    <3> QED
      BY <3>3, <3>4 DEF Follows
  <2>3. CASE ~(c \in list /\ \A s \in sends : ~(s.stage = "launch" /\ s.of = c))
    <3>1. hasty' = hasty \cup {k}
      BY <1>3, <2>3 DEF Hasty
    <3>2. ASSUME NEW j \in (0 .. MaxTurns) \ hasty', Question(c, j) \in messages'[c]
          PROVE  Question(c, j) \in messages[c]
      <4>1. messages'[c] \subseteq messages[c] \cup Asked(c, k)
        BY <1>m, <1>3
      <4>2. j # k
        BY <3>1, <3>2
      <4> QED
        BY <3>2, <4>1, <4>2, Apart DEF Asked
    <3>3. ASSUME NEW j \in Turns \ hasty' PROVE ~Bound(c, j)'
      <4>1. ~Bound(c, j) /\ j # k /\ j \in 0 .. MaxTurns
        BY <2>1, <3>1, MessageTypes
      <4>2. ~(\E x \in Askers' : x.of = c /\ x.turn = j)
        BY <1>3, <1>a, <1>d, <4>1 DEF Bound
      <4>3. Question(c, j) \notin messages'[c]
        BY <3>2, <4>1 DEF Bound
      <4>4. Question(c, j)' = Question(c, j)
        BY DEF Question
      <4> QED
        BY <4>1, <4>2, <4>3, <4>4, NobodyElseAsks DEF Bound
    <3>4. ASSUME NEW j \in (0 .. MaxTurns) \ hasty' PROVE Answered(c, j)'
      <4>1. Answered(c, j)
        BY FewerFollowed DEF Follows
      <4>2. messages[c] \subseteq messages'[c]
        BY <1>m, <1>3
      <4>3. /\ Question(c, j)' = Question(c, j)
            /\ \A role : Reply(c, j, role)' = Reply(c, j, role)
        BY DEF Question, Reply
      <4> QED
        BY <1>d, <3>2, <4>1, <4>2, <4>3 DEF Answered
    <3> QED
      BY <3>3, <3>4 DEF Follows
  <2> QED
    BY <2>2, <2>3
<1> QED
  BY <1>1, <1>2, <1>3

\* Calls that stay as they are ask what they asked.
LEMMA SameCalls ==
  \A c : UNCHANGED sends => CallsKept(c)
BY DEF CallsKept, Askers

\* A user's act loses no answer.
LEMMA UserFollows ==
  ASSUME Shape, [Next]_vars, UserActs, NEW c \in Conversations, Follows(c)
  PROVE  Follows(c)'
<1>s. ASSUME UNCHANGED <<list, messages, sends>> PROVE Follows(c)'
  BY <1>s, SameCalls, Quiet DEF Settled
<1>1. CASE Send
  <2>1. active \in Conversations /\ turns' \in Turns
    BY <1>1, ChatAssumption DEF Send, Shape, StoreOK, Slot, CountsOK, Turns
  <2> QED
    BY <1>1, <2>1, AskingFollows DEF Send
<1>2. CASE SendNew
  <2>1. PICK st \in {"create", "launch"} : sends' = sends \cup {Ask(turns', None, st)}
    BY <1>2 DEF SendNew
  <2> DEFINE a == Ask(turns', None, st)
  <2>2. a.of = None /\ a.stage = st /\ sends' = sends \cup {a}
    BY <2>1 DEF Ask
  <2> HIDE DEF a
  <2>3. CallsKept(c)
    BY <2>2, ChatAssumption DEF CallsKept, Askers
  <2> QED
    BY <1>2, <2>3, Quiet DEF SendNew, store, Settled
<1>3. CASE UserActs /\ ~Send /\ ~SendNew
  BY <1>3, <1>s DEF UserActs, OpenChat, LeaveChat, Refresh, Delete, store, calls
<1> QED
  BY <1>1, <1>2, <1>3

\* Nor does a navigation.
LEMMA NavigationFollows ==
  ASSUME Shape, [Next]_vars, NavigationCommits, NEW c \in Conversations, Follows(c)
  PROVE  Follows(c)'
<1>1. CASE messages' = messages /\ list' = list /\ sends' \in {sends, Left(sends)}
  <2>1. /\ \A x \in sends' : \E s \in sends : Same(x, s)
        /\ \A s \in sends : \E x \in sends' : Same(x, s)
    BY <1>1, Carried
  <2>2. CallsKept(c)
    BY <2>1 DEF CallsKept, Askers, Same
  <2> QED
    BY <1>1, <2>2, Quiet DEF Settled
<1>2. CASE /\ going \in Conversations /\ pending # None /\ list' = list
           /\ messages' = IF going \in list
                     THEN [messages EXCEPT ![going] = @ \cup Asked(going, pending.turn)]
                     ELSE messages
           /\ sends' = Left(sends) \cup {Ask(pending.turn, going, "asked")}
           /\ hasty' = Hasty(going, pending.turn)
  <2>1. pending.turn \in Turns
    BY <1>2 DEF Shape, StoreOK
  <2> QED
    BY <1>2, <2>1, AskingFollows
<1> QED
  BY <1>1, <1>2 DEF NavigationCommits

\* A conversation that has been made is about to be asked or visited.
LEMMA MadeFollows ==
  ASSUME Shape, OneMaker, [Next]_vars, NEW s \in sends, Created(s) \/ Launched(s),
         NEW c \in Conversations, Follows(c)
  PROVE  Follows(c)'
<1>0. /\ s.of \in born /\ s.of \in Conversations /\ s.turn \in Turns /\ born' = born
      /\ s \in Creators /\ s.of # None /\ s \in SendType
  BY SendFacts DEF Created, Launched, history, Shape, ServerOK
<1> DEFINE x == Ask(s.turn, s.of, "asked")
           y == [s EXCEPT !.stage = "asked"]
           Asks == /\ \E next \in Slot : AddConversation(s.of, Asked(s.of, s.turn), next)
                   /\ \E z \in {x, y} : sends' = (sends \ {s}) \cup {z}
           Waits == /\ \E next \in Slot : AddConversation(s.of, {}, next)
                    /\ s.stage = "launch"
                    /\ \/ sends' = sends \ {s}
                       \/ sends' = (sends \ {s}) \cup {Ask(s.turn, None, "create")}
<1>a. /\ x.of = s.of /\ x.turn = s.turn /\ x.stage = "asked"
      /\ y.of = s.of /\ y.turn = s.turn /\ y.stage = "asked"
  BY <1>0 DEF SendType, Ask
<1> HIDE DEF x, y
<1>b. Asks \/ Waits
  <2>1. CASE Created(s)
    <3>1. \E next \in Slot : AddConversation(s.of, Asked(s.of, s.turn), next)
      BY <1>0, <2>1 DEF Created, EffectRuns, Slot
    <3>2. sends' = (sends \ {s}) \cup {y}
      BY <2>1 DEF Created, y
    <3> QED
      BY <3>1, <3>2
  <2>2. CASE Launched(s)
    <3>1. s.of \in Slot
      BY <1>0 DEF Slot
    <3> QED
      BY <2>2, <3>1, LaunchedFacts DEF x
  <2> QED
    BY <2>1, <2>2
<1>1. CASE Asks
  <2>1. PICK next \in Slot : AddConversation(s.of, Asked(s.of, s.turn), next)
    BY <1>1
  <2>2. /\ list' = list \cup {s.of} /\ messages'[s.of] = Asked(s.of, s.turn)
        /\ \A d \in Conversations \ {s.of} : messages'[d] = messages[d]
    BY <1>0, <2>1, AddedTexts, MessageTypes
  <2>4. PICK z \in {x, y} : sends' = (sends \ {s}) \cup {z}
    BY <1>1
  <2>3. z.of = s.of /\ z.turn = s.turn /\ z.stage = "asked"
    BY <1>a
  <2>5. CASE c # s.of
    <3>1. CallsKept(c)
      BY <2>3, <2>4, <2>5 DEF CallsKept, Askers
    <3> QED
      BY <2>2, <2>5, <3>1, Quiet DEF Settled
  <2>6. CASE c = s.of
    <3>1. Settled(c)'
      <4>1. ASSUME NEW t \in sends', t.stage = "launch", t.of = c PROVE FALSE
        <5>1. t \in sends /\ t # s
          BY <2>3, <2>4, <4>1
        <5>2. t \in Creators
          BY <4>1, <5>1 DEF Creators
        <5> QED
          BY <1>0, <2>6, <4>1, <5>1, <5>2 DEF OneMaker
      <4> QED
        BY <2>2, <2>6, <4>1 DEF Settled, Asked
    <3>2. ASSUME NEW j \in (0 .. MaxTurns) \ hasty' PROVE Answered(c, j)'
      <4>1. ASSUME Question(c, j) \in messages'[c]
            PROVE  j = s.turn /\ Reply(c, j, "waiting") \in messages'[c]
        BY <2>2, <2>6, <4>1, Apart DEF Asked
      <4>2. /\ Question(c, j)' = Question(c, j)
            /\ \A role : Reply(c, j, role)' = Reply(c, j, role)
        BY DEF Question, Reply
      <4>3. z \in Askers'
        BY <2>3, <2>4 DEF Askers
      <4> QED
        BY <2>3, <2>6, <4>1, <4>2, <4>3 DEF Answered
    <3> QED
      BY <3>1, <3>2 DEF Follows
  <2> QED
    BY <2>5, <2>6
<1>2. CASE Waits
  <2>1. /\ list' = list \cup {s.of} /\ messages'[s.of] = {}
        /\ \A d \in Conversations \ {s.of} : messages'[d] = messages[d]
    BY <1>0, <1>2, AddedTexts
  <2> DEFINE n == Ask(s.turn, None, "create")
  <2>n. n.of = None /\ n.stage = "create"
    BY DEF Ask
  <2>2. s.stage = "launch" /\ (sends' = sends \ {s} \/ sends' = (sends \ {s}) \cup {n})
    BY <1>2
  <2> HIDE DEF n
  <2>3. CASE c # s.of
    <3>1. CallsKept(c)
      BY <2>2, <2>3, <2>n, ChatAssumption DEF CallsKept, Askers
    <3> QED
      BY <2>1, <2>3, <3>1, Quiet DEF Settled
  <2>4. CASE c = s.of
    <3>1. ASSUME NEW j \in Turns \ hasty' PROVE ~Bound(c, j)'
      <4>1. ~Bound(c, j)
        BY <2>2, <2>4, FewerFollowed DEF Follows, Settled
      <4>2. ~(\E t \in Askers' : t.of = c /\ t.turn = j)
        BY <2>2, <2>n, <4>1 DEF Bound, Askers
      <4>3. Question(c, j)' = Question(c, j)
        BY DEF Question
      <4> QED
        BY <2>1, <2>4, <4>1, <4>2, <4>3, NobodyElseAsks DEF Bound
    <3>2. \A j \in (0 .. MaxTurns) \ hasty' : Answered(c, j)'
      BY <2>1, <2>4 DEF Answered
    <3> QED
      BY <3>1, <3>2 DEF Follows
  <2> QED
    BY <2>3, <2>4
<1> QED
  BY <1>b, <1>1, <1>2

\* An answer or an error finds the place that was kept for it.
LEMMA ReplyFollows ==
  ASSUME Shape, [Next]_vars, NEW s \in sends, TurnEnds(s) \/ TurnFails(s),
         NEW c \in Conversations, Follows(c)
  PROVE  Follows(c)'
<1>0. s \in Askers /\ UNCHANGED <<list, born>>
  BY SendFacts DEF TurnEnds, TurnFails, history
<1>1. PICK role \in {"answer", "error"} : Replied(s, role)
  BY DEF TurnEnds, TurnFails
<1>2. /\ s.of \in Conversations
      /\ sends' = sends \ {s}
      /\ messages'[s.of] =
           IF Reply(s.of, s.turn, "waiting") \in messages[s.of]
           THEN (messages[s.of] \ {Reply(s.of, s.turn, "waiting")})
                  \cup {Reply(s.of, s.turn, role)}
           ELSE messages[s.of]
      /\ \A d \in Conversations \ {s.of} : messages'[d] = messages[d]
  BY <1>0, <1>1, RepliedTexts
<1>3. CASE c # s.of
  <2>1. CallsKept(c)
    BY <1>2, <1>3 DEF CallsKept, Askers
  <2> QED
    BY <1>0, <1>2, <1>3, <2>1, Quiet DEF Settled
<1>4. CASE c = s.of
  <2>1. ASSUME NEW j \in 0 .. MaxTurns, Question(c, j) \in messages'[c]
        PROVE  Question(c, j) \in messages[c]
    <3>1. Question(c, j) # Reply(c, s.turn, role)
      BY DEF Question, Reply
    <3> QED
      BY <1>2, <1>4, <2>1, <3>1
  <2>2. ASSUME NEW j \in Turns \ hasty', Bound(c, j)' PROVE Settled(c)'
    <3>1. Question(c, j)' = Question(c, j) /\ j \in 0 .. MaxTurns
      BY MessageTypes DEF Question
    <3>2. (\E t \in Askers' : t.of = c /\ t.turn = j) => Bound(c, j)
      BY <1>2 DEF Askers, Bound
    <3>3. Bound(c, j)
      BY <2>1, <2>2, <3>1, <3>2, NobodyElseAsks DEF Bound
    <3>4. Settled(c)
      BY <3>3, FewerFollowed DEF Follows
    <3> QED
      BY <1>0, <1>2, <1>4, <3>4 DEF Settled
  <2>3. ASSUME NEW j \in (0 .. MaxTurns) \ hasty' PROVE Answered(c, j)'
    <3>1. /\ Question(c, j)' = Question(c, j)
          /\ \A other : Reply(c, j, other)' = Reply(c, j, other)
      BY DEF Question, Reply
    <3>2. Answered(c, j)
      BY FewerFollowed DEF Follows
    <3>3. ASSUME NEW other \in {"answer", "error"}, Reply(c, j, other) \in messages[c]
          PROVE  Reply(c, j, other) \in messages'[c]
      <4>1. Reply(c, j, other) # Reply(c, s.turn, "waiting")
        BY DEF Reply
      <4> QED
        BY <1>2, <1>4, <3>3, <4>1
    <3>4. ASSUME Reply(c, j, "waiting") \in messages[c], NEW t \in Askers, t.of = c, t.turn = j
          PROVE  \/ Reply(c, j, role) \in messages'[c]
                 \/ Reply(c, j, "waiting") \in messages'[c] /\ t \in Askers'
      <4>1. CASE j = s.turn
        BY <1>2, <1>4, <3>4, <4>1
      <4>2. CASE j # s.turn
        <5>1. Reply(c, j, "waiting") # Reply(c, s.turn, "waiting")
          BY <4>2 DEF Reply
        <5>2. t \in Askers'
          BY <1>2, <3>4, <4>2 DEF Askers
        <5> QED
          BY <1>2, <1>4, <3>4, <5>1, <5>2
      <4> QED
        BY <4>1, <4>2
    <3> QED
      BY <2>1, <3>1, <3>2, <3>3, <3>4 DEF Answered
  <2> QED
    BY <2>2, <2>3 DEF Follows
<1> QED
  BY <1>3, <1>4

\* What else the calls that make or ask a conversation do loses no answer.
LEMMA SendsFollows ==
  ASSUME Shape, OneMaker, [Next]_vars, NEW s \in sends,
         \/ ServerCreates(s) \/ Created(s) \/ Launched(s) \/ CreateFails(s)
         \/ ServerTakesQuestion(s) \/ TurnEnds(s) \/ TurnFails(s),
         NEW c \in Conversations, Follows(c)
  PROVE  Follows(c)'
<1>0. s \in SendType
  BY SendFacts
<1>1. CASE ServerCreates(s)
  <2>1. PICK d \in Conversations \ born : sends' = (sends \ {s}) \cup {[s EXCEPT !.of = d]}
    BY <1>1 DEF ServerCreates
  <2> DEFINE x == [s EXCEPT !.of = d]
  <2>2. x.of = d /\ x.stage = s.stage /\ sends' = (sends \ {s}) \cup {x}
    BY <1>0, <2>1 DEF SendType
  <2>3. s.stage \in {"create", "launch"} /\ d \notin list
    BY <1>1 DEF ServerCreates, Shape, StoreOK, TextsOK
  <2> HIDE DEF x
  <2>4. CallsKept(c)
    BY <2>2, <2>3 DEF CallsKept, Askers
  <2> QED
    BY <1>1, <2>4, Quiet DEF ServerCreates, store, Settled
<1>2. CASE CreateFails(s)
  <2>1. CallsKept(c)
    BY <1>2 DEF CreateFails, CallsKept, Askers
  <2> QED
    BY <1>2, <2>1, Quiet DEF CreateFails, store, Settled
<1>3. CASE ServerTakesQuestion(s)
  <2> DEFINE x == [s EXCEPT !.stage = "streaming"]
  <2>1. x.of = s.of /\ x.turn = s.turn /\ x.stage = "streaming"
    BY <1>0 DEF SendType
  <2>2. sends' = (sends \ {s}) \cup {x} /\ s.stage = "asked"
    BY <1>3 DEF ServerTakesQuestion
  <2> HIDE DEF x
  <2>3. CallsKept(c)
    <3>1. x \in Askers' /\ s \in Askers
      BY <2>1, <2>2 DEF Askers
    <3> QED
      BY <2>1, <2>2, <3>1 DEF CallsKept, Askers
  <2> QED
    BY <1>3, <2>3, Quiet DEF ServerTakesQuestion, store, Settled
<1> QED
  BY <1>1, <1>2, <1>3, MadeFollows, ReplyFollows

\* A list that arrives takes nothing from a conversation that has messages, and
\* brings none to one that is no other's twin.
LEMMA ListsFollow ==
  ASSUME Shape, [Next]_vars, NEW r \in lists, ServerLists(r) \/ ListArrives(r),
         NEW c \in Followed, Follows(c)
  PROVE  Follows(c)'
<1>0. c \in Conversations /\ \A d \in Conversations : ~Twins(c, d)
  BY DEF Followed
<1>1. sends' = sends
  BY DEF ServerLists, ListArrives
<1>2. CASE UNCHANGED <<list, messages>>
  BY <1>0, <1>1, <1>2, SameCalls, Quiet DEF Settled
<1>3. CASE SetConversations(r.found) /\ UNCHANGED born
  <2>1. r.found \in SUBSET born
    BY DEF Shape, ListsOK
  <2>2. /\ messages'[c] \in {{}, messages[c]}
        /\ c \in list /\ messages[c] # {} => c \in list' /\ messages'[c] = messages[c]
    BY <1>0, <1>3, <2>1, ListedTexts
  <2>3. c \notin list => messages[c] = {}
    BY <1>0 DEF Shape, StoreOK, TextsOK
  <2> QED
    BY <1>0, <1>1, <2>2, <2>3, SameCalls, Quiet DEF Settled
<1> QED
  BY <1>2, <1>3 DEF ServerLists, ListArrives, store, history

\* A load brings messages to a conversation that has none, and then no question in
\* it was asked in time.
LEMMA LoadsFollow ==
  ASSUME Shape, [Next]_vars, NEW r \in loads, Olden(r.of, r.found),
         ServerLoads(r) \/ ConversationLoaded(r) \/ ConversationMissing(r) \/ LoadFails(r),
         NEW c \in Conversations, Follows(c)
  PROVE  Follows(c)'
<1>0. /\ sends' = sends /\ born' = born /\ r.of \in Conversations
      /\ r.found \in SUBSET Message /\ (r.there => r.of \in born)
      /\ messages \in [Conversations -> SUBSET Message]
      /\ r.of \notin list => messages[r.of] = {}
  BY DEF ServerLoads, ConversationLoaded, ConversationMissing, LoadFails, history, Shape,
     StoreOK, TextsOK, LoadsOK, LoadType
<1>1. CASE UNCHANGED <<list, messages>>
  BY <1>0, <1>1, SameCalls, Quiet DEF Settled
<1>2. CASE Forget(r.of) /\ messages[r.of] = {}
  <2>1. /\ list' = list \ {r.of} /\ messages'[r.of] = {}
        /\ \A d \in Conversations \ {r.of} : messages'[d] = messages[d]
    BY <1>0, <1>2, ForgottenTexts
  <2>2. messages'[c] = messages[c] /\ (Settled(c) => c \in list')
    BY <1>2, <2>1 DEF Settled
  <2> QED
    BY <1>0, <2>2, SameCalls, Quiet
<1>3. CASE /\ messages[r.of] = {} /\ r.there
           /\ \/ r.of \in list /\ list' = list /\ messages' = [messages EXCEPT ![r.of] = r.found]
              \/ AddConversation(r.of, r.found, r.of)
  <2>1. /\ list \subseteq list' /\ messages'[r.of] = r.found
        /\ \A d \in Conversations \ {r.of} : messages'[d] = messages[d]
    <3>1. CASE list' = list /\ messages' = [messages EXCEPT ![r.of] = r.found]
      BY <1>0, <3>1
    <3>2. CASE AddConversation(r.of, r.found, r.of)
      BY <1>0, <1>3, <3>2, AddedTexts DEF Slot
    <3> QED
      BY <1>3, <3>1, <3>2
  <2>2. CASE c # r.of
    BY <1>0, <2>1, <2>2, SameCalls, Quiet DEF Settled
  <2>3. CASE c = r.of
    <3>1. \A j \in Turns \ hasty' : ~Bound(c, j)
      BY <1>3, <2>3, FewerFollowed DEF Follows, Settled
    <3>2. ASSUME NEW j \in Turns \ hasty' PROVE ~Bound(c, j)' /\ Question(c, j) \notin r.found
      <4>1. Question(c, j)' = Question(c, j) /\ ~Bound(c, j)
        BY <3>1 DEF Question
      <4>2. Question(c, j) \notin r.found
        BY <2>3, <4>1 DEF Bound
      <4>3. ~(\E t \in Askers' : t.of = c /\ t.turn = j)
        BY <1>0, <4>1 DEF Bound, Askers
      <4> QED
        BY <2>1, <2>3, <4>1, <4>2, <4>3, NobodyElseAsks DEF Bound
    <3>3. ASSUME NEW j \in (0 .. MaxTurns) \ hasty' PROVE Answered(c, j)'
      <4>1. j = 0 \/ j \in Turns \ hasty'
        BY ChatAssumption DEF Turns
      <4>2. /\ Question(c, j)' = Question(c, j)
            /\ \A role : Reply(c, j, role)' = Reply(c, j, role)
        BY DEF Question, Reply
      <4> QED
        BY <2>1, <2>3, <3>2, <4>1, <4>2 DEF Answered, Olden
    <3> QED
      BY <3>2, <3>3 DEF Follows
  <2> QED
    BY <2>2, <2>3
<1> QED
  BY <1>0, <1>1, <1>2, <1>3
  DEF ServerLoads, ConversationLoaded, ConversationMissing, LoadFails, store

\* A deletion that has been served empties a conversation that is not followed.
LEMMA DeletesFollow ==
  ASSUME Shape, [Next]_vars, NEW r \in deletes, r.served => r.of \in gone,
         ServerDeletes(r) \/ Deleted(r) \/ DeleteFails(r),
         NEW c \in Followed, Follows(c)
  PROVE  Follows(c)'
<1>0. c \in Conversations \ gone /\ sends' = sends /\ r.of \in Conversations
  BY DEF Followed, ServerDeletes, Deleted, DeleteFails, Shape, DeletesOK, DeleteType
<1>1. CASE UNCHANGED <<list, messages>>
  BY <1>0, <1>1, SameCalls, Quiet DEF Settled
<1>2. CASE Deleted(r)
  <2>1. Forget(r.of) /\ born' = born /\ r.of # c
    BY <1>0, <1>2 DEF Deleted, history
  <2>2. list' = list \ {r.of} /\ messages'[c] = messages[c]
    BY <1>0, <2>1, ForgottenTexts
  <2> QED
    BY <1>0, <2>1, <2>2, SameCalls, Quiet DEF Settled
<1> QED
  BY <1>1, <1>2 DEF ServerDeletes, DeleteFails, store

\* Nothing else empties or replaces a conversation that is followed.
LEMMA StepFollows ==
  ASSUME Shape, Answering, [Next]_vars PROVE \A c \in Followed' : Follows(c)'
<1> SUFFICES ASSUME NEW c \in Followed' PROVE Follows(c)'
  OBVIOUS
<1>0. c \in Followed /\ c \in Conversations /\ Follows(c) /\ OneMaker
  BY FewerFollowed DEF Answering, Followed
<1>1. CASE UNCHANGED vars
  BY <1>0, <1>1, SameCalls, Quiet DEF vars, store, calls, Settled
<1>2. CASE UserActs
  BY <1>0, <1>2, UserFollows
<1>3. CASE NavigationCommits
  BY <1>0, <1>3, NavigationFollows
<1>4. CASE Answers
  <2>1. /\ \A r \in deletes : r.served => r.of \in gone
        /\ \A r \in loads : Olden(r.of, r.found)
    BY DEF Answering
  <2> QED
    BY <1>0, <1>4, <2>1, SendsFollows, ListsFollow, LoadsFollow, DeletesFollow DEF Answers
<1> QED
  BY <1>1, <1>2, <1>3, <1>4 DEF Next

\* No second call makes a conversation.
LEMMA StepOneMaker ==
  ASSUME Shape, OneMaker, [Next]_vars PROVE OneMaker'
<1>t. \A s \in sends : s \in SendType
  BY DEF Shape, SendsOK
<1>s. ASSUME sends' \subseteq sends PROVE OneMaker'
  BY <1>s DEF OneMaker, Creators
<1>n. ASSUME NEW x, sends' = sends \cup {x}, x.of = None \/ x.stage = "asked"
      PROVE  OneMaker'
  BY <1>n DEF OneMaker, Creators
<1>g. ASSUME NEW s \in sends, NEW x, sends' = (sends \ {s}) \cup {x},
             \/ x.stage \in {"asked", "streaming"}
             \/ x.of \notin born \cup {None}
      PROVE  OneMaker'
  BY <1>g DEF OneMaker, Creators, Shape, SendsOK
<1>l. ASSUME NEW S \in SUBSET Left(sends),
             sends' \subseteq S \cup {t \in sends' : t.stage = "asked"}
      PROVE  OneMaker'
  <2> DEFINE left(s) == [s EXCEPT !.here = FALSE]
  <2>1. \A s \in sends : left(s).of = s.of /\ left(s).stage = s.stage
    BY <1>t DEF SendType
  <2>2. Left(sends) = {left(s) : s \in sends}
    BY DEF Left
  <2> HIDE DEF left
  <2>3. \A x \in Creators' : \E s \in Creators : x = left(s) /\ x.of = s.of
    BY <1>l, <2>1, <2>2 DEF Creators
  <2> QED
    BY <2>3 DEF OneMaker
<1>1. ASSUME UNCHANGED vars PROVE OneMaker'
  BY <1>1, <1>s DEF vars, calls
<1>2. ASSUME UserActs PROVE OneMaker'
  <2>1. CASE Send
    <3>1. PICK k, c : sends' = sends \cup {Ask(k, c, "asked")}
      BY <2>1 DEF Send
    <3> QED
      BY <1>n, <3>1 DEF Ask
  <2>2. CASE SendNew
    <3>1. PICK k, st : sends' = sends \cup {Ask(k, None, st)}
      BY <2>2 DEF SendNew
    <3> QED
      BY <1>n, <3>1 DEF Ask
  <2>3. CASE UserActs /\ ~Send /\ ~SendNew
    BY <1>s, <2>3 DEF UserActs, OpenChat, LeaveChat, Refresh, Delete, calls
  <2> QED
    BY <1>2, <2>1, <2>2, <2>3
<1>3. ASSUME NavigationCommits PROVE OneMaker'
  <2>1. CASE sends' = sends
    BY <1>s, <2>1
  <2>2. CASE sends' = Left(sends)
    BY <1>l, <2>2
  <2>3. CASE sends' = Left(sends) \cup {Ask(pending.turn, going, "asked")}
    <3>1. Ask(pending.turn, going, "asked").stage = "asked"
      BY DEF Ask
    <3> QED
      BY <1>l, <2>3, <3>1
  <2> QED
    BY <1>3, <2>1, <2>2, <2>3 DEF NavigationCommits
<1>4. ASSUME NEW s \in sends,
             \/ ServerCreates(s) \/ Created(s) \/ Launched(s) \/ CreateFails(s)
             \/ ServerTakesQuestion(s) \/ TurnEnds(s) \/ TurnFails(s)
      PROVE  OneMaker'
  <2>1. CASE CreateFails(s) \/ TurnEnds(s) \/ TurnFails(s)
    BY <1>s, <2>1 DEF CreateFails, TurnEnds, TurnFails, Replied
  <2>4. CASE Launched(s)
    <3>1. CASE sends' = (sends \ {s}) \cup {Ask(s.turn, None, "create")}
      <4>1. Ask(s.turn, None, "create").of = None
        BY DEF Ask
      <4> QED
        BY <3>1, <4>1 DEF OneMaker, Creators
    <3>2. CASE sends' = (sends \ {s}) \cup {Ask(s.turn, s.of, "asked")}
      <4>1. Ask(s.turn, s.of, "asked").stage = "asked"
        BY DEF Ask
      <4> QED
        BY <1>g, <3>2, <4>1
    <3> QED
      BY <1>s, <2>4, <3>1, <3>2, LaunchedFacts
  <2>2. CASE Created(s) \/ ServerTakesQuestion(s)
    <3>1. PICK st \in {"asked", "streaming"} : sends' = (sends \ {s}) \cup {[s EXCEPT !.stage = st]}
      BY <2>2 DEF Created, ServerTakesQuestion
    <3>2. [s EXCEPT !.stage = st].stage = st
      BY <1>t DEF SendType
    <3> QED
      BY <1>g, <3>1, <3>2
  <2>3. CASE ServerCreates(s)
    <3>1. PICK d \in Conversations \ born : sends' = (sends \ {s}) \cup {[s EXCEPT !.of = d]}
      BY <2>3 DEF ServerCreates
    <3>2. [s EXCEPT !.of = d].of = d /\ d # None
      BY <1>t, ChatAssumption DEF SendType
    <3> QED
      BY <1>g, <3>1, <3>2
  <2> QED
    BY <1>4, <2>1, <2>2, <2>3, <2>4
<1>5. ASSUME NEW r, \/ ServerLists(r) \/ ListArrives(r) \/ ServerLoads(r)
                    \/ ConversationLoaded(r) \/ ConversationMissing(r) \/ LoadFails(r)
                    \/ ServerDeletes(r) \/ Deleted(r) \/ DeleteFails(r)
      PROVE  OneMaker'
  BY <1>5, <1>s DEF ServerLists, ListArrives, ServerLoads, ConversationLoaded,
     ConversationMissing, LoadFails, ServerDeletes, Deleted, DeleteFails
<1> QED
  BY <1>1, <1>2, <1>3, <1>4, <1>5 DEF Next, Answers

\* A deletion that has been served is remembered.
LEMMA StepDeletes ==
  ASSUME Shape, \A r \in deletes : r.served => r.of \in gone, [Next]_vars
  PROVE  \A r \in deletes' : r.served => r.of \in gone'
<1> DEFINE Goal == \A r \in deletes' : r.served => r.of \in gone'
<1>s. ASSUME deletes' \subseteq deletes PROVE Goal
  BY <1>s, FewerFollowed
<1> HIDE DEF Goal
<1>1. ASSUME UNCHANGED vars PROVE Goal
  BY <1>1, <1>s DEF vars, calls
<1>2. ASSUME UserActs PROVE Goal
  <2>1. CASE Delete
    <3>1. PICK c \in list, leaves \in BOOLEAN :
            deletes' = deletes \cup {[of |-> c, leaves |-> leaves, served |-> FALSE]}
      BY <2>1 DEF Delete
    <3>2. ~[of |-> c, leaves |-> leaves, served |-> FALSE].served
      OBVIOUS
    <3> QED
      BY <3>1, <3>2, FewerFollowed DEF Goal
  <2> QED
    BY <1>2, <1>s, <2>1 DEF UserActs, OpenChat, LeaveChat, Send, SendNew, Refresh, calls
<1>3. ASSUME NavigationCommits PROVE Goal
  BY <1>3, <1>s DEF NavigationCommits
<1>4. ASSUME NEW s, \/ ServerCreates(s) \/ Created(s) \/ Launched(s) \/ CreateFails(s)
                    \/ ServerTakesQuestion(s) \/ TurnEnds(s) \/ TurnFails(s)
      PROVE  Goal
  BY <1>4, <1>s DEF ServerCreates, Created, Launched, CreateFails, ServerTakesQuestion,
     TurnEnds, TurnFails
<1>5. ASSUME NEW r, \/ ServerLists(r) \/ ListArrives(r) \/ ServerLoads(r)
                    \/ ConversationLoaded(r) \/ ConversationMissing(r) \/ LoadFails(r)
                    \/ Deleted(r) \/ DeleteFails(r)
      PROVE  Goal
  BY <1>5, <1>s DEF ServerLists, ListArrives, ServerLoads, ConversationLoaded,
     ConversationMissing, LoadFails, Deleted, DeleteFails
<1>6. ASSUME NEW r \in deletes, ServerDeletes(r) PROVE Goal
  <2>1. [r EXCEPT !.served = TRUE].of = r.of
    BY DEF Shape, DeletesOK, DeleteType
  <2> QED
    BY <1>6, <2>1 DEF ServerDeletes, Goal
<1> QED
  BY <1>1, <1>2, <1>3, <1>4, <1>5, <1>6 DEF Next, Answers, Goal

\* The answers of before this session stay with their questions.
LEMMA StepOlden ==
  ASSUME Shape, [Next]_vars,
         \A c \in Conversations : Olden(c, kept[c]), \A r \in loads : Olden(r.of, r.found)
  PROVE  /\ \A c \in Conversations : Olden(c, kept'[c])
         /\ \A r \in loads' : Olden(r.of, r.found)
<1>1. ASSUME NEW c \in Conversations PROVE Olden(c, kept'[c])
  <2>1. CASE kept'[c] \in {kept[c], {}}
    BY <2>1 DEF Olden
  <2>2. ASSUME NEW s \in Askers,
               NEW m \in {Question(c, s.turn), Reply(c, s.turn, "answer")},
               kept'[c] = kept[c] \cup {m}
        PROVE  Olden(c, kept'[c])
    <3>1. s.turn \in Turns
      BY SendFacts DEF Askers
    <3>2. Question(c, 0) # m
      BY <3>1, ChatAssumption DEF Question, Reply, Turns
    <3> QED
      BY <2>2, <3>2 DEF Olden
  <2> QED
    BY <2>1, <2>2, KeptChanges
<1>2. ASSUME NEW x \in loads' PROVE Olden(x.of, x.found)
  <2>1. \A r \in loads : r.of \in Conversations
    BY DEF Shape, LoadsOK, LoadType
  <2>2. CASE x.found = {}
    BY <2>2 DEF Olden
  <2> QED
    BY <2>1, <2>2, LoadsStep
<1> QED
  BY <1>1, <1>2

\* Every step keeps to it.
LEMMA StepAnswering == Shape /\ Answering /\ [Next]_vars => Answering'
<1> SUFFICES ASSUME Shape, Answering, [Next]_vars PROVE Answering'
  OBVIOUS
<1>1. \A c \in Followed' : Follows(c)'
  BY StepFollows
<1>2. OneMaker'
  BY StepOneMaker DEF Answering
<1>3. \A r \in deletes' : r.served => r.of \in gone'
  BY StepDeletes DEF Answering
<1>4. /\ \A c \in Conversations : Olden(c, kept'[c])
      /\ \A r \in loads' : Olden(r.of, r.found)
  BY StepOlden DEF Answering
<1>5. /\ \A c \in Conversations : Olden(c, kept[c])' <=> Olden(c, kept'[c])
      /\ \A r : Olden(r.of, r.found)' <=> Olden(r.of, r.found)
  BY DEF Olden, Question, Reply
<1> QED
  BY <1>1, <1>2, <1>3, <1>4, <1>5 DEF Answering

\* Nothing has been asked when the session starts.
LEMMA InitAnswering == Init => Answering
<1> SUFFICES ASSUME Init PROVE Answering
  OBVIOUS
<1>1. \A c \in Conversations : Olden(c, kept[c])
  BY DEF Init, Olden
<1>2. ASSUME NEW c \in Conversations, NEW k \in Turns PROVE ~Bound(c, k)
  <2>1. Question(c, k) \notin {Question(c, 0), Reply(c, 0, "answer")}
    BY ChatAssumption DEF Question, Reply, Turns
  <2> QED
    BY <2>1 DEF Init, Bound, Askers
<1>3. \A c \in Conversations, k \in 0 .. MaxTurns : Answered(c, k)
  BY DEF Init, Answered
<1> QED
  BY <1>1, <1>2, <1>3 DEF Init, Answering, OneMaker, Creators, Followed, Follows

\* Of the messages of a text one is shown: the earliest.
LEMMA OneOfEach ==
  ASSUME Shape, NEW c \in Conversations, NEW m \in messages[c], m.role # "waiting"
  PROVE  \E n \in Shown(c) : Alike(n, m)
<1> DEFINE Like == {n \in messages[c] : Alike(n, m)}
           T == {n.turn : n \in Like}
           R == OpToRel(<, Nat)
<1>1. messages[c] \subseteq Message /\ m \in Message
  BY DEF Shape, StoreOK, TextsOK
<1>2. \A n \in Message : n.turn \in Nat
  BY ChatAssumption DEF Message
<1>3. T \subseteq Nat /\ m \in Like
  BY <1>1, <1>2 DEF Alike
<1>4. IsWellFoundedOn(R, Nat)
  BY NatLessThanWellFounded
<1>5. PICK k \in T : \A j \in T : <<j, k>> \notin R
  <2> HIDE DEF R, T
  <2>1. T # {}
    BY <1>3 DEF T
  <2> QED
    BY <1>3, <1>4, <2>1, WFMin
<1>6. \A j \in T : ~(j < k)
  BY <1>3, <1>5 DEF OpToRel
<1>7. PICK n \in Like : n.turn = k
  BY <1>5
<1>8. ASSUME NEW o \in messages[c], o.turn < n.turn PROVE ~Alike(n, o)
  <2>1. o \notin Like
    BY <1>6, <1>7, <1>8
  <2> QED
    BY <1>7, <2>1 DEF Alike
<1> QED
  BY <1>7, <1>8 DEF Shown

\* An answer the server has given is shown or on its way, wherever the user has been
\* meanwhile: its question was asked in a conversation that nothing replaces, and
\* keeps the place of the answer until that has come; what is not shown of it has the
\* text of an earlier message, which is.
THEOREM NoAnswerIsLost == Spec => []AnswersFindTheirQuestion
<1>1. Shape /\ Answering => AnswersFindTheirQuestion
  <2> SUFFICES ASSUME Shape, Answering, NEW c \in list \ gone, NEW m \in kept[c],
                      m.turn \notin hasty, Question(c, m.turn) \in messages[c],
                      \A d \in Conversations : ~Twins(c, d)
               PROVE  \/ \E role \in {"answer", "error"} :
                           /\ Reply(c, m.turn, role) \in messages[c]
                           /\ \E n \in Shown(c) : Alike(n, Reply(c, m.turn, role))
                      \/ \E s \in sends : s.turn = m.turn
    BY DEF AnswersFindTheirQuestion
  <2>1. c \in Followed /\ m \in Message
    BY DEF Followed, Shape, StoreOK, TextsOK, ServerOK
  <2>2. m.turn \in (0 .. MaxTurns) \ hasty
    BY <2>1 DEF Message
  <2>3. \/ \E role \in {"answer", "error"} : Reply(c, m.turn, role) \in messages[c]
        \/ \E s \in sends : s.turn = m.turn
    BY <2>1, <2>2 DEF Answering, Follows, Answered, Askers
  <2>4. \A role \in {"answer", "error"} : Reply(c, m.turn, role).role # "waiting"
    BY DEF Reply
  <2> QED
    BY <2>1, <2>3, <2>4, OneOfEach DEF Followed
<1> QED
  BY <1>1, InitAnswering, StepAnswering, ShapeHolds, PTL DEF Spec
=============================================================================
