---------------------------- MODULE MCChatClient ----------------------------
(***************************************************************************)
(* Three conversations: one there from the start, and two that can be      *)
(* asked in this session, one of which has the first one's title.  The     *)
(* second question of the session repeats the one of before, and every     *)
(* answer is the same.                                                     *)
(***************************************************************************)
EXTENDS ChatClient

CONSTANTS c1, c2, c3, tea, code, hello, again

MCConversations == {c1, c2, c3}
MCTitles == {tea, code}
MCTitle == [c \in MCConversations |-> IF c = c2 THEN code ELSE tea]
MCEarly == {c1}
MCTexts == {hello, again}
MCText == [x \in {"question", "answer", "error"} \X (0 .. MaxTurns) |->
             IF x[1] = "answer" \/ x[2] = 1 THEN hello ELSE again]
=============================================================================
