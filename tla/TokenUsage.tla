----------------------------- MODULE TokenUsage -----------------------------
(***************************************************************************)
(* The token counter of one user (token_usage.py) and the requests that    *)
(* check it and charge to it: chat turns (multi_agent_stream.py), project  *)
(* generations (gateway.py), insights about an upload (library_insights.py)*)
(* and the subscription page (misc.py).                                    *)
(*                                                                         *)
(* A request's session keeps the row it has loaded until it commits, and   *)
(* writes the columns it has given another value.  `held` is that row.  A  *)
(* step is what a request does between two suspensions: nothing else runs  *)
(* on the event loop in it.  Only the subscription page runs in a thread;  *)
(* its one write may come anywhere, and writing between the load and the   *)
(* write of another request amounts to writing before or after it.         *)
(*                                                                         *)
(* Months are numbered; tokens_period_start is the month it begins.        *)
(***************************************************************************)
EXTENDS Naturals, FiniteSets

CONSTANTS
  Requests,    \* the requests of the user
  Questions,   \* what the text a request sends can count
  Answers,     \* what an answer can count
  Limit,       \* the plan's monthly limit; 0 is no limit
  LastMonth,   \* bound: the last month that begins
  None

ASSUME UsageAssumption ==
  /\ IsFiniteSet(Requests)
  /\ Questions \subseteq Nat \ {0} /\ Questions # {}
  /\ Answers \subseteq Nat /\ Answers # {}
  /\ Limit \in Nat /\ LastMonth \in Nat \ {0}
  /\ None \notin [used : Nat, period : Nat]

VARIABLES
  month,       \* the current month
  row,         \* tokens_used and tokens_period_start of the user's row
  req,         \* the requests
  closing,     \* the session of a request is closed before its answer streams
  billed,      \* history: what was charged in each month
  outdated,    \* history: a session wrote the row without its last change
  unchecked,   \* history: insights, which check nothing, have been charged
  peak         \* history: how many turns have been under way together

vars == <<month, row, req, closing, billed, outdated, unchecked, peak>>

Months == 0 .. LastMonth
Row == [used : Nat, period : Months]
Turns == {"chat", "generate"}          \* what is checked before it starts
Kinds == Turns \cup {"insights", "subscription"}
Places == {"none", "admitted", "working", "charged", "refused", "broken", "over"}

Absent == [kind |-> None, at |-> "none", held |-> None, ask |-> 0]

Init ==
  /\ month = 1
  /\ row \in [used : 0 .. Limit, period : {0, 1}]
  /\ req = [r \in Requests |-> Absent]
  /\ closing \in BOOLEAN
  /\ billed = [m \in Months |-> IF m = row.period THEN row.used ELSE 0]
  /\ outdated = FALSE /\ unchecked = FALSE
  /\ peak = 0

----------------------------------------------------------------------------
\* Variant: the period begins where it should end.
RolledTooFar(h) ==
  IF h.period < month
  THEN [used |-> IF h.used = 0 THEN row.used ELSE 0, period |-> month + 1]
  ELSE row

\* ensure_current_period by a session that has loaded h: the row after it.  A
\* count that was 0 already is not written.
RolledOver(h) ==
  IF h.period < month
  THEN [used |-> IF h.used = 0 THEN row.used ELSE 0, period |-> month]
  ELSE row

\* What that session holds afterwards: it refreshes the row it has written.
Refreshed(h) == IF h.period < month THEN RolledOver(h) ELSE h

\* Variant: there is room as long as the limit is not reached.
CanConsumeAnything(h, tokens) == TRUE

CanConsume(h, tokens) == Limit = 0 \/ h.used + tokens <= Limit

UnderWay(r) == req[r].kind \in Turns /\ req[r].at \in {"admitted", "working"}

\* A session that has loaded h calls ensure_current_period.
Rolls(h) ==
  /\ row' = RolledOver(h)
  /\ outdated' = (outdated \/ (h.period < month /\ h # row))

\* Ends every step of a request.
Note ==
  peak' = LET n == Cardinality({q \in Requests : UnderWay(q)'})
          IN IF n > peak THEN n ELSE peak

Goto(r, place) == req' = [req EXCEPT ![r].at = place, ![r].held = None]

----------------------------------------------------------------------------
\* The cookie names the user, whose row is loaded.  A generation loads it
\* again in a session of its own.
Authenticate(r) ==
  /\ req[r].at = "none"
  /\ \E kind \in Kinds, ask \in Questions :
       req' = [req EXCEPT ![r] =
                 [kind |-> kind, at |-> "admitted", ask |-> ask,
                  held |-> IF kind = "generate" THEN None ELSE row]]
  /\ UNCHANGED <<month, row, closing, billed, outdated, unchecked>>
  /\ Note

\* The question is counted; the message that is saved next ends what the
\* session holds.
Checked(r, h) == Goto(r, IF CanConsume(h, req[r].ask) THEN "working" ELSE "refused")

\* stream_orchestration_events up to the stored question.  Preparing the
\* conversation may commit, after which the row is loaded anew.
CheckChat(r) ==
  /\ req[r].kind = "chat" /\ req[r].at = "admitted"
  /\ \E h \in {req[r].held, row} :
       /\ closing => h = req[r].held
       /\ closing => h.period = month
       /\ Rolls(h)
       /\ Checked(r, Refreshed(h))
  /\ UNCHANGED <<month, closing, billed, unchecked>>
  /\ Note

\* A closed session does not know the user any more: refreshing the row at the
\* start of a month raises, and the stream breaks off.
ChatBreaks(r) ==
  /\ closing
  /\ req[r].kind = "chat" /\ req[r].at = "admitted" /\ req[r].held.period < month
  /\ Goto(r, "broken")
  /\ UNCHANGED <<month, row, closing, billed, outdated, unchecked>>
  /\ Note

CheckGenerate(r) ==
  /\ req[r].kind = "generate" /\ req[r].at = "admitted"
  /\ Rolls(row)
  /\ Checked(r, row')
  /\ UNCHANGED <<month, closing, billed, unchecked>>
  /\ Note

\* What a request may turn out to cost: the estimate before a generation says
\* nothing about that.
Costs(r) ==
  {req[r].ask + a : a \in Answers} \cup (IF req[r].kind = "generate" THEN Questions ELSE {})

\* Variant: the month is not looked at again.
ChargesUnrolled(h, n) ==
  /\ row' = [row EXCEPT !.used = h.used + n]
  /\ billed' = [billed EXCEPT ![month] = @ + n]
  /\ outdated' = (outdated \/ h # row)

\* record_usage by a session that has loaded h.
Charges(h, n) ==
  /\ row' = [RolledOver(h) EXCEPT !.used = Refreshed(h).used + n]
  /\ billed' = [billed EXCEPT ![month] = @ + n]
  /\ outdated' = (outdated \/ h # row)

\* The end of a turn: its session has committed since, or is a new one, and
\* loads the row.
ChargeTurn(r) ==
  /\ req[r].kind \in Turns /\ req[r].at = "working"
  /\ \E n \in Costs(r) : Charges(row, n)
  /\ Goto(r, "charged")
  /\ UNCHANGED <<month, closing, unchecked>>
  /\ Note

\* generate_upload_insights has committed nothing since the user was loaded,
\* before the model was asked: its charge is added to what was used then.
ChargeInsights(r) ==
  /\ req[r].kind = "insights" /\ req[r].at = "admitted"
  /\ \E n \in Costs(r) : Charges(req[r].held, n)
  /\ Goto(r, "charged")
  /\ unchecked' = TRUE
  /\ UNCHANGED <<month, closing>>
  /\ Note

ViewSubscription(r) ==
  /\ req[r].kind = "subscription" /\ req[r].at = "admitted"
  /\ Rolls(req[r].held)
  /\ Goto(r, "over")
  /\ UNCHANGED <<month, closing, billed, unchecked>>
  /\ Note

\* The client leaves a stream, or insights or a generation fail.
EndsUncharged(r) ==
  /\ \/ req[r].kind \in Turns /\ req[r].at = "working"
     \/ req[r].kind = "insights" /\ req[r].at = "admitted"
  /\ Goto(r, "over")
  /\ UNCHANGED <<month, row, closing, billed, outdated, unchecked>>
  /\ Note

MonthBegins ==
  /\ month < LastMonth
  /\ month' = month + 1
  /\ UNCHANGED <<row, req, closing, billed, outdated, unchecked, peak>>

Next ==
  \/ \E r \in Requests :
       \/ Authenticate(r) \/ CheckChat(r) \/ ChatBreaks(r) \/ CheckGenerate(r)
       \/ ChargeTurn(r) \/ ChargeInsights(r) \/ ViewSubscription(r) \/ EndsUncharged(r)
  \/ MonthBegins

Spec == Init /\ [][Next]_vars

----------------------------------------------------------------------------
(* Properties. *)

\* Every variable has its type, and the row's period has begun.
TypeOK ==
  /\ month \in Months \ {0}
  /\ row \in Row /\ row.period <= month
  /\ req \in [Requests -> [kind : Kinds \cup {None}, at : Places,
                           held : Row \cup {None}, ask : Questions \cup {0}]]
  /\ closing \in BOOLEAN
  /\ billed \in [Months -> Nat]
  /\ outdated \in BOOLEAN /\ unchecked \in BOOLEAN
  /\ peak \in Nat

\* The counter is what was charged in its period, nothing lost and nothing
\* carried over from the month before, however checks, charges, months and
\* visits to the subscription page interleave -- until a session writes the row
\* as it had loaded it before another change: then charges are lost, or those of
\* the old month stay (token_usage.py:45-51, 90-104, library_insights.py:87-104).
CounterIsExact == ~outdated => row.used = billed[row.period]

\* A turn is checked before it starts and charged when it ends, so a user can
\* go over the limit; but never by more than the turns that were under way
\* together cost (multi_agent_stream.py:254-260, 358, gateway.py:53-63).
OverdraftBounded ==
  Limit # 0 /\ ~outdated /\ ~unchecked =>
    \E q \in Questions, a \in Answers :
      row.used <= Limit + peak * (q + a)
=============================================================================
