-------------------------- MODULE TokenUsageProofs --------------------------
(***************************************************************************)
(* Theorems about TokenUsage, for every set of requests, every limit and   *)
(* every number of months.                                                 *)
(*                                                                         *)
(* The invariant behind CounterIsExact is Account: besides the counter, it *)
(* says that nothing has been charged to a month after the row's period,   *)
(* so that a period that begins with 0 begins right.                       *)
(***************************************************************************)
EXTENDS TokenUsage, FiniteSetTheorems, TLAPS

\* A request that is going to use the row it has loaded has one.
Holding ==
  \A r \in Requests :
    req[r].at = "admitted" /\ req[r].kind # "generate" => req[r].held \in Row

Shape == TypeOK /\ Holding

Account ==
  ~outdated =>
    /\ row.used = billed[row.period]
    /\ \A m \in Months : m > row.period => billed[m] = 0

Request == [kind : Kinds \cup {None}, at : Places, held : Row \cup {None},
            ask : Questions \cup {0}]

----------------------------------------------------------------------------
(* What the shared steps produce.                                          *)

\* The row after a rollover, and the row its session then holds.
LEMMA RolledOverType ==
  ASSUME TypeOK, NEW h \in Row
  PROVE  /\ RolledOver(h) \in Row /\ RolledOver(h).period <= month
         /\ Refreshed(h) \in Row
BY DEF TypeOK, Row, Months, RolledOver, Refreshed

\* Counting the turns under way keeps the peak a number.
LEMMA NoteType == TypeOK /\ Note => peak' \in Nat
<1> SUFFICES ASSUME TypeOK, Note PROVE peak' \in Nat
  OBVIOUS
<1> DEFINE U == {q \in Requests : UnderWay(q)'}
<1>1. U \subseteq Requests
  OBVIOUS
<1>2. IsFiniteSet(U)
  BY <1>1, FS_Subset, UsageAssumption
<1>3. Cardinality(U) \in Nat
  BY <1>2, FS_CardinalityType
<1> HIDE DEF U
<1>4. peak' = LET n == Cardinality(U) IN IF n > peak THEN n ELSE peak
  BY DEF Note, U
<1> QED
  BY <1>3, <1>4 DEF TypeOK

\* A request that goes on has let go of its row.
LEMMA GotoType ==
  ASSUME Shape, NEW r \in Requests, NEW place \in Places \ {"admitted"}, Goto(r, place)
  PROVE  req' \in [Requests -> Request] /\ Holding'
BY DEF Shape, TypeOK, Holding, Goto, Request

\* A charge is a number, and what it leaves has the types.
LEMMA ChargeType ==
  ASSUME TypeOK, NEW h \in Row, NEW n \in Nat, Charges(h, n)
  PROVE  /\ row' \in Row /\ row'.period <= month
         /\ billed' \in [Months -> Nat] /\ outdated' \in BOOLEAN
<1>1. RolledOver(h) \in Row /\ RolledOver(h).period <= month /\ Refreshed(h) \in Row
  BY RolledOverType
<1>2. row' = [RolledOver(h) EXCEPT !.used = Refreshed(h).used + n]
  BY DEF Charges
<1>3. row' \in Row /\ row'.period <= month
  BY <1>1, <1>2 DEF Row
<1>4. billed' \in [Months -> Nat]
  BY DEF Charges, TypeOK
<1>5. outdated' \in BOOLEAN
  BY DEF Charges
<1> QED
  BY <1>3, <1>4, <1>5

\* What a request may cost is a number.
LEMMA CostType == ASSUME TypeOK, NEW r \in Requests PROVE Costs(r) \subseteq Nat
<1>0. req[r] \in Request
  BY DEF TypeOK, Request
<1>1. req[r].ask \in Questions \cup {0}
  BY <1>0 DEF Request
<1>2. Questions \cup {0} \subseteq Nat /\ Answers \subseteq Nat
  BY UsageAssumption
<1>3. {req[r].ask + a : a \in Answers} \subseteq Nat
  BY <1>1, <1>2
<1>4. (IF req[r].kind = "generate" THEN Questions ELSE {}) \subseteq Nat
  BY <1>2
<1> QED
  BY <1>3, <1>4 DEF Costs

----------------------------------------------------------------------------
(* Types.                                                                  *)

\* The first states.
LEMMA InitShape == Init => Shape
<1> SUFFICES ASSUME Init PROVE Shape
  OBVIOUS
<1>1. row \in Row /\ row.period \in {0, 1} /\ month \in Months \ {0} /\ row.period <= month
  BY UsageAssumption DEF Init, Row, Months
<1>2. req \in [Requests -> Request] /\ Holding
  BY DEF Init, Absent, Request, Places, Holding
<1>3. billed \in [Months -> Nat]
  BY <1>1 DEF Init, Row
<1> QED
  BY <1>1, <1>2, <1>3 DEF Init, Shape, TypeOK, Request

\* Every step keeps the types, and a held row as long as it is needed.
LEMMA StepShape == Shape /\ [Next]_vars => Shape'
<1> SUFFICES ASSUME Shape, [Next]_vars PROVE Shape'
  OBVIOUS
<1>0. TypeOK /\ Holding
  BY DEF Shape
<1>1. CASE UNCHANGED vars
  BY <1>1 DEF vars, Shape, TypeOK, Holding
<1>2. CASE MonthBegins
  BY <1>2, UsageAssumption DEF MonthBegins, Shape, TypeOK, Holding, Months, Row
<1>3. ASSUME NEW r \in Requests, Authenticate(r) PROVE Shape'
  <2>1. PICK kind \in Kinds, ask \in Questions :
          req' = [req EXCEPT ![r] = [kind |-> kind, at |-> "admitted", ask |-> ask,
                              held |-> IF kind = "generate" THEN None ELSE row]]
    BY <1>3 DEF Authenticate
  <2>2. req' \in [Requests -> Request] /\ Holding'
    BY <1>0, <2>1 DEF TypeOK, Holding, Request, Places
  <2>3. peak' \in Nat
    BY <1>0, <1>3, NoteType DEF Authenticate
  <2> QED
    BY <1>0, <1>3, <2>2, <2>3 DEF Authenticate, Shape, TypeOK, Request
<1>4. ASSUME NEW r \in Requests, ChatBreaks(r) \/ EndsUncharged(r) PROVE Shape'
  <2>1. req' \in [Requests -> Request] /\ Holding'
    BY <1>4, GotoType DEF ChatBreaks, EndsUncharged, Places
  <2>2. peak' \in Nat
    BY <1>0, <1>4, NoteType DEF ChatBreaks, EndsUncharged
  <2> QED
    BY <1>0, <1>4, <2>1, <2>2 DEF ChatBreaks, EndsUncharged, Shape, TypeOK, Request
<1>5. ASSUME NEW r \in Requests, CheckChat(r) \/ CheckGenerate(r) \/ ViewSubscription(r)
      PROVE Shape'
  <2>1. PICK h \in Row, place \in {"working", "refused", "over"} :
          Rolls(h) /\ Goto(r, place)
    <3>1. CASE CheckChat(r)
      BY <1>0, <3>1 DEF CheckChat, Checked, TypeOK, Holding
    <3>2. CASE CheckGenerate(r)
      BY <1>0, <3>2 DEF CheckGenerate, Checked, TypeOK
    <3>3. CASE ViewSubscription(r)
      BY <1>0, <3>3 DEF ViewSubscription, TypeOK, Holding
    <3> QED
      BY <1>5, <3>1, <3>2, <3>3
  <2>2. req' \in [Requests -> Request] /\ Holding'
    BY <2>1, GotoType DEF Places
  <2>3. row' \in Row /\ row'.period <= month /\ outdated' \in BOOLEAN
    BY <1>0, <2>1, RolledOverType DEF Rolls, TypeOK
  <2>4. peak' \in Nat
    BY <1>0, <1>5, NoteType DEF CheckChat, CheckGenerate, ViewSubscription
  <2> QED
    BY <1>0, <1>5, <2>2, <2>3, <2>4
       DEF CheckChat, CheckGenerate, ViewSubscription, Shape, TypeOK, Request
<1>6. ASSUME NEW r \in Requests, ChargeTurn(r) \/ ChargeInsights(r) PROVE Shape'
  <2>1. PICK h \in Row, n \in Nat : Charges(h, n) /\ Goto(r, "charged")
    <3>1. CASE ChargeTurn(r)
      BY <1>0, <3>1, CostType DEF ChargeTurn, TypeOK
    <3>2. CASE ChargeInsights(r)
      BY <1>0, <3>2, CostType DEF ChargeInsights, TypeOK, Holding
    <3> QED
      BY <1>6, <3>1, <3>2
  <2>2. req' \in [Requests -> Request] /\ Holding'
    BY <2>1, GotoType DEF Places
  <2>3. /\ row' \in Row /\ row'.period <= month
        /\ billed' \in [Months -> Nat] /\ outdated' \in BOOLEAN
    BY <1>0, <2>1, ChargeType
  <2>4. peak' \in Nat
    BY <1>0, <1>6, NoteType DEF ChargeTurn, ChargeInsights
  <2> QED
    BY <1>0, <1>6, <2>2, <2>3, <2>4 DEF ChargeTurn, ChargeInsights, Shape, TypeOK, Request
<1> QED
  BY <1>1, <1>2, <1>3, <1>4, <1>5, <1>6 DEF Next

\* So Shape holds at all times.
LEMMA ShapeHolds == Spec => []Shape
BY InitShape, StepShape, PTL DEF Spec

\* Whatever sessions hold and however requests and months interleave, the
\* variables keep their types, and no period of the row lies in the future.
THEOREM TypeCorrect == Spec => []TypeOK
BY ShapeHolds, PTL DEF Shape

----------------------------------------------------------------------------
(* The counter.                                                            *)

\* A session that rolls the period over resets the row it knows, in a month to
\* which nothing has been charged.
LEMMA RollsKeepAccount ==
  ASSUME Shape, Account, NEW h \in Row, Rolls(h), UNCHANGED billed
  PROVE  Account'
<1> SUFFICES ASSUME ~outdated'
             PROVE  /\ row'.used = billed[row'.period]
                    /\ \A m \in Months : m > row'.period => billed[m] = 0
  BY DEF Account
<1>1. ~outdated /\ (h.period < month => h = row)
  BY DEF Rolls, Shape, TypeOK
<1>2. CASE h.period < month
  <2>1. row' = [used |-> 0, period |-> month]
    BY <1>1, <1>2 DEF Rolls, RolledOver, Row
  <2> QED
    BY <1>1, <1>2, <2>1 DEF Account, Shape, TypeOK, Row, Months
<1>3. CASE ~(h.period < month)
  BY <1>1, <1>3 DEF Rolls, RolledOver, Account
<1> QED
  BY <1>2, <1>3

\* A charge goes to the month that has begun, which the row is in by then.
LEMMA ChargesKeepAccount ==
  ASSUME Shape, Account, NEW h \in Row, NEW n \in Nat, Charges(h, n)
  PROVE  Account'
<1> SUFFICES ASSUME ~outdated'
             PROVE  /\ row'.used = billed'[row'.period]
                    /\ \A m \in Months : m > row'.period => billed'[m] = 0
  BY DEF Account
<1>1. ~outdated /\ h = row
  BY DEF Charges, Shape, TypeOK
<1>2. /\ row.used = billed[row.period] /\ row.used \in Nat
      /\ row.period \in Months /\ row.period <= month /\ month \in Months
      /\ \A m \in Months : m > row.period => billed[m] = 0
  BY <1>1 DEF Account, Shape, TypeOK, Row
<1>3. row' = [used |-> billed[month] + n, period |-> month]
  <2>1. CASE row.period < month
    BY <1>1, <1>2, <2>1 DEF Charges, RolledOver, Refreshed, Row
  <2>2. CASE row.period = month
    BY <1>1, <1>2, <2>2 DEF Charges, RolledOver, Refreshed, Row, Months
  <2> QED
    BY <1>2, <2>1, <2>2 DEF Months
<1>4. billed' = [billed EXCEPT ![month] = @ + n] /\ billed \in [Months -> Nat]
  BY DEF Charges, Shape, TypeOK
<1> QED
  BY <1>2, <1>3, <1>4 DEF Months

\* No step charges or resets what the account does not say.
LEMMA StepAccount == Shape /\ Account /\ [Next]_vars => Account'
<1> SUFFICES ASSUME Shape, Account, [Next]_vars PROVE Account'
  OBVIOUS
<1>0. TypeOK /\ Holding
  BY DEF Shape
<1>1. CASE UNCHANGED vars \/ MonthBegins
  BY <1>1 DEF vars, MonthBegins, Account
<1>2. ASSUME NEW r \in Requests, Authenticate(r) \/ ChatBreaks(r) \/ EndsUncharged(r)
      PROVE Account'
  BY <1>2 DEF Authenticate, ChatBreaks, EndsUncharged, Account
<1>3. ASSUME NEW r \in Requests, CheckChat(r) \/ CheckGenerate(r) \/ ViewSubscription(r)
      PROVE Account'
  <2>1. PICK h \in Row : Rolls(h) /\ UNCHANGED billed
    <3>1. CASE CheckChat(r)
      BY <1>0, <3>1 DEF CheckChat, TypeOK, Holding
    <3>2. CASE CheckGenerate(r)
      BY <1>0, <3>2 DEF CheckGenerate, TypeOK
    <3>3. CASE ViewSubscription(r)
      BY <1>0, <3>3 DEF ViewSubscription, TypeOK, Holding
    <3> QED
      BY <1>3, <3>1, <3>2, <3>3
  <2> QED
    BY <2>1, RollsKeepAccount
<1>4. ASSUME NEW r \in Requests, ChargeTurn(r) \/ ChargeInsights(r) PROVE Account'
  <2>1. PICK h \in Row, n \in Nat : Charges(h, n)
    <3>1. CASE ChargeTurn(r)
      BY <1>0, <3>1, CostType DEF ChargeTurn, TypeOK
    <3>2. CASE ChargeInsights(r)
      BY <1>0, <3>2, CostType DEF ChargeInsights, TypeOK, Holding
    <3> QED
      BY <1>4, <3>1, <3>2
  <2> QED
    BY <2>1, ChargesKeepAccount
<1> QED
  BY <1>1, <1>2, <1>3, <1>4 DEF Next

\* However checks, charges, months and visits to the subscription page
\* interleave: until a session writes over a change it has not seen, the counter
\* is the sum of the charges of its period.
THEOREM CounterExact == Spec => []CounterIsExact
<1>1. Init => Account
  <2> SUFFICES ASSUME Init PROVE Account
    OBVIOUS
  <2>1. row.used \in Nat /\ row.period \in Months /\ row.period \in {0, 1}
    BY UsageAssumption DEF Init, Months
  <2> QED
    BY <2>1 DEF Init, Account
<1>2. Account => CounterIsExact
  BY DEF Account, CounterIsExact
<1> QED
  BY <1>1, <1>2, StepAccount, ShapeHolds, PTL DEF Spec

----------------------------------------------------------------------------
(* The overdraft.                                                          *)

\* The turns that are under way.
Live == {r \in Requests : UnderWay(r)}

\* Those that have passed the check, or will pass it on the row they hold.
Through ==
  {r \in Live : \/ req[r].at = "working"
                \/ req[r].kind = "chat" /\ req[r].held.used + req[r].ask <= Limit}

\* Every turn of the peak that is not through may have cost something already.
Overdraft ==
  /\ Cardinality(Live) <= peak
  /\ Limit # 0 /\ ~outdated /\ ~unchecked =>
       \E q \in Questions, a \in Answers :
         row.used <= Limit + (peak - Cardinality(Through)) * (q + a)

\* A product grows with its factors.
LEMMA ProductGrows ==
  ASSUME NEW i \in Nat, NEW j \in Nat, NEW b \in Nat, NEW c \in Nat, i <= j, b <= c
  PROVE  i * b \in Nat /\ i * b <= j * c
<1>1. PICK d \in Nat : j = i + d
  <2>1. j - i \in Nat /\ j = i + (j - i)
    OBVIOUS
  <2> QED
    BY <2>1
<1>2. PICK e \in Nat : c = b + e
  <2>1. c - b \in Nat /\ c = b + (c - b)
    OBVIOUS
  <2> QED
    BY <2>1
<1>3. i * b \in Nat /\ i * e \in Nat /\ d * c \in Nat
  BY <1>2
<1>4. j * c = i * b + i * e + d * c
  BY <1>1, <1>2
<1> QED
  BY <1>3, <1>4

\* A product with one more.
LEMMA OneMore == ASSUME NEW i \in Nat, NEW b \in Nat PROVE (i + 1) * b = i * b + b
OBVIOUS

\* The turns under way can be counted, and the turns that are through are some of them.
LEMMA Counts ==
  /\ IsFiniteSet(Live) /\ Cardinality(Live) \in Nat
  /\ IsFiniteSet(Through) /\ Cardinality(Through) \in Nat
  /\ Cardinality(Through) <= Cardinality(Live)
<1>1. Live \subseteq Requests /\ Through \subseteq Live
  BY DEF Live, Through
<1> QED
  BY <1>1, FS_Subset, FS_CardinalityType, UsageAssumption

\* The same of the next state.
LEMMA CountsNext ==
  /\ IsFiniteSet(Live') /\ Cardinality(Live)' \in Nat
  /\ IsFiniteSet(Through') /\ Cardinality(Through)' \in Nat
  /\ Cardinality(Through)' <= Cardinality(Live)'
<1>1. Live' \subseteq Requests /\ Through' \subseteq Live'
  BY DEF Live, Through
<1> QED
  BY <1>1, FS_Subset, FS_CardinalityType, UsageAssumption

\* The peak covers the turns under way, and never falls.
LEMMA StepPeak ==
  ASSUME Shape, Cardinality(Live) <= peak, [Next]_vars
  PROVE  peak' \in Nat /\ peak <= peak' /\ Cardinality(Live)' <= peak'
<1>1. CASE Note
  <2> DEFINE n == Cardinality({q \in Requests : UnderWay(q)'})
  <2>1. n = Cardinality(Live)' /\ n \in Nat
    BY CountsNext DEF Live
  <2> HIDE DEF n
  <2>2. peak' = IF n > peak THEN n ELSE peak
    BY <1>1 DEF Note, n
  <2> QED
    BY <2>1, <2>2 DEF Shape, TypeOK
<1>2. CASE UNCHANGED vars \/ MonthBegins
  <2>1. req' = req /\ peak' = peak
    BY <1>2 DEF vars, MonthBegins
  <2>2. Live' = Live
    BY <2>1 DEF Live, UnderWay
  <2> QED
    BY <2>1, <2>2 DEF Shape, TypeOK
<1> QED
  BY <1>1, <1>2 DEF Next, Authenticate, CheckChat, ChatBreaks, CheckGenerate, ChargeTurn,
     ChargeInsights, ViewSubscription, EndsUncharged

\* As long as the counter is within the limit, nothing has been overdrawn.
LEMMA WithinLimit ==
  ASSUME row'.used \in Nat, row'.used <= Limit, peak' \in Nat, Cardinality(Live)' <= peak'
  PROVE  Overdraft'
<1> DEFINE k == peak' - Cardinality(Through)'
<1>1. k \in Nat
  BY CountsNext
<1> HIDE DEF k
<1>2. PICK q \in Questions, a \in Answers : TRUE
  BY UsageAssumption
<1>3. q + a \in Nat
  BY UsageAssumption
<1>4. k * (q + a) \in Nat
  BY <1>1, <1>3, ProductGrows
<1>5. row'.used <= Limit + k * (q + a)
  BY <1>4, UsageAssumption
<1> QED
  BY <1>5 DEF Overdraft, k

\* When no turn gets through and nothing is charged, the overdraft stays covered.
LEMMA NoneThrough ==
  ASSUME Shape, Shape', Overdraft, ~outdated' => ~outdated /\ row'.used <= row.used,
         ~unchecked' => ~unchecked, Through' \subseteq Through,
         peak <= peak', Cardinality(Live)' <= peak'
  PROVE  Overdraft'
<1> SUFFICES ASSUME Limit # 0, ~outdated', ~unchecked'
             PROVE  \E q \in Questions, a \in Answers :
                      row'.used <= Limit + (peak' - Cardinality(Through)') * (q + a)
  BY DEF Overdraft
<1>1. PICK q \in Questions, a \in Answers :
        row.used <= Limit + (peak - Cardinality(Through)) * (q + a)
  BY DEF Overdraft
<1> DEFINE k == peak - Cardinality(Through)
           l == peak' - Cardinality(Through)'
<1>2. Cardinality(Through)' <= Cardinality(Through)
  BY Counts, FS_Subset
<1>3. k \in Nat /\ l \in Nat /\ k <= l
  BY <1>2, Counts, CountsNext DEF Overdraft, Shape, TypeOK
<1>4. row.used <= Limit + k * (q + a)
  BY <1>1
<1> HIDE DEF k, l
<1>5. q + a \in Nat /\ row.used \in Nat /\ row'.used \in Nat /\ Limit \in Nat
  BY UsageAssumption DEF Shape, TypeOK, Row
<1>6. k * (q + a) \in Nat /\ l * (q + a) \in Nat /\ k * (q + a) <= l * (q + a)
  BY <1>3, <1>5, ProductGrows
<1>7. row'.used <= Limit + l * (q + a)
  BY <1>4, <1>5, <1>6
<1> QED
  BY <1>7 DEF l

\* What is asked and answered is counted in numbers.
LEMMA NumbersAsked ==
  /\ \A e \in Questions \cup {0} : e \in Nat
  /\ \A d \in Answers : d \in Nat
<1>1. Questions \subseteq Nat /\ Answers \subseteq Nat
  BY UsageAssumption
<1> QED
  BY <1>1

\* Of any two questions and answers, some cover what each costs.
LEMMA CostCovered ==
  ASSUME NEW q \in Questions, NEW a \in Answers, NEW e \in Questions \cup {0}, NEW d \in Answers
  PROVE  \E s \in Questions, b \in Answers : q + a <= s + b /\ e + d <= s + b
<1>1. q \in Nat /\ e \in Nat /\ a \in Nat /\ d \in Nat
  BY NumbersAsked
<1>2. PICK s \in Questions : q <= s /\ e <= s
  <2>1. CASE e <= q
    BY <1>1, <2>1
  <2>2. CASE ~(e <= q)
    <3>1. e # 0 /\ q <= e /\ e <= e
      BY <1>1, <2>2
    <3>2. e \in Questions
      BY <3>1
    <3> QED
      BY <3>1, <3>2
  <2> QED
    BY <2>1, <2>2
<1>3. PICK b \in Answers : a <= b /\ d <= b
  BY <1>1
<1>4. s \in Nat /\ b \in Nat
  BY NumbersAsked
<1>5. q + a <= s + b /\ e + d <= s + b
  BY <1>1, <1>2, <1>3, <1>4
<1> QED
  BY <1>5

\* A turn that is charged was through; from then on the peak pays for it.
LEMMA ChargeCovered ==
  ASSUME Shape, Shape', Overdraft, NEW r \in Requests, ChargeTurn(r),
         peak <= peak', Cardinality(Live)' <= peak'
  PROVE  Overdraft'
<1> SUFFICES ASSUME Limit # 0, ~outdated', ~unchecked'
             PROVE  \E q \in Questions, a \in Answers :
                      row'.used <= Limit + (peak' - Cardinality(Through)') * (q + a)
  BY DEF Overdraft
<1>0. /\ Limit \in Nat /\ row \in Row /\ req \in [Requests -> Request]
      /\ row.used \in Nat /\ row'.used \in Nat
  BY UsageAssumption DEF Shape, TypeOK, Row, Request
<1>1. PICK n \in Costs(r) : Charges(row, n) /\ Goto(r, "charged") /\ UNCHANGED unchecked
  BY DEF ChargeTurn
<1>2. n \in Nat /\ row'.used <= row.used + n /\ ~outdated
  <2>1. n \in Nat
    BY CostType DEF Shape
  <2>2. RolledOver(row).used <= row.used /\ Refreshed(row) = RolledOver(row)
    BY <1>0 DEF RolledOver, Refreshed
  <2>3. RolledOver(row) \in Row
    BY <1>0, RolledOverType DEF Shape
  <2>4. row' = [RolledOver(row) EXCEPT !.used = RolledOver(row).used + n]
    BY <1>1, <2>2 DEF Charges
  <2>5. row'.used = RolledOver(row).used + n /\ RolledOver(row).used \in Nat
    BY <2>3, <2>4 DEF Row
  <2> QED
    BY <1>0, <1>1, <2>1, <2>2, <2>5 DEF Charges, Shape, TypeOK
<1>3. PICK q \in Questions, a \in Answers :
        row.used <= Limit + (peak - Cardinality(Through)) * (q + a)
  BY <1>1, <1>2 DEF Overdraft
<1>4. \E s \in Questions, b \in Answers : q + a <= s + b /\ n <= s + b
  <2>1. /\ Questions \subseteq Nat /\ Answers \subseteq Nat /\ q \in Nat /\ a \in Nat
        /\ req[r].ask \in Questions \cup {0}
    BY <1>0, UsageAssumption DEF Request
  <2>2. CASE n \in Questions
    BY <1>2, <2>1, <2>2
  <2>3. CASE \E d \in Answers : n = req[r].ask + d
    <3>1. PICK d \in Answers : n = req[r].ask + d
      BY <2>3
    <3>2. \E s \in Questions, b \in Answers : q + a <= s + b /\ req[r].ask + d <= s + b
      BY <2>1, CostCovered
    <3> QED
      BY <3>1, <3>2
  <2> QED
    BY <1>1, <2>2, <2>3 DEF Costs
<1>5. PICK s \in Questions, b \in Answers : q + a <= s + b /\ n <= s + b
  BY <1>4
<1>6. Through' = Through \ {r} /\ r \in Through
  <2>1. /\ req[r].at = "working" /\ req[r].kind \in Turns
        /\ req' = [req EXCEPT ![r].at = "charged", ![r].held = None]
    BY <1>1 DEF Goto, ChargeTurn
  <2>2. /\ req'[r].at = "charged" /\ \A v \in Requests \ {r} : req'[v] = req[v]
    BY <1>0, <2>1 DEF Request
  <2> QED
    BY <2>1, <2>2 DEF Through, Live, UnderWay
<1> DEFINE k == peak - Cardinality(Through)
           l == peak' - Cardinality(Through)'
<1>7. k \in Nat /\ l \in Nat /\ k + 1 <= l
  <2>1. Cardinality(Through)' = Cardinality(Through) - 1
    BY <1>6, Counts, FS_RemoveElement
  <2> QED
    BY <2>1, Counts, CountsNext DEF Overdraft, Shape, TypeOK
<1>8. row.used <= Limit + k * (q + a)
  BY <1>3
<1> HIDE DEF k, l
<1>9. q + a \in Nat /\ s + b \in Nat
  BY UsageAssumption
<1>10. k * (q + a) \in Nat /\ k * (q + a) <= k * (s + b) /\ k * (s + b) \in Nat
  BY <1>5, <1>7, <1>9, ProductGrows
<1>11. (k + 1) * (s + b) = k * (s + b) + (s + b)
  BY <1>7, <1>9, OneMore
<1>12. (k + 1) * (s + b) <= l * (s + b) /\ l * (s + b) \in Nat
  BY <1>7, <1>9, ProductGrows
<1>13. row'.used <= Limit + l * (s + b)
  <2> DEFINE x == k * (q + a)
             y == k * (s + b)
             z == l * (s + b)
             c == s + b
  <2>1. /\ x \in Nat /\ x <= y /\ y \in Nat /\ z \in Nat /\ c \in Nat /\ y + c <= z
        /\ row.used <= Limit + x /\ n <= c
    BY <1>5, <1>8, <1>9, <1>10, <1>11, <1>12
  <2>2. row'.used <= Limit + z
    <3> HIDE DEF x, y, z, c
    <3> QED
      BY <1>0, <1>2, <2>1
  <2> QED
    BY <2>2
<1> QED
  BY <1>13 DEF l

\* A session that rolls the period over charges nothing.
LEMMA RollsDown ==
  ASSUME Shape, NEW h \in Row, Rolls(h), ~outdated'
  PROVE  /\ ~outdated /\ row'.used <= row.used /\ row'.used \in Nat
         /\ IF h.period < month THEN h = row /\ row'.used = 0 ELSE row' = row
<1>1. /\ ~outdated /\ (h.period < month => h = row) /\ row' = RolledOver(h)
      /\ row \in Row /\ row.used \in Nat
  BY DEF Rolls, Shape, TypeOK, Row
<1>2. CASE h.period < month
  <2>1. h = row /\ row' = [used |-> 0, period |-> month]
    BY <1>1, <1>2 DEF RolledOver
  <2> QED
    BY <1>1, <1>2, <2>1
<1>3. CASE ~(h.period < month)
  BY <1>1, <1>3 DEF RolledOver
<1> QED
  BY <1>2, <1>3

\* A request that leaves the check refused, or ends, is not through any more.
LEMMA GotoThrough ==
  ASSUME Shape, NEW r \in Requests, NEW place, Goto(r, place)
  PROVE  /\ place # "working" => Through' \subseteq Through \cup {r}
         /\ place \notin {"admitted", "working"} => Through' \subseteq Through
         /\ r \in Through => Through' \subseteq Through
<1>1. req \in [Requests -> Request]
  BY DEF Shape, TypeOK, Request
<1>2. /\ req'[r].at = place /\ req'[r].kind = req[r].kind
      /\ \A v \in Requests \ {r} : req'[v] = req[v]
  BY <1>1 DEF Goto, Request
<1> QED
  BY <1>2 DEF Through, Live, UnderWay

\* Every step keeps the overdraft covered.
LEMMA StepOverdraft == Shape /\ Overdraft /\ [Next]_vars => Overdraft'
<1> SUFFICES ASSUME Shape, Overdraft, [Next]_vars PROVE Overdraft'
  OBVIOUS
<1>0. /\ TypeOK /\ Holding /\ Shape'
      /\ peak' \in Nat /\ peak <= peak' /\ Cardinality(Live)' <= peak'
      /\ row \in Row /\ row.used \in Nat /\ row'.used \in Nat
      /\ req \in [Requests -> Request]
  BY StepShape, StepPeak DEF Shape, Overdraft, TypeOK, Row, Request
<1>1. CASE UNCHANGED vars \/ MonthBegins
  BY <1>1 DEF vars, MonthBegins, Overdraft, Live, Through, UnderWay
<1>2. ASSUME NEW r \in Requests, Authenticate(r) PROVE Overdraft'
  <2>1. PICK kind \in Kinds, ask \in Questions :
          req' = [req EXCEPT ![r] = [kind |-> kind, at |-> "admitted", ask |-> ask,
                              held |-> IF kind = "generate" THEN None ELSE row]]
    BY <1>2 DEF Authenticate
  <2>2. /\ req'[r] = [kind |-> kind, at |-> "admitted", ask |-> ask,
                      held |-> IF kind = "generate" THEN None ELSE row]
        /\ \A v \in Requests \ {r} : req'[v] = req[v]
    BY <1>0, <2>1
  <2>3. /\ req'[r].at = "admitted" /\ req'[r].kind = kind /\ req'[r].ask = ask
        /\ kind # "generate" => req'[r].held = row
    BY <2>2
  <2>4. row' = row /\ unchecked' = unchecked /\ outdated' = outdated
    BY <1>2 DEF Authenticate
  <2>5. CASE row.used + ask <= Limit
    BY <1>0, <2>4, <2>5, UsageAssumption, WithinLimit
  <2>6. CASE ~(row.used + ask <= Limit)
    <3>1. Through' \subseteq Through
      BY <2>2, <2>3, <2>6 DEF Through, Live, UnderWay
    <3> QED
      BY <1>0, <2>4, <3>1, NoneThrough
  <2> QED
    BY <2>5, <2>6
<1>3. ASSUME NEW r \in Requests, ChatBreaks(r) \/ EndsUncharged(r) PROVE Overdraft'
  <2>1. Through' \subseteq Through
    BY <1>3, GotoThrough DEF ChatBreaks, EndsUncharged
  <2>2. row' = row /\ unchecked' = unchecked /\ outdated' = outdated
    BY <1>3 DEF ChatBreaks, EndsUncharged
  <2> QED
    BY <1>0, <2>1, <2>2, NoneThrough
<1>4. ASSUME NEW r \in Requests, CheckChat(r) \/ CheckGenerate(r) PROVE Overdraft'
  <2>1. PICK h \in Row : /\ Rolls(h) /\ Checked(r, Refreshed(h)) /\ UNCHANGED unchecked
                         /\ h = row \/ (req[r].kind = "chat" /\ h = req[r].held)
    <3>1. CASE CheckChat(r)
      BY <1>0, <3>1 DEF CheckChat, Holding
    <3>2. CASE CheckGenerate(r)
      BY <1>0, <3>2 DEF CheckGenerate, Rolls, Refreshed, RolledOver
    <3> QED
      BY <1>4, <3>1, <3>2
  <2>2. ~outdated' => /\ ~outdated /\ row'.used <= row.used /\ row'.used \in Nat
                      /\ IF h.period < month THEN h = row /\ row'.used = 0 ELSE row' = row
    BY <2>1, RollsDown
  <2>3. CASE ~CanConsume(Refreshed(h), req[r].ask)
    <3>1. Through' \subseteq Through
      BY <2>1, <2>3, GotoThrough DEF Checked
    <3> QED
      BY <1>0, <2>1, <2>2, <3>1, NoneThrough
  <2>4. CASE outdated' \/ Limit = 0
    BY <1>0, <2>4 DEF Overdraft
  <2>5. CASE CanConsume(Refreshed(h), req[r].ask) /\ ~outdated' /\ Limit # 0
    <3>1. Refreshed(h).used + req[r].ask <= Limit
      BY <2>5 DEF CanConsume
    <3>2. req[r].ask \in Nat /\ Limit \in Nat
      <4>1. req[r].ask \in Questions \cup {0}
        BY <1>0 DEF Request
      <4> QED
        BY <4>1, UsageAssumption, NumbersAsked
    <3>3. CASE h.period < month \/ h = row
      <4>1. row'.used <= Limit
        BY <1>0, <2>2, <2>5, <3>1, <3>2, <3>3 DEF Refreshed
      <4> QED
        BY <1>0, <4>1, WithinLimit
    <3>4. CASE ~(h.period < month) /\ h # row
      <4>1. Refreshed(h) = h
        BY <3>4 DEF Refreshed
      <4>2. req[r].kind = "chat" /\ req[r].at = "admitted" /\ h = req[r].held
        BY <1>4, <2>1, <3>4 DEF CheckChat, CheckGenerate
      <4>3. r \in Through
        BY <3>1, <4>1, <4>2 DEF Through, Live, UnderWay, Turns
      <4>4. Through' \subseteq Through
        BY <2>1, <4>3, GotoThrough DEF Checked
      <4> QED
        BY <1>0, <2>1, <2>2, <4>4, NoneThrough
    <3> QED
      BY <3>3, <3>4
  <2> QED
    BY <2>3, <2>4, <2>5
<1>5. ASSUME NEW r \in Requests, ViewSubscription(r) PROVE Overdraft'
  <2>1. req[r].held \in Row /\ Rolls(req[r].held) /\ Goto(r, "over") /\ UNCHANGED unchecked
    BY <1>0, <1>5 DEF ViewSubscription, Holding
  <2>2. Through' \subseteq Through
    BY <2>1, GotoThrough
  <2>3. ~outdated' => ~outdated /\ row'.used <= row.used
    BY <2>1, RollsDown
  <2> QED
    BY <1>0, <2>1, <2>2, <2>3, NoneThrough
<1>6. ASSUME NEW r \in Requests, ChargeTurn(r) PROVE Overdraft'
  BY <1>0, <1>6, ChargeCovered
<1>7. ASSUME NEW r \in Requests, ChargeInsights(r) PROVE Overdraft'
  BY <1>0, <1>7 DEF ChargeInsights, Overdraft
<1> QED
  BY <1>1, <1>2, <1>3, <1>4, <1>5, <1>6, <1>7 DEF Next

\* The counter starts within the limit, with nothing under way.
LEMMA InitOverdraft == Init => Overdraft
<1> SUFFICES ASSUME Init PROVE Overdraft
  OBVIOUS
<1>1. Live = {} /\ Through = {}
  BY DEF Init, Absent, Live, Through, UnderWay
<1>2. Cardinality(Live) = 0 /\ Cardinality(Through) = 0
  BY <1>1, FS_EmptySet
<1>3. \E q \in Questions, a \in Answers : q + a \in Nat
  <2>1. PICK q \in Questions, a \in Answers : TRUE
    BY UsageAssumption
  <2>2. q + a \in Nat
    BY UsageAssumption
  <2> QED
    BY <2>2
<1>4. \E q \in Questions, a \in Answers : (peak - Cardinality(Through)) * (q + a) = 0
  BY <1>2, <1>3 DEF Init
<1>5. row.used <= Limit /\ row.used \in Nat
  BY UsageAssumption DEF Init
<1> QED
  BY <1>2, <1>4, <1>5, UsageAssumption DEF Overdraft, Init

\* A user goes over the limit by no more than the turns under way together cost,
\* however their checks, some on a row that is out of date, and their charges
\* interleave; unless a write was lost or insights, which check nothing, charged.
THEOREM OverdraftIsBounded == Spec => []OverdraftBounded
<1>1. Shape /\ Overdraft => OverdraftBounded
  <2> SUFFICES ASSUME Shape, Overdraft, Limit # 0, ~outdated, ~unchecked
               PROVE  \E q \in Questions, a \in Answers : row.used <= Limit + peak * (q + a)
    BY DEF OverdraftBounded
  <2>1. PICK q \in Questions, a \in Answers :
          row.used <= Limit + (peak - Cardinality(Through)) * (q + a)
    BY DEF Overdraft
  <2> DEFINE k == peak - Cardinality(Through)
  <2>2. k \in Nat /\ peak \in Nat /\ k <= peak
    BY Counts DEF Overdraft, Shape, TypeOK
  <2>3. row.used <= Limit + k * (q + a)
    BY <2>1
  <2> HIDE DEF k
  <2>4. q + a \in Nat /\ row.used \in Nat /\ Limit \in Nat
    BY UsageAssumption DEF Shape, TypeOK, Row
  <2>5. k * (q + a) \in Nat /\ k * (q + a) <= peak * (q + a) /\ peak * (q + a) \in Nat
    BY <2>2, <2>4, ProductGrows
  <2>6. row.used <= Limit + peak * (q + a)
    BY <2>3, <2>4, <2>5
  <2> QED
    BY <2>6
<1> QED
  BY <1>1, InitOverdraft, StepOverdraft, ShapeHolds, PTL DEF Spec
=============================================================================
