------------------------ MODULE CodeWorkspaceProofs ------------------------
(***************************************************************************)
(* Theorems about the two halves of the code workspace, for every set of   *)
(* files, texts, commands and outputs and every bound: the editor, with    *)
(* the server's copy and the agent's edits (CodeWorkspace), and the loop   *)
(* that runs the project (ExecutionOrchestrator).                          *)
(*                                                                         *)
(* The editor.  Shape types the state and says who may know of a file.     *)
(* Kept says that the lists of nodes that will replace the server's have   *)
(* all of its nodes, Showing that whatever is on its way about a file      *)
(* agrees with the server's copy or will be overwritten by what does, and  *)
(* Undoing that each open change, and the first edit of the next one, goes *)
(* back to the text the user last had.                                     *)
(*                                                                         *)
(* The loop.  LoopShape adds to the types that a frame waiting for a       *)
(* recovery points at the step that failed.  Budgets counts the recursion: *)
(* a retry is paid for by the frame that was popped before it, and a frame *)
(* by a plan; Ran follows the run plan through the recoveries to the       *)
(* success reported.                                                       *)
(***************************************************************************)
EXTENDS CodeWorkspace, ExecutionOrchestrator, SequenceTheorems, FiniteSetTheorems,
        WellFoundedInduction, TLAPS

(* Invariants. *)

TreeKinds == {"create", "refresh", "structure"}

\* A call about a file is about one that exists, and carries its text; a call
\* about the project carries nodes that exist, the open file among them.
SoundCall(r) ==
  /\ r.file \in born \cup {None} /\ r.nodes \subseteq born
  /\ r.kind \in Reads \cup Writes => r.file \in born
  /\ r.kind \in Reads /\ r.served => r.text \in Text
  /\ r.kind \in Writes => r.text \in Text
  /\ r.kind \in {"restore", "undone"} => changes[r.file] # None
  /\ r.kind \in TreeKinds => r.file \in r.nodes \cup {None}

\* Who knows of a file: nothing does before it exists.
Known ==
  /\ tree \subseteq born /\ nodes \subseteq born /\ deploy.nodes \subseteq born
  /\ serverOpen \in tree \cup {None} /\ deploy.file \in deploy.nodes \cup {None}
  /\ \A f \in Files : changes[f] # None \/ timers[f] # None => f \in born
  /\ Touched(agent.edits) \subseteq born

\* The n-th edit is its file's first.
IsFirst(edits, n) == \A m \in DOMAIN edits : m < n => edits[m].file # edits[n].file

\* The stream is part of a run: it carries edits of the run that have been told,
\* each file's first one, and Done last.
Streamed ==
  /\ agent.working \/ agent.edits # <<>> \/ agent.stream # <<>> => agent.running
  /\ agent.told <= Len(agent.edits)
  /\ \A i \in DOMAIN agent.stream :
       /\ agent.stream[i] = Done => i = Len(agent.stream) /\ ~agent.working
       /\ agent.stream[i] \notin {Done, ProjectChanged} =>
            \E n \in DOMAIN agent.edits : /\ n <= agent.told /\ IsFirst(agent.edits, n)
                                        /\ agent.edits[n] = agent.stream[i]
  /\ \A n \in DOMAIN agent.edits : agent.edits[n].created => IsFirst(agent.edits, n)

\* What is always so of the state: types, who knows of which file, what the
\* stream carries and what every call in flight carries.
Shape == TypeOK /\ Known /\ Streamed /\ \A r \in requests : SoundCall(r)

\* f's last edit in a list, if there is one, made it text; its first one, if
\* there is one, was made from text.
LastIs(edits, f, text) ==
  \A i \in DOMAIN edits :
    (edits[i].file = f /\ \A j \in DOMAIN edits : j > i => edits[j].file # f)
      => edits[i].new = text
FirstIs(edits, f, text) ==
  \A i \in DOMAIN edits :
    (edits[i].file = f /\ \A j \in DOMAIN edits : j < i => edits[j].file # f)
      => edits[i].previous = text

\* No "done" will repeat the run's edits.
Closing == ~agent.working /\ \A i \in DOMAIN agent.stream : agent.stream[i] # Done

\* What is on its way about f, and what the buffer holds, agree with the server.
Shows(f) ==
  /\ ~CrossedNow(f)
  /\ timers[f] # None => timers[f] = buffers[f]
  /\ \A r \in CallsOn(f) :
       /\ r.kind \in {"autosave", "save", "flush"} => r.text = buffers[f] \/ buffers[f] = None
       /\ r.kind \in {"reload", "undone"} /\ r.served => r.text = disk[f]
       /\ r.kind = "load" /\ r.served /\ buffers[f] = None => r.text = disk[f] \/ Streaming(f)
  /\ LastIs(agent.edits, f, disk[f])
  /\ Closing /\ f \in Touched(agent.stream) => Told(f)
  /\ Streaming(f) /\ f \notin Touched(agent.stream) /\ (Told(f) \/ Closing)
       => buffers[f] = disk[f]
  /\ (/\ buffers[f] # None /\ timers[f] = None /\ ~Streaming(f)
      /\ \A r \in CallsOn(f) : r.kind = "load")
       => InStep(f)

Showing == \A f \in Files \ crossed : Shows(f)

\* None of the run's edits of f has been told; all of them have.
Untold(f) == \A n \in DOMAIN agent.edits : agent.edits[n].file = f => n > agent.told
AllTold(f) == \A n \in DOMAIN agent.edits : agent.edits[n].file = f => n <= agent.told

\* The run has yet to deliver its first edit of f, if it has edited f.
Owed(f) == f \in Touched(agent.stream) \/ Untold(f)

\* original[f] is the text f's open change, or the next one, goes back to.
Undoes(f) ==
  /\ Pending(f) => changes[f].previous = original[f]
  /\ ~agent.working => AllTold(f)
  /\ ~Pending(f) => /\ FirstIs(agent.edits, f, original[f])
                    /\ original[f] # None <=> Streaming(f)
                    /\ Streaming(f) => Owed(f)
  /\ \A r \in CallsOn(f) :
       /\ r.kind = "restore" /\ Pending(f) => r.text = original[f]
       /\ r.kind = "undone" => ~Streaming(f) /\ (Pending(f) => disk[f] = original[f])

Undoing == \A f \in Files \ crossed : Undoes(f)

\* The run has made node g, and the editor will hear of it from the stream.
Heralded(g) ==
  \/ \E i \in DOMAIN agent.stream : /\ agent.stream[i] \notin {Done, ProjectChanged}
                                    /\ agent.stream[i].file = g /\ agent.stream[i].created
  \/ \E n \in DOMAIN agent.edits :
       n > agent.told /\ agent.edits[n].file = g /\ agent.edits[n].created

\* A run that has ended has told of every node it made.
BirthsTold ==
  ~agent.working => \A n \in DOMAIN agent.edits : agent.edits[n].created => n <= agent.told

\* Something on its way tells the editor of node g.
Announced(g) ==
  \/ Heralded(g)
  \/ \E r \in Calls({"create", "refresh"}) : ~r.served \/ g \in r.nodes

\* The lists of nodes that are about to replace the server's are the server's.
Kept ==
  ~overtaken =>
    /\ ~OvertakenNow
    /\ tree = born
    /\ \A r \in Calls({"structure"}) : r.nodes = tree
    /\ deploy.phase # "no" => deploy.nodes = tree
    /\ \A g \in tree \ nodes : Announced(g)
    /\ BirthsTold

-----------------------------------------------------------------------------
(* Texts, and lists of edits. *)

\* The texts: what is written is one, a missing one is none.
LEMMA TextFacts ==
  /\ Written \subseteq Text /\ Empty \in Written /\ Empty \in Text
  /\ Contents \subseteq Text /\ Stored \subseteq Text
  /\ None \notin Text /\ None \notin Written
  /\ \A f \in Files, text \in Text : Fetched(f, text) \in Text
BY EditorAssumption DEF Text, Written, Fetched

Event == Edit \cup {Done, ProjectChanged}

\* An event is an edit of a file, or one of two about no file.
LEMMA EventFacts ==
  /\ Done \notin Edit /\ Done.file = None
  /\ ProjectChanged \notin Edit /\ ProjectChanged.file = None /\ ProjectChanged # Done
  /\ Done \in Event /\ ProjectChanged \in Event
  /\ \A e \in Event : e \notin {Done, ProjectChanged} => e \in Edit
  /\ \A e \in Edit : e.file \in Files /\ e.file # None /\ e.previous \in Text /\ e.new \in Text
  /\ \A e \in Event, f \in Files : e.file = f => e \in Edit
<1>1. /\ Done.file = None /\ ProjectChanged.file = None
      /\ "created" \in DOMAIN ProjectChanged /\ "created" \notin DOMAIN Done
  BY DEF Done, ProjectChanged
<1>2. \A e \in Edit : e.file \in Files /\ e.file # None /\ e.previous \in Text /\ e.new \in Text
  BY EditorAssumption DEF Edit
<1> QED
  BY <1>1, <1>2, EditorAssumption DEF Event

\* A list that does not touch f says nothing of it.
LEMMA UntouchedList ==
  ASSUME NEW s, NEW f, f \notin Touched(s)
  PROVE  \A x : LastIs(s, f, x) /\ FirstIs(s, f, x)
BY DEF Touched, LastIs, FirstIs

\* The empty list touches nothing.
LEMMA EmptyList == Touched(<<>>) = {}
BY DEF Touched

\* One more event at the end of a list.
LEMMA AppendList ==
  ASSUME NEW s \in Seq(Event), NEW e \in Event, NEW f
  PROVE  /\ Touched(Append(s, e)) = Touched(s) \cup {e.file}
         /\ e.file = f => LastIs(Append(s, e), f, e.new)
         /\ e.file # f => \A x : LastIs(s, f, x) => LastIs(Append(s, e), f, x)
         /\ \A x : /\ FirstIs(s, f, x)
                   /\ e.file = f /\ f \notin Touched(s) => e.previous = x
                   => FirstIs(Append(s, e), f, x)
<1> DEFINE t == Append(s, e)
<1>1. /\ DOMAIN s = 1 .. Len(s) /\ DOMAIN t = 1 .. (Len(s) + 1) /\ Len(s) \in Nat
      /\ \A i \in 1 .. Len(s) : t[i] = s[i]
      /\ t[Len(s) + 1] = e
  BY AppendProperties, LenProperties
<1> HIDE DEF t
<1>2. Touched(t) = Touched(s) \cup {e.file}
  <2>1. \A i \in DOMAIN t : i \in DOMAIN s \/ i = Len(s) + 1
    BY <1>1
  <2>2. \A i \in DOMAIN s : i \in DOMAIN t /\ t[i] = s[i]
    BY <1>1
  <2>3. Len(s) + 1 \in DOMAIN t
    BY <1>1
  <2> QED
    BY <1>1, <2>1, <2>2, <2>3 DEF Touched
<1>3. e.file = f => LastIs(t, f, e.new)
  BY <1>1 DEF LastIs
<1>4. e.file # f => \A x : LastIs(s, f, x) => LastIs(t, f, x)
  BY <1>1 DEF LastIs
<1>5. ASSUME NEW x, FirstIs(s, f, x), e.file = f /\ f \notin Touched(s) => e.previous = x
      PROVE  FirstIs(t, f, x)
  <2> SUFFICES ASSUME NEW i \in DOMAIN t, t[i].file = f,
                      \A j \in DOMAIN t : j < i => t[j].file # f
               PROVE  t[i].previous = x
    BY DEF FirstIs
  <2>1. CASE i \in DOMAIN s
    BY <1>1, <1>5, <2>1 DEF FirstIs
  <2>2. CASE i = Len(s) + 1
    <3>1. f \notin Touched(s)
      BY <1>1, <2>2 DEF Touched
    <3> QED
      BY <1>1, <1>5, <2>2, <3>1
  <2> QED
    BY <1>1, <2>1, <2>2
<1> QED
  BY <1>2, <1>3, <1>4, <1>5 DEF t

\* A list without its first event.
LEMMA TailList ==
  ASSUME NEW s \in Seq(Event), s # <<>>, NEW f
  PROVE  /\ Head(s) \in Event /\ Tail(s) \in Seq(Event)
         /\ Touched(s) = {Head(s).file} \cup Touched(Tail(s))
         /\ \A x : LastIs(s, f, x) => LastIs(Tail(s), f, x)
         /\ \A x : LastIs(s, f, x) /\ Head(s).file = f /\ f \notin Touched(Tail(s))
                     => Head(s).new = x
         /\ Head(s).file # f => \A x : FirstIs(s, f, x) => FirstIs(Tail(s), f, x)
         /\ Head(s).file = f => \A x : FirstIs(s, f, x) => Head(s).previous = x
<1> DEFINE t == Tail(s)
<1>1. /\ Head(s) \in Event /\ t \in Seq(Event)
      /\ Len(s) \in Nat \ {0} /\ DOMAIN s = 1 .. Len(s) /\ DOMAIN t = 1 .. (Len(s) - 1)
      /\ \A i \in 1 .. (Len(s) - 1) : t[i] = s[i + 1]
      /\ Head(s) = s[1]
  BY HeadTailProperties, LenProperties, EmptySeq
<1> HIDE DEF t
<1>2. \A i \in DOMAIN t : i + 1 \in DOMAIN s /\ t[i] = s[i + 1]
  BY <1>1
<1>3. \A i \in DOMAIN s : i = 1 \/ (i - 1 \in DOMAIN t /\ t[i - 1] = s[i])
  BY <1>1
<1>4. Touched(s) = {Head(s).file} \cup Touched(t)
  BY <1>1, <1>2, <1>3 DEF Touched
<1>5. ASSUME NEW x, LastIs(s, f, x) PROVE LastIs(t, f, x)
  <2> SUFFICES ASSUME NEW i \in DOMAIN t, t[i].file = f,
                      \A j \in DOMAIN t : j > i => t[j].file # f
               PROVE  t[i].new = x
    BY DEF LastIs
  <2>1. ASSUME NEW j \in DOMAIN s, j > i + 1 PROVE s[j].file # f
    BY <1>1, <1>3, <2>1
  <2> QED
    BY <1>2, <1>5, <2>1 DEF LastIs
<1>6. ASSUME NEW x, LastIs(s, f, x), Head(s).file = f, f \notin Touched(t)
      PROVE  Head(s).new = x
  <2>1. \A j \in DOMAIN s : j > 1 => s[j].file # f
    BY <1>1, <1>3, <1>6 DEF Touched
  <2> QED
    BY <1>1, <1>6, <2>1 DEF LastIs
<1>7. ASSUME NEW x, FirstIs(s, f, x), Head(s).file # f PROVE FirstIs(t, f, x)
  <2> SUFFICES ASSUME NEW i \in DOMAIN t, t[i].file = f,
                      \A j \in DOMAIN t : j < i => t[j].file # f
               PROVE  t[i].previous = x
    BY DEF FirstIs
  <2>1. ASSUME NEW j \in DOMAIN s, j < i + 1 PROVE s[j].file # f
    BY <1>1, <1>3, <1>7, <2>1
  <2> QED
    BY <1>2, <1>7, <2>1 DEF FirstIs
<1>8. ASSUME NEW x, FirstIs(s, f, x), Head(s).file = f PROVE Head(s).previous = x
  <2>1. 1 \in DOMAIN s /\ \A j \in DOMAIN s : ~(j < 1)
    BY <1>1
  <2> QED
    BY <1>1, <1>8, <2>1 DEF FirstIs
<1> QED
  BY <1>1, <1>4, <1>5, <1>6, <1>7, <1>8 DEF t

-----------------------------------------------------------------------------
(* A list of edits, one after the other. *)

Below == {p \in Nat \X Nat : p[1] < p[2]}

\* Every set of numbers that is not empty has a least one.
LEMMA LeastNumber ==
  ASSUME NEW T, T \subseteq Nat, T # {} PROVE \E n \in T : \A m \in T : n <= m
<1>1. IsWellFoundedOn(Below, Nat)
  BY NatLessThanWellFounded DEF OpToRel, Below
<1>2. PICK n \in T : \A m \in T : <<m, n>> \notin Below
  BY <1>1, WFMin
<1>3. \A m, k \in Nat : <<m, k>> \notin Below => k <= m
  BY DEF Below
<1>4. ASSUME NEW m \in T PROVE n <= m
  <2>1. n \in Nat /\ m \in Nat
    OBVIOUS
  <2> QED
    BY <1>2, <1>3, <2>1
<1> QED
  BY <1>4

Start == [changes |-> changes, buffers |-> buffers]

\* The recursive function of Pages exists on a list, ...
LEMMA PagesExist ==
  ASSUME NEW s \in Seq(Edit), NEW n \in 0 .. Len(s)
  PROVE  \E p : p = [i \in 0 .. n |-> IF i = 0 THEN Start
                                      ELSE HandleAgentChange(p[i - 1], s[i])]
<1> DEFINE Good(m) == \E p : p = [i \in 0 .. m |-> IF i = 0 THEN Start
                                             ELSE HandleAgentChange(p[i - 1], s[i])]
           Bad == {m \in 0 .. Len(s) : ~Good(m)}
<1>1. Good(0)
  <2> DEFINE p == [i \in 0 .. 0 |-> Start]
  <2>1. p = [i \in 0 .. 0 |-> IF i = 0 THEN Start ELSE HandleAgentChange(p[i - 1], s[i])]
    OBVIOUS
  <2> QED
    BY <2>1
<1>2. ASSUME NEW m \in 0 .. Len(s), m # 0, Good(m - 1) PROVE Good(m)
  <2>1. PICK p : p = [i \in 0 .. (m - 1) |-> IF i = 0 THEN Start
                                             ELSE HandleAgentChange(p[i - 1], s[i])]
    BY <1>2
  <2> DEFINE u == [i \in 0 .. m |-> IF i = m THEN HandleAgentChange(p[m - 1], s[m]) ELSE p[i]]
  <2>2. \A i \in 0 .. m : u[i] = IF i = 0 THEN Start ELSE HandleAgentChange(u[i - 1], s[i])
    BY <1>2, <2>1
  <2>3. u = [i \in 0 .. m |-> u[i]]
    OBVIOUS
  <2>4. u = [i \in 0 .. m |-> IF i = 0 THEN Start ELSE HandleAgentChange(u[i - 1], s[i])]
    <3> HIDE DEF u
    <3> QED
      BY <2>2, <2>3
  <2> QED
    BY <2>4
<1> SUFFICES ASSUME Bad # {} PROVE FALSE
  OBVIOUS
<1>3. PICK m \in Bad : \A k \in Bad : m <= k
  <2>1. Bad \subseteq Nat
    BY LenProperties
  <2> QED
    BY <2>1, LeastNumber
<1> HIDE DEF Good
<1>4. m # 0 /\ m - 1 \in 0 .. Len(s) /\ m - 1 \notin Bad
  BY <1>1, <1>3, LenProperties
<1> QED
  BY <1>2, <1>3, <1>4

\* ... so each page comes from the one before.
LEMMA PagesDef ==
  ASSUME NEW s \in Seq(Edit)
  PROVE  /\ Pages(s)[0] = Start
         /\ \A n \in 1 .. Len(s) : Pages(s)[n] = HandleAgentChange(Pages(s)[n - 1], s[n])
<1>0. Len(s) \in Nat
  BY LenProperties
<1>1. \E p : p = [i \in 0 .. Len(s) |-> IF i = 0 THEN Start
                                        ELSE HandleAgentChange(p[i - 1], s[i])]
  BY <1>0, PagesExist
<1>2. Pages(s) = [i \in 0 .. Len(s) |-> IF i = 0 THEN Start
                                        ELSE HandleAgentChange(Pages(s)[i - 1], s[i])]
  BY <1>1 DEF Pages, Start
<1> QED
  BY <1>0, <1>2

Records == [Files -> Change \cup {None}]
Buffers == [Files -> Text \cup {None}]

\* Two records of a change that differ in the new text only.
Alike(c, d) == /\ c = None <=> d = None
               /\ d # None => c.previous = d.previous /\ c.status = d.status

\* Backfilling completes new texts and changes nothing else.
LEMMA BackfilledFacts ==
  ASSUME NEW records \in Records, NEW texts \in Buffers
  PROVE  /\ Backfilled(records, texts) \in Records
         /\ \A f \in Files : Alike(Backfilled(records, texts)[f], records[f])
<1>1. ASSUME NEW f \in Files
      PROVE  /\ Backfilled(records, texts)[f] \in Change \cup {None}
             /\ Alike(Backfilled(records, texts)[f], records[f])
  <2> DEFINE c == records[f]
             d == [c EXCEPT !.new = texts[f]]
  <2>1. Backfilled(records, texts)[f] \in {c, d}
    BY DEF Backfilled
  <2>2. CASE Backfilled(records, texts)[f] = c
    BY <2>2 DEF Alike, Records
  <2>3. CASE Backfilled(records, texts)[f] = d /\ c # None /\ texts[f] # None
    <3>1. c \in Change /\ texts[f] \in Text
      BY <2>3 DEF Records, Buffers
    <3>2. d \in Change /\ d.previous = c.previous /\ d.status = c.status
      BY <3>1 DEF Change
    <3> QED
      BY <2>3, <3>2, EditorAssumption DEF Alike
  <2> QED
    BY <2>1, <2>2, <2>3 DEF Backfilled
<1> QED
  BY <1>1 DEF Records, Backfilled

\* What an edit does to the page: the file's buffer is the new text, and its
\* change is pending and goes back to where an open one would have gone.
LEMMA HandleFacts ==
  ASSUME NEW p, p.changes \in Records, p.buffers \in Buffers, NEW e \in Edit
  PROVE  LET q == HandleAgentChange(p, e)
             old == p.changes[e.file]
         IN /\ q.changes \in Records /\ q.buffers \in Buffers
            /\ \A f \in Files : f # e.file => /\ q.buffers[f] = p.buffers[f]
                                              /\ Alike(q.changes[f], p.changes[f])
            /\ q.buffers[e.file] = e.new
            /\ q.changes[e.file] # None /\ q.changes[e.file].status = "pending"
            /\ q.changes[e.file].previous =
                 IF old # None /\ old.status = "pending" THEN old.previous ELSE e.previous
<1> DEFINE f == e.file
           old == p.changes[f]
           texts == [p.buffers EXCEPT ![f] = e.new]
           record == [previous |-> IF old # None /\ old.status = "pending"
                                   THEN old.previous ELSE e.previous,
                      new |-> e.new, status |-> "pending"]
           records == [p.changes EXCEPT ![f] = record]
<1>1. f \in Files /\ e.new \in Text /\ e.previous \in Text
  BY EventFacts
<1>2. old \in Change \cup {None}
  BY <1>1 DEF Records
<1>3. record \in Change /\ record # None
  BY <1>1, <1>2, EditorAssumption DEF Change
<1>4. texts \in Buffers /\ records \in Records
  BY <1>1, <1>3 DEF Buffers, Records
<1>5. HandleAgentChange(p, e) = [changes |-> Backfilled(records, texts), buffers |-> texts]
  BY DEF HandleAgentChange
<1>6. /\ texts[f] = e.new /\ records[f] = record
      /\ \A g \in Files : g # f => texts[g] = p.buffers[g] /\ records[g] = p.changes[g]
  BY <1>1 DEF Buffers, Records
<1>7. /\ record.status = "pending"
      /\ record.previous = IF old # None /\ old.status = "pending" THEN old.previous
                           ELSE e.previous
  OBVIOUS
<1> HIDE DEF texts, records, record
<1> QED
  BY <1>1, <1>3, <1>4, <1>5, <1>6, <1>7, BackfilledFacts DEF Alike

\* After the first n edits, the page of a file they touch comes from the last
\* one and, if it had no open change, goes back to before the first one.
Paged(s, n, f) ==
  LET p == Pages(s)[n]
  IN \/ /\ \A i \in 1 .. n : s[i].file # f
        /\ p.buffers[f] = buffers[f] /\ Alike(p.changes[f], changes[f])
     \/ /\ \E i \in 1 .. n : /\ s[i].file = f /\ p.buffers[f] = s[i].new
                             /\ \A j \in 1 .. n : j > i => s[j].file # f
        /\ p.changes[f] # None /\ p.changes[f].status = "pending"
        /\ \E i \in 1 .. n : /\ s[i].file = f
                             /\ \A j \in 1 .. n : j < i => s[j].file # f
                             /\ p.changes[f].previous = IF Pending(f) THEN changes[f].previous
                                                        ELSE s[i].previous

\* One more edit keeps this.
LEMMA PagedStep ==
  ASSUME NEW s \in Seq(Edit), NEW n \in 1 .. Len(s), NEW f \in Files, Paged(s, n - 1, f),
         Pages(s)[n - 1].changes \in Records, Pages(s)[n - 1].buffers \in Buffers
  PROVE  Paged(s, n, f)
<1> DEFINE p == Pages(s)[n - 1]
           q == Pages(s)[n]
<1>1. q = HandleAgentChange(p, s[n]) /\ s[n] \in Edit
  BY PagesDef, ElementOfSeq
<1>2. /\ n \in Nat /\ n - 1 \in Nat /\ n \in 1 .. n
      /\ \A i \in 1 .. n : i = n \/ i \in 1 .. (n - 1)
      /\ \A i \in 1 .. (n - 1) : i \in 1 .. n /\ i < n
  BY LenProperties
<1>3. /\ f # s[n].file => q.buffers[f] = p.buffers[f] /\ Alike(q.changes[f], p.changes[f])
      /\ f = s[n].file => /\ q.buffers[f] = s[n].new
                          /\ q.changes[f] # None /\ q.changes[f].status = "pending"
                          /\ q.changes[f].previous =
                               IF p.changes[f] # None /\ p.changes[f].status = "pending"
                               THEN p.changes[f].previous ELSE s[n].previous
  <2> DEFINE e == s[n]
             h == HandleAgentChange(p, e)
             old == p.changes[e.file]
  <2>1. p.changes \in Records /\ p.buffers \in Buffers /\ e \in Edit /\ q = h
    BY <1>1
  <2> HIDE DEF p, q, e
  <2>2. /\ \A g \in Files : g # e.file => /\ h.buffers[g] = p.buffers[g]
                                          /\ Alike(h.changes[g], p.changes[g])
        /\ h.buffers[e.file] = e.new
        /\ h.changes[e.file] # None /\ h.changes[e.file].status = "pending"
        /\ h.changes[e.file].previous =
             IF old # None /\ old.status = "pending" THEN old.previous ELSE e.previous
    BY <2>1, HandleFacts
  <2>3. e = s[n]
    BY DEF e
  <2> QED
    BY <2>1, <2>2, <2>3
<1> HIDE DEF p, q
<1>4. Paged(s, n - 1, f) /\ p = Pages(s)[n - 1] /\ q = Pages(s)[n]
  BY DEF p, q
<1>5. CASE f # s[n].file
  <2>1. CASE \A i \in 1 .. (n - 1) : s[i].file # f
    <3>1. p.buffers[f] = buffers[f] /\ Alike(p.changes[f], changes[f])
      BY <1>4, <2>1 DEF Paged
    <3> QED
      BY <1>2, <1>3, <1>4, <1>5, <2>1, <3>1 DEF Paged, Alike
  <2>2. CASE \E i \in 1 .. (n - 1) : s[i].file = f
    <3>1. PICK i \in 1 .. (n - 1) : /\ s[i].file = f /\ p.buffers[f] = s[i].new
                                    /\ \A j \in 1 .. (n - 1) : j > i => s[j].file # f
      BY <1>4, <2>2 DEF Paged
    <3>2. /\ p.changes[f] # None /\ p.changes[f].status = "pending"
          /\ \E k \in 1 .. (n - 1) :
               /\ s[k].file = f
               /\ \A j \in 1 .. (n - 1) : j < k => s[j].file # f
               /\ p.changes[f].previous = IF Pending(f) THEN changes[f].previous
                                          ELSE s[k].previous
      BY <1>4, <2>2 DEF Paged
    <3>3. PICK k \in 1 .. (n - 1) :
               /\ s[k].file = f
               /\ \A j \in 1 .. (n - 1) : j < k => s[j].file # f
               /\ p.changes[f].previous = IF Pending(f) THEN changes[f].previous
                                          ELSE s[k].previous
      BY <3>2
    <3>4. /\ q.changes[f] # None /\ q.changes[f].status = "pending"
          /\ q.changes[f].previous = p.changes[f].previous /\ q.buffers[f] = p.buffers[f]
      BY <1>3, <1>5, <3>2 DEF Alike
    <3>5. \A j \in 1 .. n : j > i => s[j].file # f
      BY <1>2, <1>5, <3>1
    <3>6. \A j \in 1 .. n : j < k => s[j].file # f
      BY <1>2, <1>5, <3>3
    <3>7. i \in 1 .. n /\ k \in 1 .. n
      BY <1>2
    <3> QED
      BY <1>4, <3>1, <3>3, <3>4, <3>5, <3>6, <3>7 DEF Paged
  <2> QED
    BY <2>1, <2>2
<1>6. CASE f = s[n].file
  <2>1. \A j \in 1 .. n : ~(j > n)
    BY <1>2
  <2>2. \E i \in 1 .. n : /\ s[i].file = f /\ q.buffers[f] = s[i].new
                          /\ \A j \in 1 .. n : j > i => s[j].file # f
    BY <1>2, <1>3, <1>6, <2>1
  <2>3. CASE \A i \in 1 .. (n - 1) : s[i].file # f
    <3>1. Alike(p.changes[f], changes[f])
      BY <1>4, <2>3 DEF Paged
    <3>2. q.changes[f].previous = IF Pending(f) THEN changes[f].previous ELSE s[n].previous
      BY <1>3, <1>6, <3>1 DEF Pending, Alike
    <3>3. \A j \in 1 .. n : j < n => s[j].file # f
      BY <1>2, <2>3
    <3> QED
      BY <1>2, <1>3, <1>4, <1>6, <2>2, <3>2, <3>3 DEF Paged
  <2>4. CASE \E i \in 1 .. (n - 1) : s[i].file = f
    <3>1. /\ p.changes[f] # None /\ p.changes[f].status = "pending"
          /\ \E k \in 1 .. (n - 1) :
               /\ s[k].file = f
               /\ \A j \in 1 .. (n - 1) : j < k => s[j].file # f
               /\ p.changes[f].previous = IF Pending(f) THEN changes[f].previous
                                          ELSE s[k].previous
      BY <1>4, <2>4 DEF Paged
    <3>2. PICK k \in 1 .. (n - 1) :
               /\ s[k].file = f
               /\ \A j \in 1 .. (n - 1) : j < k => s[j].file # f
               /\ p.changes[f].previous = IF Pending(f) THEN changes[f].previous
                                          ELSE s[k].previous
      BY <3>1
    <3>3. k \in 1 .. n /\ \A j \in 1 .. n : j < k => s[j].file # f
      BY <1>2, <3>2
    <3> QED
      BY <1>3, <1>4, <1>6, <2>2, <3>1, <3>2, <3>3 DEF Paged
  <2> QED
    BY <2>3, <2>4
<1> QED
  BY <1>5, <1>6

\* So it holds of the whole list.
LEMMA PagedAll ==
  ASSUME changes \in Records, buffers \in Buffers, NEW s \in Seq(Edit)
  PROVE  LET p == Pages(s)[Len(s)]
         IN p.changes \in Records /\ p.buffers \in Buffers /\ \A f \in Files : Paged(s, Len(s), f)
<1> DEFINE Good(n) == /\ Pages(s)[n].changes \in Records /\ Pages(s)[n].buffers \in Buffers
                      /\ \A f \in Files : Paged(s, n, f)
           Bad == {n \in 0 .. Len(s) : ~Good(n)}
<1>0. Len(s) \in Nat
  BY LenProperties
<1>1. Good(0)
  BY PagesDef DEF Paged, Start, Alike
<1>2. ASSUME NEW n \in 1 .. Len(s), Good(n - 1) PROVE Good(n)
  <2>1. \A f \in Files : Paged(s, n, f)
    BY <1>2, PagedStep
  <2>2. Pages(s)[n] = HandleAgentChange(Pages(s)[n - 1], s[n]) /\ s[n] \in Edit
    BY PagesDef, ElementOfSeq
  <2>3. Pages(s)[n].changes \in Records /\ Pages(s)[n].buffers \in Buffers
    BY <1>2, <2>2, HandleFacts
  <2> QED
    BY <2>1, <2>3
<1>3. Bad = {}
  <2> SUFFICES ASSUME Bad # {} PROVE FALSE
    OBVIOUS
  <2>1. PICK n \in Bad : \A k \in Bad : n <= k
    <3>1. Bad \subseteq Nat
      BY <1>0
    <3> QED
      BY <3>1, LeastNumber
  <2> HIDE DEF Good
  <2>2. n \in 1 .. Len(s) /\ n - 1 \in 0 .. Len(s) /\ n - 1 \notin Bad
    BY <1>0, <1>1, <2>1
  <2> QED
    BY <1>2, <2>1, <2>2
<1>4. Len(s) \in 0 .. Len(s)
  BY <1>0
<1> QED
  BY <1>3, <1>4

\* What delivering a list of edits does to a file: one they do not touch is
\* left alone; the buffer of one they do is the text its last edit made, and
\* its change is open, goes back to where it went back to before, or to the
\* text its first edit was made from.
LEMMA DeliversFacts ==
  ASSUME changes \in Records, buffers \in Buffers, NEW s \in Seq(Edit), NEW calls,
         Delivers(s, calls)
  PROVE  /\ changes' \in Records /\ buffers' \in Buffers
         /\ \A f \in Files \ Touched(s) :
              buffers'[f] = buffers[f] /\ Alike(changes'[f], changes[f])
         /\ \A f \in Files \cap Touched(s) :
              /\ buffers'[f] \in Text /\ changes'[f] # None /\ changes'[f].status = "pending"
              /\ \A x : LastIs(s, f, x) => buffers'[f] = x
              /\ Pending(f) => changes'[f].previous = changes[f].previous
              /\ ~Pending(f) => \A x : FirstIs(s, f, x) => changes'[f].previous = x
<1> DEFINE p == Pages(s)[Len(s)]
<1>1. changes' = p.changes /\ buffers' = p.buffers
  BY DEF Delivers
<1>2. p.changes \in Records /\ p.buffers \in Buffers /\ \A f \in Files : Paged(s, Len(s), f)
  BY PagedAll
<1> HIDE DEF p
<1>3. DOMAIN s = 1 .. Len(s) /\ \A i \in 1 .. Len(s) : s[i] \in Edit
  BY LenProperties, ElementOfSeq
<1>4. ASSUME NEW f \in Files \ Touched(s)
      PROVE  buffers'[f] = buffers[f] /\ Alike(changes'[f], changes[f])
  <2>1. \A i \in 1 .. Len(s) : s[i].file # f
    BY <1>3 DEF Touched
  <2> QED
    BY <1>1, <1>2, <2>1 DEF Paged, p
<1>5. ASSUME NEW f \in Files \cap Touched(s)
      PROVE  /\ buffers'[f] \in Text /\ changes'[f] # None /\ changes'[f].status = "pending"
             /\ \A x : LastIs(s, f, x) => buffers'[f] = x
             /\ Pending(f) => changes'[f].previous = changes[f].previous
             /\ ~Pending(f) => \A x : FirstIs(s, f, x) => changes'[f].previous = x
  <2>1. ~\A i \in 1 .. Len(s) : s[i].file # f
    BY <1>3 DEF Touched
  <2>2. PICK i \in 1 .. Len(s) : /\ s[i].file = f /\ p.buffers[f] = s[i].new
                                 /\ \A j \in 1 .. Len(s) : j > i => s[j].file # f
    BY <1>2, <2>1 DEF Paged, p
  <2>3. /\ p.changes[f] # None /\ p.changes[f].status = "pending"
        /\ \E k \in 1 .. Len(s) :
             /\ s[k].file = f
             /\ \A j \in 1 .. Len(s) : j < k => s[j].file # f
             /\ p.changes[f].previous = IF Pending(f) THEN changes[f].previous ELSE s[k].previous
    BY <1>2, <2>1 DEF Paged, p
  <2>4. \A x : LastIs(s, f, x) => p.buffers[f] = x
    BY <1>3, <2>2 DEF LastIs
  <2>5. ~Pending(f) => \A x : FirstIs(s, f, x) => p.changes[f].previous = x
    BY <1>3, <2>3 DEF FirstIs
  <2>6. p.buffers[f] \in Text
    BY <1>3, <2>2 DEF Edit
  <2> QED
    BY <1>1, <2>3, <2>4, <2>5, <2>6
<1> QED
  BY <1>1, <1>2, <1>4, <1>5

-----------------------------------------------------------------------------
(* Types. *)

\* Editor records and buffers have the types the lemmas above speak of.
LEMMA TypedPage ==
  ASSUME TypeOK
  PROVE  /\ changes \in Records /\ buffers \in Buffers
         /\ agent.edits \in Seq(Edit) /\ agent.edits \in Seq(Event)
         /\ agent.stream \in Seq(Event)
BY SeqMonotonic DEF TypeOK, Records, Buffers, Event

\* A call about a file that exists is a sound call.
LEMMA NewFileCall ==
  ASSUME NEW kind \in Reads \cup Writes, NEW f \in born', f \in Files,
         NEW text \in Text \cup {None}, kind \in Writes => text \in Text,
         kind \in {"restore", "undone"} => changes'[f] # None
  PROVE  FileCall(kind, f, text) \in Request /\ SoundCall(FileCall(kind, f, text))'
BY DEF FileCall, Request, SoundCall, Reads, Writes, TreeKinds

\* So is a call about the project that carries nodes that exist.
LEMMA NewTreeCall ==
  ASSUME NEW kind \in TreeKinds, NEW S \in SUBSET Files, S \subseteq born',
         NEW f \in S \cup {None}
  PROVE  TreeCall(kind, S, f) \in Request /\ SoundCall(TreeCall(kind, S, f))'
BY DEF TreeCall, Request, SoundCall, Reads, Writes, TreeKinds

\* Calls that are left stay sound: files do not cease to exist, nor changes.
LEMMA CallsStaySound ==
  ASSUME Shape, born \subseteq born',
         \A f \in Files : changes[f] # None => changes'[f] # None
  PROVE  \A r \in requests : r \in Request /\ SoundCall(r)'
<1> SUFFICES ASSUME NEW r \in requests PROVE r \in Request /\ SoundCall(r)'
  OBVIOUS
<1>1. r \in Request /\ SoundCall(r)
  BY DEF Shape, TypeOK
<1>2. r.kind \in {"restore", "undone"} => r.file \in Files /\ changes[r.file] # None
  BY <1>1 DEF SoundCall, Shape, Known, TypeOK, Reads, Writes
<1> QED
  BY <1>1, <1>2 DEF SoundCall

\* The load of a file that exists.
LEMMA LoadsAreSound ==
  ASSUME NEW f, f = None \/ (f \in Files /\ f \in born'), NEW texts
  PROVE  \A r \in LoadOf(f, texts) : r \in Request /\ SoundCall(r)'
BY NewFileCall DEF LoadOf, Reads, Writes

\* Everything that exists keeps existing.
LEMMA NoteFacts ==
  ASSUME NEW more, NEW lost, Note(more, lost)
  PROVE  /\ born' = born \cup tree' /\ crossed \cup more \subseteq crossed'
         /\ \A f \in Files :
              f \notin crossed' => f \notin crossed /\ f \notin more /\ ~CrossedNow(f)'
         /\ ~overtaken' => ~overtaken /\ ~lost /\ ~OvertakenNow'
         /\ crossed \subseteq Files /\ more \subseteq Files => crossed' \subseteq Files
         /\ overtaken \in BOOLEAN /\ lost \in BOOLEAN => overtaken' \in BOOLEAN
BY DEF Note, OvertakenNow

\* What Note leaves of an action's step.
Noted == born' = born \cup tree' /\ crossed' \subseteq Files /\ overtaken' \in BOOLEAN

\* The notes an action takes have their types.
LEMMA NoteTypes ==
  ASSUME Shape, NEW more \in SUBSET Files, NEW lost \in BOOLEAN, Note(more, lost)
  PROVE  Noted
BY NoteFacts DEF Noted, Shape, TypeOK

\* The calls that are left, when no change is taken back.
LEMMA QuietCalls ==
  ASSUME Shape, Noted, UNCHANGED changes
  PROVE  \A r \in requests : r \in Request /\ SoundCall(r)'
BY CallsStaySound DEF Noted

\* The limits of a session hold in the next state too.
Counted == session' \in Sessions /\ acts' \in 0 .. MaxActs

SoundCalls == requests' \subseteq Request /\ \A r \in requests' : SoundCall(r)'

\* What a step that leaves the agent and the changes alone has to keep.
QuietStep ==
  /\ UNCHANGED <<agent, changes, original>>
  /\ disk' \in [Files -> Text] /\ buffers' \in Buffers /\ timers' \in Buffers
  /\ \A f \in Files : timers'[f] # None => timers[f] # None
  /\ tree' \subseteq Files /\ serverOpen' \in tree' \cup {None}
  /\ nodes' \subseteq Files /\ nodes' \subseteq born' /\ active' \in nodes' \cup {None}
  /\ structureTimer' \in BOOLEAN /\ busy' \in Files \cup {None}
  /\ deploy' \in [phase : {"no", "files", "structure", "build"},
                  nodes : SUBSET Files, file : Files \cup {None}]
  /\ deploy'.nodes \subseteq born' /\ deploy'.file \in deploy'.nodes \cup {None}

\* So a step that rests the agent and the changes keeps Shape, ...
LEMMA QuietShape ==
  ASSUME Shape, Counted, Noted, SoundCalls, QuietStep
  PROVE  Shape'
<1>1. TypeOK'
  BY DEF TypeOK, Shape, Counted, Noted, SoundCalls, QuietStep, Buffers
<1>2. Known'
  BY DEF Known, Shape, Noted, QuietStep
<1>3. Streamed'
  BY DEF Streamed, Shape, QuietStep
<1> QED
  BY <1>1, <1>2, <1>3 DEF Shape, SoundCalls

\* The editor's part of a quiet step, when the server and the deploy rest.
EditorStep ==
  /\ UNCHANGED <<disk, tree, serverOpen, deploy, agent, changes, original>>
  /\ buffers' \in Buffers /\ timers' \in Buffers
  /\ \A f \in Files : timers'[f] # None => timers[f] # None
  /\ nodes' \subseteq Files /\ nodes' \subseteq born' /\ active' \in nodes' \cup {None}
  /\ structureTimer' \in BOOLEAN /\ busy' \in Files \cup {None}

\* ... one of the editor's alone does, ...
LEMMA EditorShape ==
  ASSUME Shape, Counted, Noted, SoundCalls, EditorStep
  PROVE  Shape'
<1>1. QuietStep
  BY DEF QuietStep, EditorStep, Shape, TypeOK, Known, Noted
<1> QED
  BY <1>1, QuietShape

\* The server's part, when the editor and the deploy rest.
ServerRow ==
  /\ UNCHANGED <<buffers, nodes, active, structureTimer, deploy, agent, changes, original>>
  /\ timers' \in Buffers /\ \A f \in Files : timers'[f] # None => timers[f] # None
  /\ busy' \in Files \cup {None}
  /\ disk' \in [Files -> Text]
  /\ tree' \subseteq Files /\ serverOpen' \in tree' \cup {None}

\* ... and one of the server's alone.
LEMMA ServerShape ==
  ASSUME Shape, Counted, Noted, SoundCalls, ServerRow
  PROVE  Shape'
<1>1. QuietStep
  BY DEF QuietStep, ServerRow, Shape, TypeOK, Known, Noted, Buffers
<1> QED
  BY <1>1, QuietShape

\* Shape: the user's clicks that make calls, and the two autosave timers.
LEMMA CallingShape ==
  ASSUME Shape, Counted,
         \/ \E f \in Files : OpenFile(f) \/ RejectChange(f) \/ AutosaveFires(f)
         \/ CloseTab \/ PrepareSearch \/ SaveFile \/ CreateFile \/ StructureTimerFires
  PROVE  Shape'
<1>t. TypeOK /\ Known /\ changes \in Records /\ buffers \in Buffers /\ timers \in Buffers
  BY DEF Shape, TypeOK, Records, Buffers
<1>1. ASSUME NEW f \in Files, OpenFile(f) PROVE Shape'
  <2>1. Noted
    BY <1>1, NoteTypes DEF OpenFile
  <2>2. \A r \in requests : r \in Request /\ SoundCall(r)'
    BY <1>1, <2>1, QuietCalls DEF OpenFile, reviewVars
  <2>3. \A r \in LoadOf(f, buffers) : r \in Request /\ SoundCall(r)'
    <3>1. f \in born'
      BY <1>1, <1>t, <2>1 DEF OpenFile, Noted, Known
    <3> QED
      BY <3>1, LoadsAreSound
  <2>4. SoundCalls
    BY <1>1, <2>2, <2>3 DEF OpenFile, SoundCalls
  <2>5. EditorStep
    BY <1>1, <1>t, <2>1
       DEF OpenFile, EditorStep, Noted, TypeOK, Known, serverVars, editorVars, reviewVars
  <2> QED
    BY <2>1, <2>4, <2>5, EditorShape
<1>2. ASSUME CloseTab PROVE Shape'
  <2>1. Noted
    BY <1>2, NoteTypes DEF CloseTab
  <2>2. \A r \in requests : r \in Request /\ SoundCall(r)'
    BY <1>2, <2>1, QuietCalls DEF CloseTab, reviewVars
  <2>3. SoundCalls
    BY <1>2, <2>2 DEF CloseTab, SoundCalls
  <2>4. EditorStep
    BY <1>2, <1>t, <2>1
       DEF CloseTab, EditorStep, Noted, TypeOK, Known, serverVars, editorVars, reviewVars
  <2> QED
    BY <2>1, <2>3, <2>4, EditorShape
<1>3. ASSUME PrepareSearch PROVE Shape'
  <2>1. Noted
    BY <1>3, NoteTypes DEF PrepareSearch
  <2>2. \A r \in requests : r \in Request /\ SoundCall(r)'
    BY <1>3, <2>1, QuietCalls DEF PrepareSearch, reviewVars
  <2>3. ASSUME NEW f \in nodes PROVE \A r \in LoadOf(f, buffers) : r \in Request /\ SoundCall(r)'
    <3>1. f \in Files /\ f \in born'
      BY <1>t, <2>1 DEF Noted, Known, TypeOK
    <3> QED
      BY <3>1, LoadsAreSound
  <2>4. SoundCalls
    BY <1>3, <2>2, <2>3 DEF PrepareSearch, SoundCalls
  <2>5. EditorStep
    BY <1>3, <1>t, <2>1
       DEF PrepareSearch, EditorStep, Noted, TypeOK, Known, serverVars, editorVars, reviewVars
  <2> QED
    BY <2>1, <2>4, <2>5, EditorShape
<1>4. ASSUME SaveFile PROVE Shape'
  <2>1. Noted
    BY <1>4, NoteTypes DEF SaveFile
  <2>2. \A r \in requests : r \in Request /\ SoundCall(r)'
    BY <1>4, <2>1, QuietCalls DEF SaveFile, reviewVars
  <2>3. \A r \in {FileCall("save", active, buffers[active])} :
          r \in Request /\ SoundCall(r)'
    <3>1. active \in Files /\ active \in born' /\ buffers[active] \in Text
      BY <1>4, <1>t, <2>1 DEF SaveFile, Noted, Known, TypeOK, Buffers
    <3> QED
      BY <3>1, NewFileCall DEF Reads, Writes
  <2>4. SoundCalls
    BY <1>4, <2>2, <2>3 DEF SaveFile, SoundCalls
  <2>5. EditorStep
    BY <1>4, <1>t, <2>1
       DEF SaveFile, EditorStep, Noted, TypeOK, Known, serverVars, editorVars, reviewVars,
           Buffers
  <2> QED
    BY <2>1, <2>4, <2>5, EditorShape
<1>5. ASSUME CreateFile PROVE Shape'
  <2>1. Noted
    BY <1>5, NoteTypes DEF CreateFile
  <2>2. \A r \in requests : r \in Request /\ SoundCall(r)'
    BY <1>5, <2>1, QuietCalls DEF CreateFile, reviewVars
  <2>3. \A r \in {TreeCall("create", {}, None)} :
          r \in Request /\ SoundCall(r)'
    BY NewTreeCall DEF TreeKinds
  <2>4. SoundCalls
    BY <1>5, <2>2, <2>3 DEF CreateFile, SoundCalls
  <2>5. EditorStep
    BY <1>5, <1>t, <2>1
       DEF CreateFile, EditorStep, Noted, TypeOK, Known, serverVars, editorVars, reviewVars
  <2> QED
    BY <2>1, <2>4, <2>5, EditorShape
<1>6. ASSUME StructureTimerFires PROVE Shape'
  <2>1. Noted
    BY <1>6, NoteTypes DEF StructureTimerFires
  <2>2. \A r \in requests : r \in Request /\ SoundCall(r)'
    BY <1>6, <2>1, QuietCalls DEF StructureTimerFires, reviewVars
  <2>3. \A r \in {TreeCall("structure", nodes, active)} :
          r \in Request /\ SoundCall(r)'
    <3>1. nodes \subseteq Files /\ nodes \subseteq born' /\ active \in nodes \cup {None}
      BY <1>t, <2>1 DEF Noted, Known, TypeOK
    <3> QED
      BY <3>1, NewTreeCall DEF TreeKinds
  <2>4. SoundCalls
    BY <1>6, <2>2, <2>3 DEF StructureTimerFires, SoundCalls
  <2>5. EditorStep
    BY <1>6, <1>t, <2>1
       DEF StructureTimerFires, EditorStep, Noted, TypeOK, Known, serverVars, editorVars,
           reviewVars
  <2> QED
    BY <2>1, <2>4, <2>5, EditorShape
<1>7. ASSUME NEW f \in Files, RejectChange(f) PROVE Shape'
  <2>1. Noted
    BY <1>7, NoteTypes DEF RejectChange
  <2>2. \A r \in requests : r \in Request /\ SoundCall(r)'
    BY <1>7, <2>1, QuietCalls DEF RejectChange, reviewVars
  <2>3. \A r \in {FileCall("restore", f, changes[f].previous)} :
          r \in Request /\ SoundCall(r)'
    <3>1. f \in born' /\ changes[f].previous \in Text /\ changes'[f] # None
      BY <1>7, <1>t, <2>1 DEF RejectChange, Pending, Noted, Known, Records, Change
    <3> QED
      BY <3>1, NewFileCall DEF Reads, Writes
  <2>4. SoundCalls
    BY <1>7, <2>2, <2>3 DEF RejectChange, SoundCalls
  <2>5. EditorStep
    BY <1>7, <1>t, <2>1
       DEF RejectChange, EditorStep, Noted, TypeOK, Known, serverVars, editorVars, reviewVars
  <2> QED
    BY <2>1, <2>4, <2>5, EditorShape
<1>8. ASSUME NEW f \in Files, AutosaveFires(f) PROVE Shape'
  <2>1. Noted
    BY <1>8, NoteTypes DEF AutosaveFires
  <2>2. \A r \in requests : r \in Request /\ SoundCall(r)'
    BY <1>8, <2>1, QuietCalls DEF AutosaveFires, reviewVars
  <2>3. \A r \in {FileCall("autosave", f, timers[f])} :
          r \in Request /\ SoundCall(r)'
    <3>1. f \in born' /\ timers[f] \in Text
      BY <1>8, <1>t, <2>1 DEF AutosaveFires, Noted, Known, Buffers
    <3> QED
      BY <3>1, NewFileCall DEF Reads, Writes
  <2>4. SoundCalls
    BY <1>8, <2>2, <2>3 DEF AutosaveFires, SoundCalls
  <2>5. EditorStep
    BY <1>8, <1>t, <2>1
       DEF AutosaveFires, EditorStep, Noted, TypeOK, Known, serverVars, editorVars, reviewVars,
           Buffers
  <2> QED
    BY <2>1, <2>4, <2>5, EditorShape
<1> QED
  BY <1>1, <1>2, <1>3, <1>4, <1>5, <1>6, <1>7, <1>8

\* Shape: the server takes a call, or the save that takes a change back fails.
LEMMA ServingShape ==
  ASSUME Shape, Counted, NEW r \in requests,
         \/ ServeRead(r) \/ ServeRefresh(r) \/ ServeCreate(r) \/ ServeSave(r)
         \/ ServeStructure(r) \/ ServeRestore(r) \/ RejectFails(r)
  PROVE  Shape'
<1>t. TypeOK /\ Known /\ changes \in Records /\ buffers \in Buffers /\ timers \in Buffers
  BY DEF Shape, TypeOK, Records, Buffers
<1>1. ASSUME ServeRead(r) PROVE Shape'
  <2>1. Noted
    BY <1>1, NoteTypes DEF ServeRead
  <2>2. \A q \in requests : q \in Request /\ SoundCall(q)'
    BY <1>1, <2>1, QuietCalls DEF ServeRead, reviewVars
  <2>3. \A s \in {[r EXCEPT !.served = TRUE, !.text = disk[r.file]]} :
          s \in Request /\ SoundCall(s)'
    <3>1. r \in Request /\ SoundCall(r)' /\ disk[r.file] \in Text
      BY <1>1, <1>t, <2>2 DEF ServeRead, TypeOK
    <3> QED
      BY <1>1, <3>1 DEF ServeRead, Request, SoundCall, Reads, Writes, TreeKinds
  <2>4. SoundCalls
    BY <1>1, <2>2, <2>3 DEF ServeRead, SoundCalls
  <2>5. ServerRow
    BY <1>1, <1>t, <2>1
       DEF ServeRead, ServerRow, Noted, TypeOK, Known, serverVars, editorVars, reviewVars
  <2> QED
    BY <2>1, <2>4, <2>5, ServerShape
<1>2. ASSUME ServeRefresh(r) PROVE Shape'
  <2>1. Noted
    BY <1>2, NoteTypes DEF ServeRefresh
  <2>2. \A q \in requests : q \in Request /\ SoundCall(q)'
    BY <1>2, <2>1, QuietCalls DEF ServeRefresh, reviewVars
  <2>3. \A s \in {[r EXCEPT !.served = TRUE, !.nodes = tree, !.file = serverOpen]} :
          s \in Request /\ SoundCall(s)'
    <3>1. /\ r \in Request /\ SoundCall(r)' /\ tree \subseteq Files /\ tree \subseteq born'
          /\ serverOpen \in tree \cup {None}
      BY <1>2, <1>t, <2>1, <2>2 DEF ServeRefresh, TypeOK, Known, Noted
    <3> QED
      BY <1>2, <3>1 DEF ServeRefresh, Request, SoundCall, Reads, Writes, TreeKinds
  <2>4. SoundCalls
    BY <1>2, <2>2, <2>3 DEF ServeRefresh, SoundCalls
  <2>5. ServerRow
    BY <1>2, <1>t, <2>1
       DEF ServeRefresh, ServerRow, Noted, TypeOK, Known, serverVars, editorVars, reviewVars
  <2> QED
    BY <2>1, <2>4, <2>5, ServerShape
<1>3. ASSUME ServeCreate(r) PROVE Shape'
  <2>1. Noted
    BY <1>3, NoteTypes DEF ServeCreate
  <2>2. \A q \in requests : q \in Request /\ SoundCall(q)'
    BY <1>3, <2>1, QuietCalls DEF ServeCreate, reviewVars
  <2>3. PICK f \in Files \ born :
          /\ tree' = tree \cup {f} /\ serverOpen' = f
          /\ requests' = (requests \ {r})
                            \cup {[r EXCEPT !.served = TRUE, !.nodes = tree', !.file = f]}
    BY <1>3 DEF ServeCreate
  <2>4. \A s \in {[r EXCEPT !.served = TRUE, !.nodes = tree', !.file = f]} :
          s \in Request /\ SoundCall(s)'
    <3> DEFINE all == tree'
    <3>1. r \in Request /\ r.kind = "create" /\ f \in Files
      BY <1>3, <2>2 DEF ServeCreate
    <3>2. all \subseteq Files /\ all \subseteq born' /\ f \in all
      BY <1>t, <2>1, <2>3 DEF TypeOK, Noted
    <3> HIDE DEF all
    <3>3. \A s \in {[r EXCEPT !.served = TRUE, !.nodes = all, !.file = f]} :
            /\ s \in Request /\ s.kind = "create" /\ s.nodes = all /\ s.file = f
      BY <3>1, <3>2 DEF Request
    <3>4. ASSUME NEW s, s.kind = "create", s.nodes = all, s.file = f PROVE SoundCall(s)'
      BY <3>2, <3>4 DEF SoundCall, Reads, Writes, TreeKinds
    <3> QED
      BY <3>3, <3>4 DEF all
  <2>5. SoundCalls
    BY <2>2, <2>3, <2>4 DEF SoundCalls
  <2>6. ServerRow
    BY <1>3, <1>t, <2>3 DEF ServeCreate, ServerRow, TypeOK, Known, editorVars, reviewVars
  <2> QED
    BY <2>1, <2>5, <2>6, ServerShape
<1>4. ASSUME ServeSave(r) PROVE Shape'
  <2>1. Noted
    BY <1>4, NoteTypes DEF ServeSave
  <2>2. \A q \in requests : q \in Request /\ SoundCall(q)'
    BY <1>4, <2>1, QuietCalls DEF ServeSave, reviewVars
  <2>3. r \in Request /\ SoundCall(r) /\ r.file \in Files /\ r.text \in Text
    BY <1>4, <1>t DEF Shape, ServeSave, SoundCall, TypeOK, Writes
  <2>4. SoundCalls
    BY <1>4, <2>2, <2>3 DEF ServeSave, SoundCalls
  <2>5. ServerRow
    BY <1>4, <1>t, <2>1, <2>3
       DEF ServeSave, ServerRow, Noted, TypeOK, Known, serverVars, editorVars, reviewVars,
           SoundCall
  <2> QED
    BY <2>1, <2>4, <2>5, ServerShape
<1>5. ASSUME ServeStructure(r) PROVE Shape'
  <2>1. Noted
    BY <1>5, NoteTypes DEF ServeStructure
  <2>2. \A q \in requests : q \in Request /\ SoundCall(q)'
    BY <1>5, <2>1, QuietCalls DEF ServeStructure, reviewVars
  <2>3. r \in Request /\ r.nodes \subseteq Files /\ r.file \in r.nodes \cup {None}
    BY <1>5, <1>t DEF Shape, ServeStructure, SoundCall, TypeOK, TreeKinds, Request
  <2>4. SoundCalls
    BY <1>5, <2>2, <2>3 DEF ServeStructure, SoundCalls
  <2>5. ServerRow
    BY <1>5, <1>t, <2>1, <2>3
       DEF ServeStructure, ServerRow, Noted, TypeOK, Known, serverVars, editorVars, reviewVars
  <2> QED
    BY <2>1, <2>4, <2>5, ServerShape
<1>6. ASSUME ServeRestore(r) PROVE Shape'
  <2>1. Noted
    BY <1>6, NoteTypes DEF ServeRestore
  <2>2. \A q \in requests : q \in Request /\ SoundCall(q)'
    BY <1>6, <2>1, QuietCalls DEF ServeRestore, reviewVars
  <2>3. /\ r \in Request /\ r.file \in Files /\ r.file \in born' /\ r.text \in Text
        /\ changes'[r.file] # None
    BY <1>6, <1>t, <2>1, <2>2 DEF Shape, ServeRestore, SoundCall, TypeOK, Writes, Known, Noted
  <2>4. \A q \in {FileCall("undone", r.file, None)} :
          q \in Request /\ SoundCall(q)'
    BY <2>3, NewFileCall DEF Reads, Writes
  <2>5. SoundCalls
    BY <1>6, <2>2, <2>3, <2>4 DEF ServeRestore, SoundCalls
  <2>6. ServerRow
    BY <1>6, <1>t, <2>1, <2>3
       DEF ServeRestore, ServerRow, Noted, TypeOK, Known, serverVars, editorVars, reviewVars,
           Buffers
  <2> QED
    BY <2>1, <2>5, <2>6, ServerShape
<1>7. ASSUME RejectFails(r) PROVE Shape'
  <2>0. r.file \in Files
    BY <1>7, <1>t DEF Shape, RejectFails, SoundCall, TypeOK, Writes
  <2>1. Noted
    BY <1>7, <2>0, NoteTypes DEF RejectFails
  <2>2. \A q \in requests : q \in Request /\ SoundCall(q)'
    BY <1>7, <2>1, QuietCalls DEF RejectFails, reviewVars
  <2>3. r \in Request /\ r.file \in Files /\ r.text \in Text
    BY <1>7, <1>t DEF Shape, RejectFails, SoundCall, TypeOK, Writes, Known
  <2>4. SoundCalls
    BY <1>7, <2>2, <2>3 DEF RejectFails, SoundCalls
  <2>5. ServerRow
    BY <1>7, <1>t, <2>1, <2>3
       DEF RejectFails, ServerRow, Noted, TypeOK, Known, serverVars, editorVars, reviewVars
  <2> QED
    BY <2>1, <2>4, <2>5, ServerShape
<1> QED
  BY <1>1, <1>2, <1>3, <1>4, <1>5, <1>6, <1>7

\* Shape: the answers that leave the buffers and the changes alone.
LEMMA AnswerShape ==
  ASSUME Shape, Counted, NEW r \in requests,
         \/ ReloadFails(r) \/ SaveFails(r) \/ ApplyRemoteProject(r) \/ ProjectCallFails(r)
         \/ FlushFails(r)
  PROVE  Shape'
<1>t. TypeOK /\ Known /\ changes \in Records /\ buffers \in Buffers /\ timers \in Buffers
  BY DEF Shape, TypeOK, Records, Buffers
<1>1. ASSUME ReloadFails(r) PROVE Shape'
  <2>0. r.file \in Files
    BY <1>1, <1>t DEF Shape, ReloadFails, SoundCall, TypeOK, Reads, Writes
  <2>1. Noted
    BY <1>1, <2>0, NoteTypes DEF ReloadFails
  <2>2. \A q \in requests : q \in Request /\ SoundCall(q)'
    BY <1>1, <2>1, QuietCalls DEF ReloadFails, reviewVars
  <2>3. SoundCalls
    BY <1>1, <2>2 DEF ReloadFails, SoundCalls
  <2>4. EditorStep
    BY <1>1, <1>t, <2>1
       DEF ReloadFails, EditorStep, Noted, TypeOK, Known, serverVars, editorVars, reviewVars
  <2> QED
    BY <2>1, <2>3, <2>4, EditorShape
<1>2. ASSUME SaveFails(r) PROVE Shape'
  <2>0. r.file \in Files
    BY <1>2, <1>t DEF Shape, SaveFails, SoundCall, TypeOK, Reads, Writes
  <2>1. Noted
    BY <1>2, <2>0, NoteTypes DEF SaveFails
  <2>2. \A q \in requests : q \in Request /\ SoundCall(q)'
    BY <1>2, <2>1, QuietCalls DEF SaveFails, reviewVars
  <2>3. SoundCalls
    BY <1>2, <2>2 DEF SaveFails, SoundCalls
  <2>4. EditorStep
    BY <1>2, <1>t, <2>1
       DEF SaveFails, EditorStep, Noted, TypeOK, Known, serverVars, editorVars, reviewVars
  <2> QED
    BY <2>1, <2>3, <2>4, EditorShape
<1>3. ASSUME ApplyRemoteProject(r) PROVE Shape'
  <2>1. Noted
    BY <1>3, NoteTypes DEF ApplyRemoteProject
  <2>2. \A q \in requests : q \in Request /\ SoundCall(q)'
    BY <1>3, <2>1, QuietCalls DEF ApplyRemoteProject, reviewVars
  <2>3. /\ r.nodes \subseteq Files /\ r.nodes \subseteq born' /\ r.file \in r.nodes \cup {None}
    BY <1>3, <2>2 DEF ApplyRemoteProject, SoundCall, TreeKinds, Request
  <2>4. \A q \in LoadOf(r.file, buffers) : q \in Request /\ SoundCall(q)'
    BY <2>3, LoadsAreSound
  <2>5. SoundCalls
    BY <1>3, <2>2, <2>3, <2>4 DEF ApplyRemoteProject, SoundCalls
  <2>6. EditorStep
    BY <1>3, <1>t, <2>1, <2>3
       DEF ApplyRemoteProject, EditorStep, Noted, TypeOK, Known, serverVars, editorVars,
           reviewVars
  <2> QED
    BY <2>1, <2>5, <2>6, EditorShape
<1>4. ASSUME ProjectCallFails(r) PROVE Shape'
  <2>1. Noted
    BY <1>4, NoteTypes DEF ProjectCallFails
  <2>2. \A q \in requests : q \in Request /\ SoundCall(q)'
    BY <1>4, <2>1, QuietCalls DEF ProjectCallFails, reviewVars
  <2>3. SoundCalls
    BY <1>4, <2>2 DEF ProjectCallFails, SoundCalls
  <2>4. EditorStep
    BY <1>4, <1>t, <2>1
       DEF ProjectCallFails, EditorStep, Noted, TypeOK, Known, serverVars, editorVars,
           reviewVars
  <2> QED
    BY <2>1, <2>3, <2>4, EditorShape
<1>5. ASSUME FlushFails(r) PROVE Shape'
  <2>0. r.file \in Files
    BY <1>5, <1>t DEF Shape, FlushFails, SoundCall, TypeOK, Reads, Writes
  <2>1. Noted
    BY <1>5, <2>0, NoteTypes DEF FlushFails
  <2>2. \A q \in requests : q \in Request /\ SoundCall(q)'
    BY <1>5, <2>1, QuietCalls DEF FlushFails, reviewVars
  <2>3. SoundCalls
    BY <1>5, <2>2 DEF FlushFails, SoundCalls
  <2>4. QuietStep
    BY <1>5, <1>t, <2>1
       DEF FlushFails, QuietStep, Noted, TypeOK, Known, serverVars, editorVars, reviewVars, Idle
  <2> QED
    BY <2>1, <2>3, <2>4, QuietShape
<1> QED
  BY <1>1, <1>2, <1>3, <1>4, <1>5

\* Shape: the deploy flushes the files, then the structure, and ends.
LEMMA DeployShape ==
  ASSUME Shape, Counted, Deploy \/ FilesFlushed \/ StructureFlushed \/ DeployEnds
  PROVE  Shape'
<1>t. TypeOK /\ Known /\ changes \in Records /\ buffers \in Buffers /\ timers \in Buffers
  BY DEF Shape, TypeOK, Records, Buffers
<1>1. ASSUME Deploy PROVE Shape'
  <2>1. Noted
    BY <1>1, NoteTypes DEF Deploy
  <2>2. \A r \in requests : r \in Request /\ SoundCall(r)'
    BY <1>1, <2>1, QuietCalls DEF Deploy, reviewVars
  <2>3. ASSUME NEW f \in nodes
        PROVE  \A r \in {FileCall("flush", f, IF buffers[f] = None THEN Empty ELSE buffers[f])} :
          r \in Request /\ SoundCall(r)'
    <3>1. /\ f \in Files /\ f \in born'
          /\ buffers[f] # None => buffers[f] \in Text
          /\ Empty \in Text
      BY <1>t, <2>1, TextFacts DEF Noted, Known, TypeOK, Buffers, Text
    <3> QED
      BY <3>1, NewFileCall DEF Reads, Writes
  <2>4. SoundCalls
    BY <1>1, <2>2, <2>3 DEF Deploy, SoundCalls
  <2>5. QuietStep
    BY <1>1, <1>t, <2>1
       DEF Deploy, QuietStep, Noted, TypeOK, Known, serverVars, editorVars, reviewVars, Buffers
  <2> QED
    BY <2>1, <2>4, <2>5, QuietShape
<1>2. ASSUME FilesFlushed PROVE Shape'
  <2>1. Noted
    BY <1>2, NoteTypes DEF FilesFlushed
  <2>2. \A r \in requests : r \in Request /\ SoundCall(r)'
    BY <1>2, <2>1, QuietCalls DEF FilesFlushed, reviewVars
  <2>3. \A r \in {TreeCall("structure", deploy.nodes, deploy.file)} :
          r \in Request /\ SoundCall(r)'
    <3>1. /\ deploy.nodes \subseteq Files /\ deploy.nodes \subseteq born'
          /\ deploy.file \in deploy.nodes \cup {None}
      BY <1>t, <2>1 DEF Noted, Known, TypeOK
    <3> QED
      BY <3>1, NewTreeCall DEF TreeKinds
  <2>4. SoundCalls
    BY <1>2, <2>2, <2>3 DEF FilesFlushed, SoundCalls
  <2>5. QuietStep
    BY <1>2, <1>t, <2>1
       DEF FilesFlushed, QuietStep, Noted, TypeOK, Known, serverVars, editorVars, reviewVars
  <2> QED
    BY <2>1, <2>4, <2>5, QuietShape
<1>3. ASSUME StructureFlushed PROVE Shape'
  <2>1. Noted
    BY <1>3, NoteTypes DEF StructureFlushed
  <2>2. \A r \in requests : r \in Request /\ SoundCall(r)'
    BY <1>3, <2>1, QuietCalls DEF StructureFlushed, reviewVars
  <2>3. SoundCalls
    BY <1>3, <2>2 DEF StructureFlushed, SoundCalls
  <2>4. QuietStep
    BY <1>3, <1>t, <2>1
       DEF StructureFlushed, QuietStep, Noted, TypeOK, Known, serverVars, editorVars, reviewVars
  <2> QED
    BY <2>1, <2>3, <2>4, QuietShape
<1>4. ASSUME DeployEnds PROVE Shape'
  <2>1. Noted
    BY <1>4, NoteTypes DEF DeployEnds
  <2>2. \A r \in requests : r \in Request /\ SoundCall(r)'
    BY <1>4, <2>1, QuietCalls DEF DeployEnds, reviewVars
  <2>3. SoundCalls
    BY <1>4, <2>2 DEF DeployEnds, SoundCalls
  <2>4. QuietStep
    BY <1>4, <1>t, <2>1
       DEF DeployEnds, QuietStep, Noted, TypeOK, Known, serverVars, editorVars, reviewVars, Idle
  <2> QED
    BY <2>1, <2>3, <2>4, QuietShape
<1> QED
  BY <1>1, <1>2, <1>3, <1>4

\* What a step of the editor that marks or fills changes has to keep.
EditStep ==
  /\ UNCHANGED <<disk, tree, serverOpen, nodes, active, structureTimer, deploy>>
  /\ changes' \in Records /\ buffers' \in Buffers /\ timers' \in Buffers
  /\ original' \in Buffers /\ busy' \in Files \cup {None}
  /\ \A f \in Files : changes[f] # None => changes'[f] # None
  /\ \A f \in Files : changes'[f] # None \/ timers'[f] # None => f \in born

Run == [running : BOOLEAN, working : BOOLEAN, telling : BOOLEAN, told : Nat,
        stream : Seq(Event), edits : Seq(Edit), runs : 0 .. MaxRuns]

\* What a step of the run leaves of it: its types, and a stream that is its own.
AgentKept ==
  /\ agent' \in Run
  /\ Touched(agent'.edits) \subseteq born'
  /\ Streamed'

\* A step that keeps both keeps Shape.
LEMMA EditShape ==
  ASSUME Shape, Counted, Noted, SoundCalls, EditStep, AgentKept
  PROVE  Shape'
<1>1. TypeOK'
  BY DEF TypeOK, Shape, Counted, Noted, SoundCalls, EditStep, AgentKept, Buffers, Records,
             Run, Event
<1>2. Known'
  BY DEF Known, Shape, Noted, EditStep, AgentKept
<1> QED
  BY <1>1, <1>2 DEF Shape, SoundCalls, AgentKept

\* The run goes on as it was.
LEMMA SameRun ==
  ASSUME Shape, Noted, UNCHANGED agent
  PROVE  AgentKept
BY DEF AgentKept, Shape, TypeOK, Known, Streamed, Noted, Run, Event

\* The calls that are left stay sound when changes are made or marked.
LEMMA EditCalls ==
  ASSUME Shape, Noted, EditStep
  PROVE  \A r \in requests : r \in Request /\ SoundCall(r)'
BY CallsStaySound DEF Noted, EditStep

\* Marking the change of a file leaves the records of the others alike.
LEMMA MarkFacts ==
  ASSUME changes \in Records, NEW f \in Files, changes[f] # None, NEW texts \in Buffers,
         NEW mark \in {"accepted", "rejected"}, NEW c,
         c = Backfilled([changes EXCEPT ![f].status = mark], texts)
  PROVE  /\ c \in Records /\ c[f] # None /\ c[f].status = mark
         /\ \A g \in Files : g # f => Alike(c[g], changes[g])
<1> DEFINE d == [changes EXCEPT ![f].status = mark]
<1>1. /\ d \in Records /\ d[f] # None /\ d[f].status = mark
      /\ \A g \in Files : g # f => d[g] = changes[g]
  <2>1. changes[f] \in Change
    BY DEF Records
  <2>2. [changes[f] EXCEPT !.status = mark] \in Change
    BY <2>1 DEF Change
  <2>3. d[f] = [changes[f] EXCEPT !.status = mark] /\ d[f].status = mark
    BY <2>1 DEF Records, Change
  <2> QED
    BY <2>1, <2>2, <2>3, EditorAssumption DEF Records
<1> HIDE DEF d
<1>2. c = Backfilled(d, texts)
  BY DEF d
<1>3. c \in Records /\ \A g \in Files : Alike(c[g], d[g])
  BY <1>1, <1>2, BackfilledFacts
<1> QED
  BY <1>1, <1>3 DEF Alike

\* Shape: the user types, and answers arrive that fill a buffer.
LEMMA BufferShape ==
  ASSUME Shape, Counted,
         \/ \E text \in Text : Type(text)
         \/ \E r \in requests : FileLoaded(r) \/ LoadFails(r) \/ FileReloaded(r)
  PROVE  Shape'
<1>t. /\ TypeOK /\ Known /\ changes \in Records /\ buffers \in Buffers /\ timers \in Buffers
      /\ original \in Buffers
  BY DEF Shape, TypeOK, Records, Buffers
<1>b. ASSUME buffers' \in Buffers, changes' = Backfilled(changes, buffers')
      PROVE  /\ changes' \in Records
             /\ \A f \in Files : changes'[f] # None <=> changes[f] # None
  BY <1>t, <1>b, BackfilledFacts DEF Alike
<1>1. ASSUME NEW text \in Text, Type(text) PROVE Shape'
  <2>1. Noted
    BY <1>1, NoteTypes DEF Type
  <2>2. active \in Files /\ active \in born /\ buffers' \in Buffers /\ timers' \in Buffers
    BY <1>1, <1>t DEF Type, TypeOK, Known, Buffers
  <2>3. \A f \in Files : timers'[f] # None => f \in born
    BY <1>1, <1>t, <2>2 DEF Type, Known, Buffers
  <2>4. EditStep /\ AgentKept
    BY <1>1, <1>t, <1>b, <2>1, <2>2, <2>3, SameRun DEF Type, EditStep, serverVars, Known, TypeOK
  <2>5. SoundCalls
    BY <1>1, <2>1, <2>4, EditCalls DEF Type, SoundCalls
  <2> QED
    BY <2>1, <2>4, <2>5, EditShape
<1>2. ASSUME NEW r \in requests, FileLoaded(r) \/ LoadFails(r) \/ FileReloaded(r) PROVE Shape'
  <2>0. /\ r.file \in Files /\ Empty \in Text
        /\ r.kind \in Reads /\ r.served => r.text \in Text
    BY <1>2, <1>t, TextFacts DEF Shape, TypeOK, SoundCall, FileLoaded, LoadFails,
      FileReloaded, Reads, Text
  <2>1. Noted
    BY <1>2, <2>0, NoteTypes DEF FileLoaded, LoadFails, FileReloaded
  <2>2. buffers' \in Buffers
    <3>1. CASE FileReloaded(r)
      BY <1>t, <2>0, <3>1 DEF FileReloaded, Buffers, Reads
    <3>2. CASE FileLoaded(r)
      <4>1. Fetched(r.file, r.text) \in Text
        BY <2>0, <3>2, TextFacts DEF FileLoaded, Reads
      <4> QED
        BY <1>t, <2>0, <3>2, <4>1 DEF FileLoaded, Buffers
    <3>3. CASE LoadFails(r)
      <4>1. Fetched(r.file, Empty) \in Text
        BY <2>0, TextFacts
      <4> QED
        BY <1>t, <2>0, <3>3, <4>1 DEF LoadFails, Buffers
    <3> QED
      BY <1>2, <3>1, <3>2, <3>3
  <2>3. changes' = Backfilled(changes, buffers')
    BY <1>2 DEF FileLoaded, LoadFails, FileReloaded
  <2>4. /\ UNCHANGED <<disk, tree, serverOpen, nodes, active, structureTimer, deploy, timers,
                       original, busy, agent>>
        /\ requests' \subseteq requests
    BY <1>2 DEF FileLoaded, LoadFails, FileReloaded, serverVars
  <2>5. EditStep /\ AgentKept
    BY <1>t, <1>b, <2>1, <2>2, <2>3, <2>4, SameRun DEF EditStep, Known, TypeOK
  <2>6. SoundCalls
    BY <2>1, <2>4, <2>5, EditCalls DEF SoundCalls
  <2> QED
    BY <2>1, <2>5, <2>6, EditShape
<1> QED
  BY <1>1, <1>2

\* Shape: a change is accepted, or marked rejected.
LEMMA ReviewShape ==
  ASSUME Shape, Counted,
         \/ \E f \in Files : AcceptChange(f)
         \/ \E r \in requests : ChangeUndone(r) \/ UndoneUnseen(r)
  PROVE  Shape'
<1>t. /\ TypeOK /\ Known /\ changes \in Records /\ buffers \in Buffers /\ timers \in Buffers
      /\ original \in Buffers /\ [f \in Files |-> None] \in Buffers
  BY DEF Shape, TypeOK, Records, Buffers
<1>1. ASSUME NEW f \in Files, NEW mark \in {"accepted", "rejected"}, changes[f] # None,
             buffers' \in Buffers, Noted, requests' \subseteq requests,
             changes' = Backfilled([changes EXCEPT ![f].status = mark], buffers'),
             original' = [original EXCEPT ![f] = None], busy' = None,
             UNCHANGED <<serverVars, nodes, active, structureTimer, deploy, timers, agent>>
      PROVE  Shape'
  <2>0. /\ changes' \in Records /\ changes'[f] # None /\ changes'[f].status = mark
        /\ \A g \in Files : g # f => Alike(changes'[g], changes[g])
    BY <1>1, <1>t, MarkFacts
  <2>1. \A g \in Files : changes'[g] # None <=> changes[g] # None
    BY <1>1, <2>0 DEF Alike
  <2>2. original' \in Buffers
    BY <1>1, <1>t DEF Buffers
  <2>3. EditStep /\ AgentKept
    BY <1>1, <1>t, <2>0, <2>1, <2>2, SameRun DEF EditStep, Known, TypeOK, serverVars
  <2>4. SoundCalls
    BY <1>1, <2>3, EditCalls DEF SoundCalls
  <2> QED
    BY <1>1, <2>3, <2>4, EditShape
<1>2. ASSUME NEW f \in Files, AcceptChange(f) PROVE Shape'
  <2>1. changes[f] # None /\ changes[f].new \in Text
    BY <1>2, <1>t DEF AcceptChange, Pending, Records, Change
  <2>2. buffers' \in Buffers
    BY <1>2, <1>t, <2>1 DEF AcceptChange, Buffers
  <2>3. Noted
    BY <1>2, NoteTypes DEF AcceptChange
  <2> QED
    BY <1>1, <1>2, <2>1, <2>2, <2>3 DEF AcceptChange, serverVars
<1>3. ASSUME NEW r \in requests, ChangeUndone(r) \/ UndoneUnseen(r) PROVE Shape'
  <2>1. /\ r.file \in Files /\ changes[r.file] # None
        /\ r.kind \in Reads /\ r.served => r.text \in Text
    BY <1>3, <1>t DEF Shape, TypeOK, SoundCall, ChangeUndone, UndoneUnseen, Reads
  <2>2. buffers' \in Buffers
    BY <1>3, <1>t, <2>1 DEF ChangeUndone, UndoneUnseen, Buffers, Reads, editorVars
  <2>3. Noted
    BY <1>3, <2>1, NoteTypes DEF ChangeUndone, UndoneUnseen
  <2>4. /\ changes' = Backfilled([changes EXCEPT ![r.file].status = "rejected"], buffers')
        /\ original' = [original EXCEPT ![r.file] = None] /\ busy' = None
        /\ UNCHANGED <<serverVars, nodes, active, structureTimer, deploy, timers, agent>>
        /\ requests' \subseteq requests
    BY <1>3 DEF ChangeUndone, UndoneUnseen, Rejected, serverVars, editorVars
  <2> QED
    BY <1>1, <2>1, <2>2, <2>3, <2>4
<1> QED
  BY <1>2, <1>3

\* A step of the agent on the server keeps Shape if it keeps the run's types.
LEMMA RunShape ==
  ASSUME Shape, Counted, Noted, AgentKept,
         UNCHANGED <<editorVars, requests, changes, busy, deploy>>,
         disk' \in [Files -> Text], original' \in Buffers,
         tree' \subseteq Files, serverOpen' \in tree' \cup {None}
  PROVE  Shape'
<1>1. SoundCalls
  BY QuietCalls DEF SoundCalls, Noted
<1>2. TypeOK'
  BY <1>1 DEF TypeOK, Shape, Counted, Noted, SoundCalls, AgentKept, Buffers, editorVars,
                  Run, Event
<1>3. Known'
  BY DEF Known, Shape, Noted, AgentKept, editorVars
<1> QED
  BY <1>1, <1>2, <1>3 DEF Shape, SoundCalls, AgentKept

\* The run's record and its lists, as the provers want them.
LEMMA RunFacts ==
  ASSUME Shape
  PROVE  /\ agent \in Run /\ agent.told \in Nat /\ agent.told <= Len(agent.edits)
         /\ agent.edits \in Seq(Edit) /\ agent.edits \in Seq(Event)
         /\ agent.stream \in Seq(Event)
         /\ Len(agent.edits) \in Nat /\ DOMAIN agent.edits = 1 .. Len(agent.edits)
         /\ Len(agent.stream) \in Nat /\ DOMAIN agent.stream = 1 .. Len(agent.stream)
         /\ \A n \in DOMAIN agent.edits : agent.edits[n] \in Edit
<1>1. agent \in Run /\ agent.told <= Len(agent.edits)
  BY DEF Shape, TypeOK, Streamed, Run, Event
<1>2. agent.told \in Nat /\ agent.edits \in Seq(Edit) /\ agent.stream \in Seq(Event)
  BY <1>1 DEF Run
<1>3. agent.edits \in Seq(Event)
  BY <1>2, SeqMonotonic DEF Event
<1>4. /\ Len(agent.edits) \in Nat /\ DOMAIN agent.edits = 1 .. Len(agent.edits)
      /\ Len(agent.stream) \in Nat /\ DOMAIN agent.stream = 1 .. Len(agent.stream)
  BY <1>2, LenProperties
<1>5. \A n \in DOMAIN agent.edits : agent.edits[n] \in Edit
  BY <1>2, <1>4, ElementOfSeq
<1> QED
  BY <1>1, <1>2, <1>3, <1>4, <1>5

\* The stream carries edits of the run.
LEMMA StreamTouches ==
  ASSUME Shape
  PROVE  Touched(agent.stream) \subseteq Touched(agent.edits) \cup {None}
<1>1. \A i \in DOMAIN agent.stream :
         agent.stream[i].file \in Touched(agent.edits) \cup {None}
  BY EventFacts DEF Shape, Streamed, Touched
<1> QED
  BY <1>1 DEF Touched

\* What the run has once it has written one more edit.
LEMMA WritesFacts ==
  ASSUME Shape, NEW e \in Edit, AgentWrites(e),
         e.created => e.file \notin Touched(agent.edits)
  PROVE  /\ agent' \in Run /\ agent.working /\ agent.running /\ agent'.working /\ agent'.running
         /\ agent'.stream = agent.stream /\ agent'.told = agent.told
         /\ agent'.edits = Append(agent.edits, e)
         /\ Len(agent.edits) + 1 \in DOMAIN agent'.edits
         /\ agent'.edits[Len(agent.edits) + 1] = e
         /\ \A n \in DOMAIN agent.edits :
              n \in DOMAIN agent'.edits /\ agent'.edits[n] = agent.edits[n]
         /\ \A n \in DOMAIN agent'.edits : n \in DOMAIN agent.edits \/ n = Len(agent.edits) + 1
         /\ Touched(agent'.edits) = Touched(agent.edits) \cup {e.file}
         /\ Streamed' /\ e.file \in Files
<1> DEFINE u == agent.edits
           v == Append(u, e)
<1>1. /\ agent \in Run /\ u \in Seq(Edit) /\ u \in Seq(Event) /\ e \in Event /\ e.file \in Files
      /\ Len(u) \in Nat /\ DOMAIN u = 1 .. Len(u) /\ agent.told \in Nat /\ agent.told <= Len(u)
  BY RunFacts, EventFacts DEF Event
<1>2. v \in Seq(Edit) /\ agent' = [agent EXCEPT !.edits = v] /\ agent.working
  BY <1>1, AppendProperties DEF AgentWrites
<1>3. /\ Len(v) = Len(u) + 1 /\ DOMAIN v = 1 .. (Len(u) + 1) /\ v[Len(u) + 1] = e
      /\ \A n \in 1 .. Len(u) : v[n] = u[n]
  BY <1>1, AppendProperties, LenProperties
<1>4. Touched(v) = Touched(u) \cup {e.file}
  BY <1>1, AppendList
<1>5. agent.running
  BY <1>2 DEF Shape, Streamed
<1> HIDE DEF v
<1>6. /\ agent' \in Run /\ agent'.working = agent.working /\ agent'.running = agent.running
      /\ agent'.stream = agent.stream /\ agent'.told = agent.told /\ agent'.edits = v
  BY <1>1, <1>2 DEF Run
<1>7. \A n \in DOMAIN u : n \in DOMAIN v /\ v[n] = u[n] /\ (IsFirst(u, n) => IsFirst(v, n))
  BY <1>1, <1>3 DEF IsFirst
<1>8. \A n \in DOMAIN v : n \in DOMAIN u \/ n = Len(u) + 1
  BY <1>1, <1>3
<1>9. e.created => IsFirst(v, Len(u) + 1)
  BY <1>1, <1>3 DEF IsFirst, Touched
<1>10. Streamed'
  <2>1. \A i \in DOMAIN agent.stream :
          /\ agent.stream[i] = Done => i = Len(agent.stream) /\ ~agent.working
          /\ agent.stream[i] \notin {Done, ProjectChanged} =>
               \E n \in DOMAIN u : n <= agent.told /\ IsFirst(u, n) /\ u[n] = agent.stream[i]
    BY DEF Shape, Streamed
  <2>2. \A i \in DOMAIN agent.stream :
          agent.stream[i] \notin {Done, ProjectChanged} =>
            \E n \in DOMAIN v : n <= agent.told /\ IsFirst(v, n) /\ v[n] = agent.stream[i]
    BY <1>7, <2>1
  <2>3. \A n \in DOMAIN v : v[n].created => IsFirst(v, n)
    BY <1>3, <1>7, <1>8, <1>9 DEF Shape, Streamed
  <2> HIDE DEF u
  <2> QED
    BY <1>1, <1>2, <1>3, <1>5, <1>6, <2>1, <2>2, <2>3 DEF Streamed
<1> QED
  BY <1>1, <1>2, <1>3, <1>4, <1>5, <1>6, <1>7, <1>8, <1>10 DEF v

\* What it has once the next edit has been told.
LEMMA TellsFacts ==
  ASSUME Shape, AgentTells
  PROVE  /\ agent' \in Run /\ agent.working /\ agent.running /\ agent'.working /\ agent'.running
         /\ agent'.edits = agent.edits /\ agent'.told = agent.told + 1
         /\ agent.told + 1 \in DOMAIN agent.edits
         /\ IF IsFirst(agent.edits, agent.told + 1)
            THEN agent'.stream = Append(agent.stream, agent.edits[agent.told + 1])
            ELSE agent'.stream = agent.stream
         /\ Streamed'
<1> DEFINE s == agent.stream
           u == agent.edits
           k == agent.told + 1
           first == \A m \in 1 .. k - 1 : u[m].file # u[k].file
           t == IF first THEN Append(s, u[k]) ELSE s
           more == k < Len(u)
<1>1. /\ agent \in Run /\ u \in Seq(Edit) /\ s \in Seq(Event) /\ agent.told \in Nat
      /\ Len(u) \in Nat /\ DOMAIN u = 1 .. Len(u) /\ \A n \in DOMAIN u : u[n] \in Edit
      /\ Len(s) \in Nat /\ DOMAIN s = 1 .. Len(s)
  BY RunFacts
<1>2. /\ agent' = [agent EXCEPT !.told = k, !.telling = more, !.stream = t]
      /\ agent.working /\ agent.told < Len(u)
  BY DEF AgentTells
<1>3. k \in DOMAIN u /\ k \in Nat /\ u[k] \in Edit /\ u[k] \in Event
  BY <1>1, <1>2 DEF Event
<1>4. first <=> IsFirst(u, k)
  <2>1. \A m : m \in 1 .. k - 1 <=> m \in DOMAIN u /\ m < k
    BY <1>1, <1>2, <1>3
  <2> QED
    BY <2>1 DEF IsFirst
<1>5. agent.running
  BY <1>2 DEF Shape, Streamed
<1>6. t \in Seq(Event) /\ (first => t = Append(s, u[k])) /\ (~first => t = s)
  BY <1>1, <1>3, AppendProperties
<1>a. LET a == Append(s, u[k])
      IN /\ Len(a) = Len(s) + 1 /\ DOMAIN a = 1 .. (Len(s) + 1)
         /\ \A i \in 1 .. Len(s) : a[i] = s[i]
         /\ a[Len(s) + 1] = u[k]
  BY <1>1, <1>3, AppendProperties, LenProperties
<1>b. more \in BOOLEAN
  OBVIOUS
<1> HIDE DEF t, k, first, more
<1>7. /\ agent' \in Run /\ agent'.working = agent.working /\ agent'.running = agent.running
      /\ agent'.stream = t /\ agent'.told = k /\ agent'.edits = u
  BY <1>1, <1>2, <1>3, <1>6, <1>b DEF Run
<1>8. agent.told <= k /\ k <= Len(u)
  BY <1>1, <1>2 DEF k
<1>9. \A i \in DOMAIN s :
         /\ s[i] # Done
         /\ s[i] # ProjectChanged =>
              \E n \in DOMAIN u : n <= k /\ IsFirst(u, n) /\ u[n] = s[i]
  <2>1. \A i \in DOMAIN s :
         /\ s[i] # Done
         /\ s[i] # ProjectChanged =>
              \E n \in DOMAIN u : n <= agent.told /\ IsFirst(u, n) /\ u[n] = s[i]
    BY <1>2 DEF Shape, Streamed
  <2>2. \A n \in DOMAIN u : n <= agent.told => n <= k
    BY <1>1, <1>3, <1>8
  <2> QED
    BY <2>1, <2>2
<1>10. \A i \in DOMAIN t :
         /\ t[i] # Done
         /\ t[i] # ProjectChanged =>
              \E n \in DOMAIN u : n <= k /\ IsFirst(u, n) /\ u[n] = t[i]
  <2>1. CASE ~first
    BY <1>6, <1>9, <2>1
  <2>2. CASE first
    <3>1. \A i \in DOMAIN t : (i \in DOMAIN s /\ t[i] = s[i]) \/ t[i] = u[k]
      BY <1>1, <1>6, <1>a, <2>2
    <3>2. u[k] # Done /\ \E n \in DOMAIN u : n <= k /\ IsFirst(u, n) /\ u[n] = u[k]
      BY <1>3, <1>4, <2>2, EventFacts
    <3> QED
      BY <1>9, <3>1, <3>2
  <2> QED
    BY <2>1, <2>2
<1>11. \A n \in DOMAIN u : u[n].created => IsFirst(u, n)
  BY DEF Shape, Streamed
<1>12. Streamed'
  <2> HIDE DEF s, u
  <2> QED
    BY <1>2, <1>5, <1>7, <1>8, <1>10, <1>11 DEF Streamed
<1> QED
  BY <1>2, <1>3, <1>4, <1>5, <1>6, <1>7, <1>12 DEF k

\* What it has once it has ended, or its connection has.
LEMMA StopsFacts ==
  ASSUME Shape, AgentDone \/ AgentFails \/ StreamBreaks
  PROVE  /\ agent' \in Run /\ agent.running /\ ~agent'.working /\ agent'.running
         /\ agent'.edits = agent.edits /\ agent'.told = agent.told
         /\ AgentDone => agent'.stream = Append(agent.stream, Done)
         /\ AgentFails => agent'.stream = agent.stream
         /\ StreamBreaks => agent'.stream = <<>>
         /\ AgentDone \/ AgentFails => agent.working
         /\ Streamed'
<1> DEFINE s == agent.stream
           d == Append(s, Done)
<1>1. agent \in Run /\ s \in Seq(Event) /\ Len(s) \in Nat /\ DOMAIN s = 1 .. Len(s)
  BY RunFacts
<1>2. agent.running /\ (AgentDone \/ AgentFails => agent.working)
  BY DEF AgentDone, AgentFails, StreamBreaks, Shape, Streamed
<1>3. /\ d \in Seq(Event) /\ <<>> \in Seq(Event) /\ DOMAIN <<>> = {}
      /\ Len(d) = Len(s) + 1 /\ DOMAIN d = 1 .. (Len(s) + 1)
      /\ \A i \in 1 .. Len(s) : d[i] = s[i]
      /\ d[Len(s) + 1] = Done
  BY <1>1, EventFacts, AppendProperties, LenProperties
<1>4. \A i \in DOMAIN s :
        /\ agent.working => s[i] # Done
        /\ s[i] \notin {Done, ProjectChanged} =>
             \E n \in DOMAIN agent.edits : /\ n <= agent.told /\ IsFirst(agent.edits, n)
                                         /\ agent.edits[n] = s[i]
  BY DEF Shape, Streamed
<1>5. /\ agent.told <= Len(agent.edits)
      /\ \A n \in DOMAIN agent.edits : agent.edits[n].created => IsFirst(agent.edits, n)
  BY DEF Shape, Streamed
<1>6. ASSUME agent' \in Run, ~agent'.working, agent'.running, agent'.edits = agent.edits,
             agent'.told = agent.told, agent'.stream \in {s, d, <<>>},
             agent.working \/ agent'.stream = <<>>
      PROVE  Streamed'
  <2> DEFINE t == agent'.stream
             good(i) == /\ t[i] = Done => i = Len(t)
                        /\ t[i] \notin {Done, ProjectChanged} =>
                             \E n \in DOMAIN agent.edits :
                               /\ n <= agent.told /\ IsFirst(agent.edits, n)
                               /\ agent.edits[n] = t[i]
  <2>1. ASSUME t = <<>>, NEW i \in DOMAIN t PROVE good(i)
    BY <1>3, <2>1
  <2>2. ASSUME agent.working, t = s, NEW i \in DOMAIN t PROVE good(i)
    BY <1>4, <2>2
  <2>3. ASSUME agent.working, t = d, NEW i \in DOMAIN t PROVE good(i)
    <3>1. (i \in DOMAIN s /\ t[i] = s[i]) \/ (i = Len(t) /\ t[i] = Done)
      BY <1>1, <1>3, <2>3
    <3> QED
      BY <1>4, <2>3, <3>1
  <2>4. \A i \in DOMAIN t : good(i)
    BY <1>6, <2>1, <2>2, <2>3
  <2> HIDE DEF s
  <2> QED
    BY <1>5, <1>6, <2>4 DEF Streamed
<1> HIDE DEF d
<1>7. ASSUME AgentDone
      PROVE  /\ agent' \in Run /\ ~agent'.working /\ agent'.running
             /\ agent'.edits = agent.edits /\ agent'.told = agent.told /\ agent'.stream = d
  BY <1>1, <1>2, <1>3, <1>7 DEF AgentDone, Run, d
<1>8. ASSUME AgentFails
      PROVE  /\ agent' \in Run /\ ~agent'.working /\ agent'.running
             /\ agent'.edits = agent.edits /\ agent'.told = agent.told /\ agent'.stream = s
  BY <1>1, <1>2, <1>8 DEF AgentFails, Run
<1>9. ASSUME StreamBreaks
      PROVE  /\ agent' \in Run /\ ~agent'.working /\ agent'.running
             /\ agent'.edits = agent.edits /\ agent'.told = agent.told /\ agent'.stream = <<>>
  BY <1>1, <1>2, <1>3, <1>9 DEF StreamBreaks, Run
<1> QED
  BY <1>2, <1>6, <1>7, <1>8, <1>9 DEF d

\* Shape: the run starts, writes edits, creates files, tells of them, stops and ends.
LEMMA AgentShape ==
  ASSUME Shape, Counted,
         \/ StartAgent \/ AgentTells \/ AgentDone \/ AgentFails \/ StreamBreaks \/ StreamEnds
         \/ \E f \in Files, text \in Text : AgentEdits(f, text) \/ AgentCreates(f, text)
  PROVE  Shape'
<1>t. /\ TypeOK /\ Known /\ Streamed /\ changes \in Records /\ original \in Buffers
      /\ agent \in Run /\ agent.edits \in Seq(Edit)
  BY RunFacts DEF Shape, TypeOK, Records, Buffers
<1>s. ASSUME UNCHANGED <<serverVars, editorVars, requests, reviewVars, deploy>>, Noted, AgentKept
      PROVE  Shape'
  <2>1. UNCHANGED <<editorVars, requests, changes, busy, deploy, disk, tree, serverOpen,
                    original>>
    BY <1>s DEF serverVars, reviewVars
  <2> QED
    BY <1>s, <1>t, <2>1, RunShape DEF TypeOK, Known, Buffers
<1>e. <<>> \in Seq(Edit) /\ <<>> \in Seq(Event) /\ 0 \in Nat /\ Len(<<>>) = 0
      /\ DOMAIN <<>> = {}
  OBVIOUS
<1>f. ASSUME agent' \in Run, ~agent'.working \/ agent'.running, agent'.stream = <<>>,
             agent'.edits = <<>>, agent'.told = 0
      PROVE  AgentKept
  BY <1>e, <1>f, EmptyList DEF AgentKept, Streamed
<1>1. ASSUME StartAgent PROVE Shape'
  <2>1. Noted
    BY <1>1, NoteTypes DEF StartAgent
  <2>2. /\ agent' \in Run /\ agent'.running /\ agent'.stream = <<>> /\ agent'.edits = <<>>
        /\ agent'.told = 0
    <3>1. AtRest \in Run /\ AtRest.stream = <<>> /\ AtRest.edits = <<>> /\ AtRest.told = 0
      BY <1>e, EditorAssumption DEF AtRest, Run
    <3>2. agent.runs + 1 \in 0 .. MaxRuns
      BY <1>1, <1>t, EditorAssumption DEF StartAgent, Run
    <3>3. agent' = [AtRest EXCEPT !.running = TRUE, !.working = TRUE, !.runs = agent.runs + 1]
      BY <1>1 DEF StartAgent
    <3> HIDE DEF AtRest
    <3> QED
      BY <3>1, <3>2, <3>3 DEF Run
  <2> QED
    BY <1>1, <1>f, <1>s, <2>1, <2>2 DEF StartAgent
<1>2. ASSUME StreamEnds PROVE Shape'
  <2>1. Noted
    BY <1>2, NoteTypes DEF StreamEnds
  <2>2. /\ agent' \in Run /\ ~agent'.working /\ agent'.stream = <<>> /\ agent'.edits = <<>>
        /\ agent'.told = 0
    BY <1>2, <1>t, <1>e DEF StreamEnds, Run
  <2> QED
    BY <1>2, <1>f, <1>s, <2>1, <2>2 DEF StreamEnds
<1>3. ASSUME AgentTells \/ AgentDone \/ AgentFails \/ StreamBreaks PROVE Shape'
  <2>0. Touched(agent.edits) \subseteq Files
    BY <1>t DEF Known, TypeOK
  <2>1. Noted
    BY <1>3, <2>0, NoteTypes DEF AgentTells, AgentDone, AgentFails, StreamBreaks
  <2>2. agent' \in Run /\ agent'.edits = agent.edits /\ Streamed'
    BY <1>3, TellsFacts, StopsFacts
  <2>3. AgentKept
    BY <1>t, <2>1, <2>2 DEF AgentKept, Known, Noted
  <2> QED
    BY <1>3, <1>s, <2>1, <2>3 DEF AgentTells, AgentDone, AgentFails, StreamBreaks
<1>4. ASSUME NEW f \in Files, NEW text \in Text, AgentEdits(f, text) PROVE Shape'
  <2> DEFINE e == [file |-> f, previous |-> disk[f], new |-> text, created |-> FALSE]
  <2>1. Noted
    BY <1>4, NoteTypes DEF AgentEdits
  <2>2. e \in Edit /\ e.file = f /\ ~e.created /\ AgentWrites(e) /\ f \in born
    BY <1>4, <1>t DEF AgentEdits, Edit, TypeOK, Known
  <2>3. agent' \in Run /\ Streamed' /\ Touched(agent'.edits) = Touched(agent.edits) \cup {f}
    <3> HIDE DEF e
    <3> QED
      BY <2>2, WritesFacts
  <2>4. AgentKept
    BY <1>t, <2>1, <2>2, <2>3 DEF AgentKept, Known, Noted
  <2>5. disk' \in [Files -> Text] /\ original' \in Buffers
    BY <1>4, <1>t DEF AgentEdits, TypeOK, Buffers
  <2> QED
    BY <1>4, <1>t, <2>1, <2>4, <2>5, RunShape DEF AgentEdits, TypeOK, Known
<1>5. ASSUME NEW f \in Files, NEW text \in Text, AgentCreates(f, text) PROVE Shape'
  <2> DEFINE e == [file |-> f, previous |-> Empty, new |-> text, created |-> TRUE]
  <2>1. Noted
    BY <1>5, NoteTypes DEF AgentCreates
  <2>2. /\ e \in Edit /\ e.file = f /\ AgentWrites(e) /\ f \notin Touched(agent.edits)
        /\ f \in born' /\ born \subseteq born'
    BY <1>5, <1>t, <2>1, TextFacts DEF AgentCreates, Edit, Text, Noted, Known
  <2>3. agent' \in Run /\ Streamed' /\ Touched(agent'.edits) = Touched(agent.edits) \cup {f}
    <3> HIDE DEF e
    <3> QED
      BY <2>2, WritesFacts
  <2>4. AgentKept
    BY <1>t, <2>1, <2>2, <2>3 DEF AgentKept, Known
  <2>5. disk' \in [Files -> Text] /\ original' \in Buffers
    BY <1>5, <1>t, TextFacts DEF AgentCreates, TypeOK, Buffers, Text
  <2> QED
    BY <1>5, <1>t, <2>1, <2>4, <2>5, RunShape DEF AgentCreates, TypeOK, Known
<1> QED
  BY <1>1, <1>2, <1>3, <1>4, <1>5

\* The stream once its first event has been dropped, or has become the event
\* about the project.
LEMMA TailFacts ==
  ASSUME Shape, Noted, agent.stream # <<>>,
         \/ agent' = [agent EXCEPT !.stream = Tail(@)]
         \/ /\ agent' = [agent EXCEPT !.stream = [@ EXCEPT ![1] = ProjectChanged]]
            /\ Head(agent.stream) # Done
  PROVE  /\ AgentKept /\ agent'.edits = agent.edits /\ agent'.told = agent.told
         /\ agent'.working = agent.working /\ agent'.running = agent.running
         /\ \A i \in DOMAIN agent.stream :
              agent.stream[i] # Head(agent.stream) =>
                \E j \in DOMAIN agent'.stream : agent'.stream[j] = agent.stream[i]
         /\ \A j \in DOMAIN agent'.stream :
              \/ agent'.stream[j] = ProjectChanged
              \/ \E i \in DOMAIN agent.stream : agent'.stream[j] = agent.stream[i]
<1> DEFINE s == agent.stream
           t == Tail(s)
           p == [s EXCEPT ![1] = ProjectChanged]
<1>1. /\ agent \in Run /\ s \in Seq(Event) /\ Streamed
      /\ Len(s) \in Nat \ {0} /\ DOMAIN s = 1 .. Len(s) /\ Head(s) = s[1]
  BY RunFacts, EmptySeq DEF Shape
<1>2. /\ t \in Seq(Event) /\ Len(t) = Len(s) - 1 /\ DOMAIN t = 1 .. (Len(s) - 1)
      /\ \A i \in 1 .. (Len(s) - 1) : t[i] = s[i + 1]
  BY <1>1, HeadTailProperties, LenProperties
<1>3. /\ p \in Seq(Event) /\ Len(p) = Len(s) /\ DOMAIN p = 1 .. Len(s)
      /\ p[1] = ProjectChanged /\ \A i \in 2 .. Len(s) : p[i] = s[i]
  BY <1>1, ExceptSeq, EventFacts
<1>4. \/ agent' = [agent EXCEPT !.stream = t]
      \/ agent' = [agent EXCEPT !.stream = p] /\ s[1] # Done
  BY <1>1
<1>p. ProjectChanged # Done
  BY EventFacts
<1> HIDE DEF s, t, p
<1>5. /\ agent' \in Run /\ agent'.edits = agent.edits /\ agent'.told = agent.told
      /\ agent'.working = agent.working /\ agent'.running = agent.running
      /\ agent'.stream = t \/ (agent'.stream = p /\ s[1] # Done)
  BY <1>1, <1>2, <1>3, <1>4 DEF Run
<1>6. ASSUME NEW j \in DOMAIN agent'.stream
      PROVE  /\ agent'.stream[j] = ProjectChanged \/
                \E i \in DOMAIN s : agent'.stream[j] = s[i]
             /\ agent'.stream[j] = Done => j = Len(agent'.stream) /\ ~agent.working
  <2>0. \A i \in DOMAIN s : s[i] = Done => i = Len(s) /\ ~agent.working
    BY <1>1 DEF Streamed, s
  <2>1. CASE agent'.stream = t
    <3>1. j \in 1 .. (Len(s) - 1) /\ j + 1 \in DOMAIN s /\ t[j] = s[j + 1]
      BY <1>1, <1>2, <1>6, <2>1
    <3> QED
      BY <1>1, <1>2, <2>0, <2>1, <3>1
  <2>2. CASE agent'.stream = p /\ s[1] # Done
    <3>1. j \in 1 .. Len(s) /\ (j = 1 \/ j \in 2 .. Len(s))
      BY <1>1, <1>3, <1>6, <2>2
    <3> QED
      BY <1>1, <1>3, <1>p, <2>0, <2>2, <3>1
  <2> QED
    BY <1>5, <2>1, <2>2
<1>7. ASSUME NEW i \in DOMAIN s, s[i] # s[1]
      PROVE  \E j \in DOMAIN agent'.stream : agent'.stream[j] = s[i]
  <2>1. i \in 2 .. Len(s) /\ i - 1 \in 1 .. (Len(s) - 1) /\ (i - 1) + 1 = i
    BY <1>1, <1>7
  <2>2. t[i - 1] = s[i] /\ p[i] = s[i] /\ i - 1 \in DOMAIN t /\ i \in DOMAIN p
    BY <1>1, <1>2, <1>3, <2>1
  <2> QED
    BY <1>5, <2>2
<1>8. Streamed'
  <2>1. /\ agent.working \/ agent.edits # <<>> \/ s # <<>> => agent.running
        /\ agent.told <= Len(agent.edits) /\ s # <<>>
        /\ \A i \in DOMAIN s : s[i] \notin {Done, ProjectChanged} =>
            \E n \in DOMAIN agent.edits : /\ n <= agent.told /\ IsFirst(agent.edits, n)
                                        /\ agent.edits[n] = s[i]
        /\ \A n \in DOMAIN agent.edits : agent.edits[n].created => IsFirst(agent.edits, n)
    BY <1>1 DEF Streamed, s
  <2>2. \A j \in DOMAIN agent'.stream : agent'.stream[j] \notin {Done, ProjectChanged} =>
          \E n \in DOMAIN agent.edits : /\ n <= agent.told /\ IsFirst(agent.edits, n)
                                      /\ agent.edits[n] = agent'.stream[j]
    BY <1>6, <2>1
  <2> QED
    BY <1>5, <1>6, <2>1, <2>2 DEF Streamed
<1> QED
  BY <1>1, <1>5, <1>6, <1>7, <1>8 DEF AgentKept, Shape, Known, Noted, s

\* A list of edits of files that exist keeps Shape when it is delivered.
LEMMA DeliveredShape ==
  ASSUME Shape, Counted, Noted, AgentKept, NEW s \in Seq(Edit), Touched(s) \subseteq born,
         NEW calls, \A r \in calls : r \in Request /\ SoundCall(r)',
         Delivers(s, calls),
         UNCHANGED <<serverVars, nodes, active, structureTimer, busy, original, deploy>>
  PROVE  Shape'
<1>t. /\ TypeOK /\ Known /\ changes \in Records /\ buffers \in Buffers /\ timers \in Buffers
      /\ original \in Buffers /\ born \subseteq Files
  BY DEF Shape, TypeOK, Records, Buffers
<1>1. /\ changes' \in Records /\ buffers' \in Buffers
      /\ \A f \in Files \ Touched(s) : Alike(changes'[f], changes[f])
      /\ \A f \in Files \cap Touched(s) : changes'[f] # None
  BY <1>t, DeliversFacts
<1>2. timers' \in Buffers /\ \A f \in Files : timers'[f] # None => timers[f] # None
  BY <1>t DEF Delivers, Buffers
<1>3. \A f \in Files : /\ changes[f] # None => changes'[f] # None
                       /\ changes'[f] # None => changes[f] # None \/ f \in Touched(s)
  BY <1>1 DEF Alike
<1>4. EditStep
  BY <1>t, <1>1, <1>2, <1>3 DEF EditStep, Known, TypeOK, serverVars
<1>5. \A r \in requests : r \in Request /\ SoundCall(r)'
  BY <1>4, EditCalls
<1>6. ASSUME NEW f \in Touched(s)
      PROVE  \A r \in {FileCall("reload", f, None)} : r \in Request /\ SoundCall(r)'
  <2>1. f \in Files /\ f \in born'
    BY <1>t DEF Noted
  <2> QED
    BY <2>1, NewFileCall DEF Reads, Writes
<1>7. SoundCalls
  BY <1>5, <1>6 DEF SoundCalls, Delivers
<1> QED
  BY <1>4, <1>7, EditShape

\* A list of one edit touches its file, and is its first and last edit.
LEMMA OneEdit ==
  ASSUME NEW e \in Edit
  PROVE  /\ <<e>> \in Seq(Edit) /\ Touched(<<e>>) = {e.file}
         /\ LastIs(<<e>>, e.file, e.new) /\ FirstIs(<<e>>, e.file, e.previous)
<1>1. /\ <<e>> \in Seq(Edit) /\ DOMAIN <<e>> = {1} /\ <<e>>[1] = e
  OBVIOUS
<1> QED
  BY <1>1 DEF Touched, LastIs, FirstIs

\* The next edit of the stream is one that has been told, its file's first.
LEMMA HeadFacts ==
  ASSUME Shape, EditArrives
  PROVE  /\ Head(agent.stream) \in Edit /\ Head(agent.stream).file \in born
         /\ Head(agent.stream).file \in Files /\ Head(agent.stream) # Done
         /\ \E n \in DOMAIN agent.edits : /\ n <= agent.told /\ IsFirst(agent.edits, n)
                                        /\ agent.edits[n] = Head(agent.stream)
<1>1. 1 \in DOMAIN agent.stream /\ Head(agent.stream) = agent.stream[1]
  BY RunFacts, EmptySeq DEF EditArrives
<1>2. agent.stream[1] \notin {Done, ProjectChanged}
  BY <1>1 DEF EditArrives
<1>3. PICK n \in DOMAIN agent.edits : /\ n <= agent.told /\ IsFirst(agent.edits, n)
                                      /\ agent.edits[n] = agent.stream[1]
  BY <1>1, <1>2 DEF Shape, Streamed
<1>4. agent.edits[n] \in Edit /\ agent.edits[n].file \in born
  BY RunFacts DEF Shape, Known, Touched
<1> QED
  BY <1>1, <1>2, <1>3, <1>4, EventFacts

\* Shape: an event arrives, or the end of the stream with all the edits again.
LEMMA ArrivalShape ==
  ASSUME Shape, Counted, EditArrives \/ ProjectChangedArrives \/ DoneArrives
  PROVE  Shape'
<1>t. /\ TypeOK /\ Known /\ Streamed /\ agent \in Run /\ agent.edits \in Seq(Edit)
  BY RunFacts DEF Shape
<1>r. \A r \in {TreeCall("refresh", {}, None)} : r \in Request /\ SoundCall(r)'
  BY NewTreeCall DEF TreeKinds
<1>1. ASSUME EditArrives PROVE Shape'
  <2> DEFINE e == Head(agent.stream)
             calls == IF e.created THEN {TreeCall("refresh", {}, None)} ELSE {}
  <2>1. Noted
    BY <1>1, NoteTypes DEF EditArrives
  <2>2. e \in Edit /\ e.file \in born /\ e # Done
    BY <1>1, HeadFacts
  <2>3. /\ agent.stream # <<>> /\ Delivers(<<e>>, calls)
        /\ \/ agent' = [agent EXCEPT !.stream = Tail(@)]
           \/ agent' = [agent EXCEPT !.stream = [@ EXCEPT ![1] = ProjectChanged]]
        /\ UNCHANGED <<serverVars, nodes, active, structureTimer, busy, original, deploy>>
    BY <1>1 DEF EditArrives
  <2>4. AgentKept
    BY <2>1, <2>2, <2>3, TailFacts
  <2>5. <<e>> \in Seq(Edit) /\ Touched(<<e>>) = {e.file}
    <3> HIDE DEF e
    <3> QED
      BY <2>2, OneEdit
  <2>6. \A r \in calls : r \in Request /\ SoundCall(r)'
    BY <1>r
  <2> HIDE DEF e, calls
  <2> QED
    BY <2>1, <2>2, <2>3, <2>4, <2>5, <2>6, DeliveredShape
<1>2. ASSUME DoneArrives PROVE Shape'
  <2>1. Noted
    BY <1>2, NoteTypes DEF DoneArrives
  <2>2. /\ agent' = [agent EXCEPT !.stream = <<>>] /\ Delivers(agent.edits, {})
        /\ UNCHANGED <<serverVars, nodes, active, structureTimer, busy, original, deploy>>
        /\ agent.stream # <<>>
    BY <1>2 DEF DoneArrives
  <2>3. /\ agent' \in Run /\ agent'.stream = <<>> /\ agent'.edits = agent.edits
        /\ agent'.working = agent.working /\ agent'.running = agent.running
        /\ agent'.told = agent.told /\ DOMAIN <<>> = {}
    <3>1. <<>> \in Seq(Event) /\ DOMAIN <<>> = {}
      OBVIOUS
    <3>2. DOMAIN <<>> = {}
      BY <3>1
    <3> QED
      BY <1>t, <2>2, <3>1, <3>2 DEF Run
  <2>4. AgentKept
    BY <1>t, <2>1, <2>2, <2>3 DEF AgentKept, Streamed, Known, Noted
  <2>5. Touched(agent.edits) \subseteq born
    BY <1>t DEF Known
  <2> QED
    BY <1>t, <2>1, <2>2, <2>4, <2>5, DeliveredShape
<1>3. ASSUME ProjectChangedArrives PROVE Shape'
  <2>1. Noted
    BY <1>3, NoteTypes DEF ProjectChangedArrives
  <2>2. /\ agent.stream # <<>> /\ agent' = [agent EXCEPT !.stream = Tail(@)]
        /\ requests' = requests \cup {TreeCall("refresh", {}, None)}
        /\ UNCHANGED <<disk, tree, serverOpen, editorVars, changes, busy, original, deploy>>
    BY <1>3 DEF ProjectChangedArrives, serverVars, reviewVars
  <2>3. AgentKept
    BY <2>1, <2>2, TailFacts
  <2>4. SoundCalls
    BY <1>r, <2>1, <2>2, QuietCalls DEF SoundCalls
  <2>5. EditStep
    BY <1>t, <2>2 DEF EditStep, TypeOK, Known, editorVars, Records, Buffers
  <2> QED
    BY <2>1, <2>3, <2>4, <2>5, EditShape
<1> QED
  BY <1>1, <1>2, <1>3

\* Shape holds when the page has just loaded, ...
LEMMA InitShape == Init => Shape
<1> SUFFICES ASSUME Init PROVE Shape
  OBVIOUS
<1>0. /\ tree \subseteq Files /\ None \notin Files /\ Empty \in Text /\ MaxActs \in Nat
      /\ MaxRuns \in Nat
  BY EditorAssumption, TextFacts DEF Text, Init
<1>1. /\ agent = AtRest /\ AtRest \in Run /\ Touched(<<>>) = {}
      /\ agent.edits = <<>> /\ agent.stream = <<>> /\ ~agent.working /\ agent.told = 0
      /\ Len(<<>>) = 0 /\ DOMAIN <<>> = {}
  BY <1>0, EmptyList DEF Init, AtRest, Run
<1>2. active \in tree \cup {None} /\ born = tree /\ buffers = [f \in Files |-> None]
  BY DEF Init
<1>3. ASSUME NEW r \in LoadOf(active, buffers) PROVE r \in Request /\ SoundCall(r)
  <2>1. active \in tree /\ r = FileCall("load", active, None)
    BY <1>2 DEF LoadOf
  <2> QED
    BY <1>0, <1>2, <2>1 DEF FileCall, Request, SoundCall, Reads, Writes, TreeKinds
<1>4. TypeOK
  <2>1. requests \subseteq Request
    BY <1>3 DEF Init
  <2>2. Idle \in [phase : {"no", "files", "structure", "build"},
                   nodes : SUBSET Files, file : Files \cup {None}]
    BY DEF Idle
  <2>3. disk \in [Files -> Text] /\ acts \in 0 .. MaxActs
    BY <1>0, TextFacts DEF Init
  <2> HIDE DEF Idle
  <2> QED
    BY <1>0, <1>1, <1>2, <2>1, <2>2, <2>3 DEF Init, TypeOK, Run, Event
<1>5. Known /\ Streamed
  BY <1>0, <1>1 DEF Init, Known, Streamed, Idle
<1> QED
  BY <1>3, <1>4, <1>5 DEF Shape, Init

\* ... and every step keeps it.
LEMMA NextShape == Shape /\ [Next]_vars => Shape'
<1> SUFFICES ASSUME Shape, [Next]_vars PROVE Shape'
  OBVIOUS
<1>t. session \in Sessions /\ acts \in 0 .. MaxActs /\ MaxActs \in Nat
  BY EditorAssumption DEF Shape, TypeOK
<1>1. CASE UNCHANGED vars
  BY <1>1 DEF vars, serverVars, editorVars, reviewVars, notes, Shape, TypeOK, Known, Streamed,
              SoundCall
<1>2. CASE UserStep
  <2>1. Counted
    BY <1>t, <1>2 DEF UserStep, Counted
  <2> QED
    BY <1>2, <2>1, CallingShape, BufferShape, ReviewShape, DeployShape, TextFacts DEF UserStep
<1>3. ASSUME UNCHANGED <<session, acts>>,
             TimerStep \/ ServerStep \/ Answer \/ AgentStep \/ DeployStep
      PROVE  Shape'
  <2>1. Counted
    BY <1>t, <1>3 DEF Counted
  <2>2. CASE TimerStep
    BY <2>1, <2>2, CallingShape DEF TimerStep
  <2>3. CASE ServerStep
    BY <2>1, <2>3, ServingShape DEF ServerStep
  <2>4. CASE Answer
    BY <2>1, <2>4, AnswerShape, BufferShape, ReviewShape, ServingShape DEF Answer
  <2>5. CASE AgentStep
    BY <2>1, <2>5, AgentShape, ArrivalShape, TextFacts DEF AgentStep
  <2>6. CASE DeployStep
    BY <2>1, <2>6, DeployShape DEF DeployStep
  <2> QED
    BY <1>3, <2>2, <2>3, <2>4, <2>5, <2>6
<1> QED
  BY <1>1, <1>2, <1>3 DEF Next

\* Type correctness of the editor, the server's copy and the calls between them
\* (code-workspace.tsx:203-258): every variable keeps its type, and the open tab
\* is always a node of the tree the editor shows, whatever answers arrive late.
THEOREM TypeCorrect == Spec => []TypeOK
<1>1. Shape => TypeOK
  BY DEF Shape
<1> QED
  BY <1>1, InitShape, NextShape, PTL DEF Spec

-----------------------------------------------------------------------------
(* No file gets lost. *)

\* No list of nodes is sent, and the answers the editor awaits about the nodes
\* are still awaited.
CallsRest ==
  /\ \A r \in requests' : r.kind = "structure" => r \in requests
  /\ \A r \in requests : r.kind \in {"create", "refresh"} => r \in requests'

\* The run still has the news of nodes it had.
StreamRests ==
  /\ \A g : Heralded(g) => Heralded(g)'
  /\ BirthsTold => BirthsTold'

\* It has when it rests.
LEMMA RunKept == UNCHANGED agent => StreamRests
BY DEF StreamRests, Heralded, BirthsTold

\* Then what was announced is announced still.
LEMMA StillAnnounced ==
  ASSUME CallsRest, StreamRests
  PROVE  \A g : Announced(g) => Announced(g)'
<1> SUFFICES ASSUME NEW g, Announced(g) PROVE Announced(g)'
  OBVIOUS
<1>1. CASE \E r \in Calls({"create", "refresh"}) : ~r.served \/ g \in r.nodes
  BY <1>1 DEF CallsRest, Calls, Announced
<1>2. CASE Heralded(g)
  BY <1>2 DEF StreamRests, Announced
<1> QED
  BY <1>1, <1>2 DEF Announced

\* A step about neither the nodes nor the lists of them keeps Kept.
LEMMA KeptRests ==
  ASSUME Kept, NEW more, NEW lost, Note(more, lost), UNCHANGED <<tree, nodes>>,
         deploy'.phase # "no" => deploy.phase # "no" /\ deploy'.nodes = deploy.nodes,
         CallsRest, StreamRests
  PROVE  Kept'
<1> SUFFICES ASSUME ~overtaken' PROVE Kept'
  BY DEF Kept
<1>1. ~overtaken /\ ~OvertakenNow' /\ born' = born \cup tree'
  BY NoteFacts
<1>2. \A r \in Calls({"structure"})' : r \in Calls({"structure"})
  BY DEF CallsRest, Calls
<1>3. \A g \in tree \ nodes : Announced(g)'
  BY <1>1, StillAnnounced DEF Kept
<1>4. BirthsTold'
  BY <1>1 DEF Kept, StreamRests
<1> QED
  BY <1>1, <1>2, <1>3, <1>4 DEF Kept

\* With nothing on its way about the nodes the editor shows all of them: what
\* it saves or deploys then drops none.
LEMMA EditorHasTree ==
  ASSUME Shape, Kept, ~overtaken, ~agent.running, Calls({"create", "refresh"}) = {}
  PROVE  nodes = tree
<1>1. agent.stream = <<>> /\ agent.edits = <<>>
  BY DEF Shape, Streamed
<1>2. \A g : ~Announced(g)
  BY <1>1 DEF Announced, Heralded
<1> QED
  BY <1>2 DEF Kept, Shape, Known

\* A step about files only.
FilesOnly ==
  /\ UNCHANGED <<tree, nodes>>
  /\ deploy'.phase # "no" => deploy.phase # "no" /\ deploy'.nodes = deploy.nodes
  /\ CallsRest /\ StreamRests

\* The user's clicks and edits, and the autosave of a file, are about files only.
LEMMA ClicksFilesOnly ==
  ASSUME Shape,
         \/ \E f \in Files : \/ OpenFile(f) \/ RejectChange(f)
                             \/ AutosaveFires(f) \/ AcceptChange(f)
         \/ CloseTab \/ PrepareSearch \/ SaveFile \/ CreateFile
         \/ \E text \in Text : Type(text)
         \/ StructureFlushed \/ DeployEnds
  PROVE  FilesOnly /\ \E more, lost : Note(more, lost)
<1> USE RunKept DEF FilesOnly, CallsRest, serverVars, editorVars
<1>t. deploy \in [phase : {"no", "files", "structure", "build"},
                  nodes : SUBSET Files, file : Files \cup {None}]
  BY DEF Shape, TypeOK
<1>1. ASSUME NEW f \in Files, OpenFile(f) PROVE FilesOnly /\ \E more, lost : Note(more, lost)
  <2>1. CallsRest
    BY <1>1 DEF OpenFile, LoadOf, FileCall
  <2>2. UNCHANGED <<tree, nodes, agent>> /\ \E more, lost : Note(more, lost)
    BY <1>1 DEF OpenFile
  <2>3. deploy'.phase # "no" => deploy.phase # "no" /\ deploy'.nodes = deploy.nodes
    BY <1>t, <1>1 DEF OpenFile
  <2> QED
    BY <2>1, <2>2, <2>3
<1>2. ASSUME NEW f \in Files, RejectChange(f) PROVE FilesOnly /\ \E more, lost : Note(more, lost)
  <2>1. CallsRest
    BY <1>2 DEF RejectChange, FileCall
  <2>2. UNCHANGED <<tree, nodes, agent>> /\ \E more, lost : Note(more, lost)
    BY <1>2 DEF RejectChange
  <2>3. deploy'.phase # "no" => deploy.phase # "no" /\ deploy'.nodes = deploy.nodes
    BY <1>t, <1>2 DEF RejectChange
  <2> QED
    BY <2>1, <2>2, <2>3
<1>3. ASSUME NEW f \in Files, AutosaveFires(f) PROVE FilesOnly /\ \E more, lost : Note(more, lost)
  <2>1. CallsRest
    BY <1>3 DEF AutosaveFires, FileCall
  <2>2. UNCHANGED <<tree, nodes, agent>> /\ \E more, lost : Note(more, lost)
    BY <1>3 DEF AutosaveFires
  <2>3. deploy'.phase # "no" => deploy.phase # "no" /\ deploy'.nodes = deploy.nodes
    BY <1>t, <1>3 DEF AutosaveFires
  <2> QED
    BY <2>1, <2>2, <2>3
<1>4. ASSUME NEW f \in Files, AcceptChange(f) PROVE FilesOnly /\ \E more, lost : Note(more, lost)
  BY <1>4 DEF AcceptChange
<1>5. ASSUME CloseTab PROVE FilesOnly /\ \E more, lost : Note(more, lost)
  BY <1>5 DEF CloseTab
<1>6. ASSUME PrepareSearch PROVE FilesOnly /\ \E more, lost : Note(more, lost)
  <2>1. CallsRest
    BY <1>6 DEF PrepareSearch, LoadOf, FileCall
  <2>2. UNCHANGED <<tree, nodes, agent>> /\ \E more, lost : Note(more, lost)
    BY <1>6 DEF PrepareSearch
  <2>3. deploy'.phase # "no" => deploy.phase # "no" /\ deploy'.nodes = deploy.nodes
    BY <1>t, <1>6 DEF PrepareSearch
  <2> QED
    BY <2>1, <2>2, <2>3
<1>7. ASSUME SaveFile PROVE FilesOnly /\ \E more, lost : Note(more, lost)
  <2>1. CallsRest
    BY <1>7 DEF SaveFile, FileCall
  <2>2. UNCHANGED <<tree, nodes, agent>> /\ \E more, lost : Note(more, lost)
    BY <1>7 DEF SaveFile
  <2>3. deploy'.phase # "no" => deploy.phase # "no" /\ deploy'.nodes = deploy.nodes
    BY <1>t, <1>7 DEF SaveFile
  <2> QED
    BY <2>1, <2>2, <2>3
<1>8. ASSUME CreateFile PROVE FilesOnly /\ \E more, lost : Note(more, lost)
  <2>1. CallsRest
    BY <1>8 DEF CreateFile, TreeCall, FileCall
  <2>2. UNCHANGED <<tree, nodes, agent>> /\ \E more, lost : Note(more, lost)
    BY <1>8 DEF CreateFile
  <2>3. deploy'.phase # "no" => deploy.phase # "no" /\ deploy'.nodes = deploy.nodes
    BY <1>t, <1>8 DEF CreateFile
  <2> QED
    BY <2>1, <2>2, <2>3
<1>9. ASSUME NEW text \in Text, Type(text) PROVE FilesOnly /\ \E more, lost : Note(more, lost)
  BY <1>9 DEF Type
<1>10. ASSUME StructureFlushed PROVE FilesOnly /\ \E more, lost : Note(more, lost)
  <2>1. CallsRest
    BY <1>10 DEF StructureFlushed, FileCall
  <2>2. UNCHANGED <<tree, nodes, agent>> /\ \E more, lost : Note(more, lost)
    BY <1>10 DEF StructureFlushed
  <2>3. deploy'.phase # "no" => deploy.phase # "no" /\ deploy'.nodes = deploy.nodes
    BY <1>t, <1>10 DEF StructureFlushed
  <2> QED
    BY <2>1, <2>2, <2>3
<1>11. ASSUME DeployEnds PROVE FilesOnly /\ \E more, lost : Note(more, lost)
  BY <1>11 DEF DeployEnds, Idle
<1> QED
  BY <1>1, <1>2, <1>3, <1>4, <1>5, <1>6, <1>7, <1>8, <1>9, <1>10, <1>11

\* So are the calls that read and write files, and their answers.
LEMMA CallsFilesOnly ==
  ASSUME Shape, NEW r \in requests,
         \/ ServeRead(r) \/ ServeSave(r) \/ ServeRestore(r)
         \/ FileLoaded(r) \/ LoadFails(r) \/ FileReloaded(r)
         \/ ReloadFails(r) \/ SaveFails(r) \/ ChangeUndone(r)
         \/ UndoneUnseen(r) \/ RejectFails(r) \/ FlushFails(r)
  PROVE  FilesOnly /\ \E more, lost : Note(more, lost)
<1> USE RunKept DEF FilesOnly, CallsRest, serverVars, editorVars
<1>0. r \in Request
  BY DEF Shape, TypeOK
<1>1. ASSUME ServeSave(r) PROVE FilesOnly /\ \E more, lost : Note(more, lost)
  BY <1>0, <1>1 DEF ServeSave
<1>2. ASSUME ServeRestore(r) PROVE FilesOnly /\ \E more, lost : Note(more, lost)
  <2>1. CallsRest
    BY <1>0, <1>2 DEF ServeRestore, FileCall
  <2>2. UNCHANGED <<tree, nodes, agent, deploy>> /\ \E more, lost : Note(more, lost)
    BY <1>2 DEF ServeRestore
  <2> QED
    BY <2>1, <2>2
<1>3. ASSUME FileLoaded(r) PROVE FilesOnly /\ \E more, lost : Note(more, lost)
  BY <1>0, <1>3 DEF FileLoaded
<1>4. ASSUME LoadFails(r) PROVE FilesOnly /\ \E more, lost : Note(more, lost)
  BY <1>0, <1>4 DEF LoadFails
<1>5. ASSUME FileReloaded(r) PROVE FilesOnly /\ \E more, lost : Note(more, lost)
  BY <1>0, <1>5 DEF FileReloaded
<1>6. ASSUME ReloadFails(r) PROVE FilesOnly /\ \E more, lost : Note(more, lost)
  BY <1>0, <1>6 DEF ReloadFails
<1>7. ASSUME SaveFails(r) PROVE FilesOnly /\ \E more, lost : Note(more, lost)
  BY <1>0, <1>7 DEF SaveFails
<1>8. ASSUME ChangeUndone(r) PROVE FilesOnly /\ \E more, lost : Note(more, lost)
  BY <1>0, <1>8 DEF ChangeUndone
<1>9. ASSUME UndoneUnseen(r) PROVE FilesOnly /\ \E more, lost : Note(more, lost)
  BY <1>0, <1>9 DEF UndoneUnseen
<1>10. ASSUME RejectFails(r) PROVE FilesOnly /\ \E more, lost : Note(more, lost)
  BY <1>0, <1>10 DEF RejectFails
<1>11. ASSUME FlushFails(r) PROVE FilesOnly /\ \E more, lost : Note(more, lost)
  BY <1>0, <1>11 DEF FlushFails, Idle
<1>12. ASSUME ServeRead(r) PROVE FilesOnly /\ \E more, lost : Note(more, lost)
  <2>1. \A s \in {[r EXCEPT !.served = TRUE, !.text = disk[r.file]]} : s.kind = r.kind
    BY <1>0 DEF Request
  <2> QED
    BY <1>12, <2>1 DEF ServeRead, Reads
<1> QED
  BY <1>1, <1>2, <1>3, <1>4, <1>5, <1>6, <1>7, <1>8, <1>9, <1>10, <1>11, <1>12

\* Kept: the server lists the nodes, makes one, or takes the editor's list.
LEMMA ServerKept ==
  ASSUME Shape, Kept, NEW r \in requests,
         ServeRefresh(r) \/ ServeCreate(r) \/ ServeStructure(r)
  PROVE  Kept'
<1> SUFFICES ASSUME ~overtaken' PROVE Kept'
  BY DEF Kept
<1>0. /\ r \in Request /\ tree = born /\ ~OvertakenNow /\ ~overtaken /\ nodes \subseteq born
      /\ ~OvertakenNow' /\ born' = born \cup tree'
      /\ \A q \in Calls({"structure"}) : q.nodes = tree
      /\ deploy.phase # "no" => deploy.nodes = tree
      /\ \A g \in tree \ nodes : Announced(g)
      /\ BirthsTold /\ (UNCHANGED agent => BirthsTold')
      /\ \A g : UNCHANGED agent => (Heralded(g) => Heralded(g)')
  BY NoteFacts, RunKept DEF StreamRests, Kept, Shape, Known, TypeOK, ServeRefresh,
    ServeCreate, ServeStructure
<1>1. ASSUME ServeRefresh(r) PROVE Kept'
  <2> DEFINE s == [r EXCEPT !.served = TRUE, !.nodes = tree, !.file = serverOpen]
  <2>1. s.kind = "refresh" /\ s.nodes = tree
    BY <1>0, <1>1 DEF ServeRefresh, Request
  <2>2. /\ requests' = (requests \ {r}) \cup {s} /\ r.kind = "refresh"
        /\ UNCHANGED <<tree, nodes, deploy, agent>>
    BY <1>1 DEF ServeRefresh, serverVars, editorVars
  <2> HIDE DEF s
  <2>3. \A q \in Calls({"structure"})' : q \in Calls({"structure"})
    BY <2>1, <2>2 DEF Calls
  <2>4. s \in Calls({"create", "refresh"})'
    BY <2>1, <2>2 DEF Calls
  <2>5. \A g \in tree : Announced(g)'
    BY <2>1, <2>4 DEF Announced
  <2> QED
    BY <1>0, <2>2, <2>3, <2>5 DEF Kept
<1>2. ASSUME ServeCreate(r) PROVE Kept'
  <2>1. PICK f \in Files \ born :
          /\ tree' = tree \cup {f} /\ serverOpen' = f
          /\ requests' = (requests \ {r})
                            \cup {[r EXCEPT !.served = TRUE, !.nodes = tree', !.file = f]}
    BY <1>2 DEF ServeCreate
  <2> DEFINE all == tree'
             s == [r EXCEPT !.served = TRUE, !.nodes = all, !.file = f]
  <2>2. s.kind = "create" /\ s.nodes = all /\ r.kind = "create"
    <3> HIDE DEF all
    <3> QED
      BY <1>0, <1>2 DEF ServeCreate, Request
  <2>3. requests' = (requests \ {r}) \cup {s} /\ UNCHANGED <<nodes, deploy, agent>>
    BY <1>2, <2>1 DEF ServeCreate, editorVars
  <2> HIDE DEF s, all
  <2>4. deploy.phase = "no" /\ Calls({"structure"}) = {}
    BY <1>0, <2>2 DEF OvertakenNow, Calls
  <2>5. Calls({"structure"})' = {}
    BY <2>2, <2>3, <2>4 DEF Calls
  <2>6. s \in Calls({"create", "refresh"})'
    BY <2>2, <2>3 DEF Calls
  <2>7. \A g \in all : Announced(g)'
    BY <2>2, <2>6 DEF Announced
  <2>8. \A g \in tree' \ nodes' : Announced(g)'
    BY <2>7 DEF all
  <2>9. tree' = born'
    BY <1>0, <2>1
  <2> QED
    BY <1>0, <2>3, <2>4, <2>5, <2>8, <2>9 DEF Kept
<1>3. ASSUME ServeStructure(r) PROVE Kept'
  <2>1. r.nodes = tree /\ tree' = tree /\ requests' = requests \ {r}
    BY <1>0, <1>3 DEF ServeStructure, Calls
  <2>2. UNCHANGED <<nodes, deploy, agent>> /\ r.kind = "structure"
    BY <1>3 DEF ServeStructure, editorVars
  <2>3. CallsRest
    BY <2>1, <2>2 DEF CallsRest
  <2>4. StreamRests
    BY <2>2, RunKept
  <2>5. \A g \in tree \ nodes : Announced(g)'
    BY <1>0, <2>3, <2>4, StillAnnounced
  <2>6. \A q \in Calls({"structure"})' : q \in Calls({"structure"})
    BY <2>1 DEF Calls
  <2> QED
    BY <1>0, <2>1, <2>2, <2>5, <2>6 DEF Kept
<1> QED
  BY <1>1, <1>2, <1>3

\* Kept: the editor takes the server's list, sends its own, or fails to.
LEMMA EditorKept ==
  ASSUME Shape, Kept,
         \/ StructureTimerFires \/ Deploy \/ FilesFlushed
         \/ \E r \in requests : ApplyRemoteProject(r) \/ ProjectCallFails(r)
  PROVE  Kept'
<1> SUFFICES ASSUME ~overtaken' PROVE Kept'
  BY DEF Kept
<1>0. /\ tree = born /\ ~OvertakenNow /\ ~overtaken /\ nodes \subseteq born
      /\ ~OvertakenNow' /\ born' = born \cup tree'
      /\ \A q \in Calls({"structure"}) : q.nodes = tree
      /\ deploy.phase # "no" => deploy.nodes = tree
      /\ \A g \in tree \ nodes : Announced(g)
      /\ BirthsTold /\ (UNCHANGED agent => BirthsTold')
      /\ \A g : UNCHANGED agent => (Heralded(g) => Heralded(g)')
  BY NoteFacts, RunKept DEF StreamRests, Kept, Shape, Known, TypeOK, StructureTimerFires,
    Deploy, FilesFlushed,
     ApplyRemoteProject, ProjectCallFails
<1>1. ASSUME StructureTimerFires PROVE Kept'
  <2>1. nodes = tree
    BY <1>0, <1>1, EditorHasTree DEF StructureTimerFires, OvertakenNow
  <2>2. UNCHANGED <<tree, nodes, deploy, agent>>
    BY <1>1 DEF StructureTimerFires, serverVars
  <2>3. requests' = requests \cup {TreeCall("structure", nodes, active)}
    BY <1>1 DEF StructureTimerFires
  <2>4. \A q \in Calls({"structure"})' : q.nodes = tree
    BY <1>0, <2>1, <2>3 DEF Calls, TreeCall
  <2> QED
    BY <1>0, <2>1, <2>2, <2>4 DEF Kept
<1>2. ASSUME Deploy PROVE Kept'
  <2>1. /\ UNCHANGED <<tree, nodes, agent>> /\ deploy'.phase # "no" /\ deploy'.nodes = nodes
        /\ requests \subseteq requests'
        /\ \A q \in requests' : q \in requests \/ q.kind = "flush"
    BY <1>2 DEF Deploy, serverVars, FileCall
  <2>2. Calls({"create", "refresh"}) = {} /\ ~agent.running
    BY <1>0, <2>1 DEF OvertakenNow, Calls
  <2>3. nodes = tree
    BY <1>0, <2>2, EditorHasTree
  <2>4. \A q \in Calls({"structure"})' : q \in Calls({"structure"})
    BY <2>1 DEF Calls
  <2> QED
    BY <1>0, <2>1, <2>3, <2>4 DEF Kept
<1>3. ASSUME FilesFlushed PROVE Kept'
  <2>1. /\ UNCHANGED <<tree, nodes, agent>> /\ deploy.nodes = tree /\ deploy'.nodes = deploy.nodes
        /\ requests' = requests \cup {TreeCall("structure", deploy.nodes, deploy.file)}
    BY <1>0, <1>3 DEF FilesFlushed, serverVars, editorVars, Shape, TypeOK
  <2>2. \A q \in Calls({"structure"})' : q.nodes = tree
    BY <1>0, <2>1 DEF Calls, TreeCall
  <2>3. StreamRests
    BY <2>1, RunKept
  <2>4. \A q \in Calls({"create", "refresh"}) : q \in Calls({"create", "refresh"})'
    BY <2>1 DEF Calls
  <2>5. \A g : Announced(g) => Announced(g)'
    BY <1>0, <2>1, <2>4 DEF Announced
  <2> QED
    BY <1>0, <2>1, <2>2, <2>5 DEF Kept
<1>4. ASSUME NEW r \in requests, ApplyRemoteProject(r) PROVE Kept'
  <2>0. nodes \subseteq r.nodes
    BY <1>4 DEF ApplyRemoteProject, Note
  <2>1. /\ nodes' = r.nodes /\ r.served
        /\ UNCHANGED <<tree, deploy, agent>>
        /\ requests \ {r} \subseteq requests'
        /\ \A q \in requests' : q \in requests \/ q.kind = "load"
    BY <1>4 DEF ApplyRemoteProject, serverVars, LoadOf, FileCall
  <2>2. ASSUME NEW g \in tree \ r.nodes PROVE Announced(g)'
    <3>1. Announced(g)
      BY <1>0, <2>0, <2>2
    <3>2. CASE \E q \in Calls({"create", "refresh"}) : ~q.served \/ g \in q.nodes
      <4>1. PICK q \in Calls({"create", "refresh"}) : ~q.served \/ g \in q.nodes
        BY <3>2
      <4>2. q # r
        BY <2>1, <2>2, <4>1
      <4> QED
        BY <2>1, <4>1, <4>2 DEF Calls, Announced
    <3>3. CASE Heralded(g)
      BY <1>0, <2>1, <3>3 DEF Announced
    <3> QED
      BY <3>1, <3>2, <3>3 DEF Announced
  <2>3. \A q \in Calls({"structure"})' : q \in Calls({"structure"})
    BY <2>1 DEF Calls
  <2> QED
    BY <1>0, <2>1, <2>2, <2>3 DEF Kept
<1>5. ASSUME NEW r \in requests, ProjectCallFails(r) PROVE Kept'
  <2>1. /\ r.kind = "structure" /\ requests' = requests \ {r}
        /\ UNCHANGED <<tree, nodes, deploy, agent>>
    BY <1>5, NoteFacts DEF ProjectCallFails, serverVars, editorVars
  <2>2. CallsRest /\ StreamRests
    BY <2>1, RunKept DEF CallsRest
  <2> QED
    BY <1>5, <2>1, <2>2, KeptRests DEF ProjectCallFails
<1> QED
  BY <1>1, <1>2, <1>3, <1>4, <1>5

\* Kept: the run makes files, and the editor hears of them.
LEMMA AgentKeeps ==
  ASSUME Shape, Kept,
         \/ StartAgent \/ AgentTells \/ AgentDone \/ AgentFails \/ StreamBreaks \/ StreamEnds
         \/ \E f \in Files, text \in Text : AgentEdits(f, text) \/ AgentCreates(f, text)
         \/ EditArrives \/ ProjectChangedArrives \/ DoneArrives
  PROVE  Kept'
<1>t. /\ agent \in Run /\ agent.told \in Nat /\ agent.told <= Len(agent.edits) /\ Streamed
      /\ agent.stream \in Seq(Event) /\ Len(agent.stream) \in Nat
      /\ DOMAIN agent.stream = 1 .. Len(agent.stream)
      /\ Len(agent.edits) \in Nat /\ DOMAIN agent.edits = 1 .. Len(agent.edits)
      /\ \A n \in DOMAIN agent.edits : agent.edits[n] \in Edit
  BY RunFacts DEF Shape
<1>a. ASSUME NEW e \in Event
      PROVE  /\ \A i \in DOMAIN agent.stream :
                  /\ i \in DOMAIN Append(agent.stream, e)
                  /\ Append(agent.stream, e)[i] = agent.stream[i]
             /\ Len(agent.stream) + 1 \in DOMAIN Append(agent.stream, e)
             /\ Append(agent.stream, e)[Len(agent.stream) + 1] = e
  BY <1>t, <1>a, AppendProperties, LenProperties
<1>0. ASSUME ~overtaken'
      PROVE  /\ tree = born /\ ~OvertakenNow /\ ~OvertakenNow' /\ ~overtaken
             /\ born' = born \cup tree' /\ BirthsTold
             /\ \A g \in tree \ nodes : Announced(g)
             /\ \A q \in Calls({"structure"}) : q.nodes = tree
             /\ deploy.phase # "no" => deploy.nodes = tree
  BY <1>0, NoteFacts DEF Kept, StartAgent, AgentTells, AgentDone, AgentFails, StreamBreaks,
    StreamEnds,
     AgentEdits, AgentCreates, EditArrives, ProjectChangedArrives, DoneArrives
<1>1. ASSUME StartAgent \/ StreamEnds \/ AgentTells \/ AgentDone \/ AgentFails \/ StreamBreaks
      PROVE  Kept'
  <2> SUFFICES ASSUME ~overtaken' PROVE Kept'
    BY DEF Kept
  <2>1. UNCHANGED <<tree, nodes, deploy, requests>>
    BY <1>1 DEF StartAgent, StreamEnds, AgentTells, AgentDone, AgentFails, StreamBreaks,
                serverVars, editorVars
  <2>2. ASSUME StartAgent PROVE StreamRests
    <3>1. agent.stream = <<>> /\ agent.edits = <<>> /\ agent'.working
      BY <1>t, <2>2 DEF StartAgent, Streamed, AtRest
    <3> QED
      BY <3>1 DEF StreamRests, Heralded, BirthsTold
  <2>3. ASSUME StreamEnds PROVE StreamRests
    <3>1. agent.stream = <<>> /\ ~agent.working /\ agent'.edits = <<>>
      BY <1>t, <2>3 DEF StreamEnds, Run
    <3>2. \A g : ~Heralded(g)
      BY <1>0, <1>t, <3>1 DEF Heralded, BirthsTold
    <3> QED
      BY <3>1, <3>2 DEF StreamRests, BirthsTold
  <2>4. ASSUME AgentTells PROVE StreamRests
    <3> DEFINE k == agent.told + 1
    <3>1. /\ agent'.working /\ agent'.edits = agent.edits /\ agent'.told = k
          /\ k \in DOMAIN agent.edits
          /\ IF IsFirst(agent.edits, k)
             THEN agent'.stream = Append(agent.stream, agent.edits[k])
             ELSE agent'.stream = agent.stream
      BY <2>4, TellsFacts
    <3>2. /\ agent.edits[k] \in Event /\ agent.edits[k] \notin {Done, ProjectChanged}
          /\ agent.edits[k].created => IsFirst(agent.edits, k)
      BY <1>t, <3>1, EventFacts DEF Event, Streamed
    <3>3. \A i \in DOMAIN agent.stream :
             i \in DOMAIN agent'.stream /\ agent'.stream[i] = agent.stream[i]
      BY <1>a, <3>1, <3>2
    <3>4. \A n \in DOMAIN agent.edits : n > agent.told => n > k \/ n = k
      BY <1>t
    <3>5. agent.edits[k].created => \E i \in DOMAIN agent'.stream :
          agent'.stream[i] = agent.edits[k]
      BY <1>a, <3>1, <3>2
    <3> HIDE DEF k
    <3> QED
      BY <3>1, <3>2, <3>3, <3>4, <3>5 DEF StreamRests, Heralded, BirthsTold
  <2>5. ASSUME AgentDone PROVE StreamRests
    <3>1. /\ agent'.edits = agent.edits /\ agent'.told = agent.told
          /\ agent'.stream = Append(agent.stream, Done)
          /\ \A n \in DOMAIN agent.edits : n <= agent.told
      BY <1>t, <2>5, StopsFacts DEF AgentDone
    <3>2. \A i \in DOMAIN agent.stream :
             i \in DOMAIN agent'.stream /\ agent'.stream[i] = agent.stream[i]
      BY <1>a, <3>1, EventFacts
    <3> QED
      BY <1>t, <3>1, <3>2 DEF StreamRests, Heralded, BirthsTold
  <2>6. ASSUME AgentFails PROVE StreamRests
    <3>1. /\ agent'.edits = agent.edits /\ agent'.told = agent.told
          /\ agent'.stream = agent.stream
          /\ \A n \in DOMAIN agent.edits : ~(n > agent.told /\ agent.edits[n].created)
      BY <2>6, StopsFacts, NoteFacts DEF AgentFails
    <3> QED
      BY <1>t, <3>1 DEF StreamRests, Heralded, BirthsTold
  <2>7. ASSUME StreamBreaks PROVE StreamRests
    <3>1. /\ agent'.edits = agent.edits /\ agent'.told = agent.told
          /\ \A n \in DOMAIN agent.edits : ~agent.edits[n].created
      BY <2>7, StopsFacts, NoteFacts DEF StreamBreaks
    <3>2. \A g : ~Heralded(g)
      BY <1>t, <3>1 DEF Heralded, Streamed
    <3> QED
      BY <3>1, <3>2 DEF StreamRests, BirthsTold
  <2>8. CallsRest
    BY <2>1 DEF CallsRest
  <2> QED
    BY <1>1, <2>1, <2>2, <2>3, <2>4, <2>5, <2>6, <2>7, <2>8, KeptRests
       DEF StartAgent, StreamEnds, AgentTells, AgentDone, AgentFails, StreamBreaks
<1>3. ASSUME NEW e \in Edit, AgentWrites(e), e.created => e.file \notin Touched(agent.edits)
      PROVE  StreamRests /\ agent.running /\ agent'.running /\ (e.created => Heralded(e.file)')
  <2>1. /\ agent.working /\ agent.running /\ agent'.working /\ agent'.running
        /\ agent'.stream = agent.stream /\ agent'.told = agent.told
        /\ Len(agent.edits) + 1 \in DOMAIN agent'.edits
        /\ agent'.edits[Len(agent.edits) + 1] = e
        /\ \A n \in DOMAIN agent.edits :
             n \in DOMAIN agent'.edits /\ agent'.edits[n] = agent.edits[n]
    BY <1>3, WritesFacts
  <2>2. Len(agent.edits) + 1 > agent.told
    BY <1>t
  <2> QED
    BY <2>1, <2>2 DEF StreamRests, Heralded, BirthsTold
<1>4. ASSUME NEW f \in Files, NEW text \in Text, AgentEdits(f, text) PROVE Kept'
  <2>1. StreamRests
    <3>1. [file |-> f, previous |-> disk[f], new |-> text, created |-> FALSE] \in Edit
      BY <1>4 DEF Edit, Shape, TypeOK
    <3> DEFINE e == [file |-> f, previous |-> disk[f], new |-> text, created |-> FALSE]
    <3>2. e \in Edit /\ AgentWrites(e) /\ ~e.created
      BY <1>4, <3>1 DEF AgentEdits
    <3> HIDE DEF e
    <3> QED
      BY <1>3, <3>2
  <2>2. CallsRest /\ UNCHANGED <<tree, nodes, deploy>>
    BY <1>4 DEF AgentEdits, CallsRest, editorVars
  <2> QED
    BY <1>4, <2>1, <2>2, KeptRests DEF AgentEdits
<1>5. ASSUME NEW f \in Files, NEW text \in Text, AgentCreates(f, text) PROVE Kept'
  <2> SUFFICES ASSUME ~overtaken' PROVE Kept'
    BY DEF Kept
  <2> DEFINE e == [file |-> f, previous |-> Empty, new |-> text, created |-> TRUE]
  <2>1. /\ e \in Edit /\ AgentWrites(e) /\ e.file = f /\ e.created
        /\ f \notin Touched(agent.edits)
    BY <1>5, TextFacts DEF AgentCreates, Edit, Shape, Known
  <2> HIDE DEF e
  <2>2. StreamRests /\ agent.running /\ agent'.running /\ Heralded(f)'
    BY <1>3, <2>1
  <2>3. Announced(f)'
    BY <2>2 DEF Announced
  <2>4. CallsRest /\ UNCHANGED <<nodes, deploy, requests>> /\ tree' = tree \cup {f}
    BY <1>5 DEF AgentCreates, CallsRest, editorVars
  <2>5. /\ tree = born /\ ~OvertakenNow /\ ~OvertakenNow' /\ ~overtaken /\ born' = born \cup tree'
        /\ BirthsTold /\ \A g \in tree \ nodes : Announced(g)
    BY <1>0
  <2>6. \A g \in tree' \ nodes' : Announced(g)'
    BY <2>2, <2>3, <2>4, <2>5, StillAnnounced
  <2>8. Calls({"structure"}) = {} /\ deploy.phase = "no"
    BY <2>2, <2>5 DEF OvertakenNow
  <2>9. Calls({"structure"})' = {} /\ deploy'.phase = "no" /\ BirthsTold'
    BY <2>2, <2>4, <2>5, <2>8 DEF Calls, StreamRests
  <2> QED
    BY <2>4, <2>5, <2>6, <2>9 DEF Kept
<1>6. ASSUME EditArrives \/ ProjectChangedArrives PROVE Kept'
  <2> SUFFICES ASSUME ~overtaken' PROVE Kept'
    BY DEF Kept
  <2> DEFINE h == Head(agent.stream)
             asks == EditArrives => h.created
  <2>1. /\ agent.stream # <<>> /\ h # Done /\ UNCHANGED <<tree, nodes, deploy>> /\ Noted
        /\ \/ agent' = [agent EXCEPT !.stream = Tail(@)]
           \/ agent' = [agent EXCEPT !.stream = [@ EXCEPT ![1] = ProjectChanged]]
        /\ ~asks => h \notin {Done, ProjectChanged} /\ ~h.created
    <3>1. CASE EditArrives
      <4>1. h \notin {Done, ProjectChanged}
        BY <3>1 DEF EditArrives
      <4> QED
        BY <3>1, <4>1, NoteTypes DEF EditArrives, serverVars, editorVars
    <3>2. CASE ~EditArrives /\ ProjectChangedArrives
      <4>1. h = ProjectChanged /\ h # Done
        BY <3>2, EventFacts DEF ProjectChangedArrives
      <4> QED
        BY <3>2, <4>1, NoteTypes DEF ProjectChangedArrives, serverVars, editorVars
    <3> QED
      BY <1>6, <3>1, <3>2
  <2>2. /\ requests \subseteq requests'
        /\ \A q \in requests' : q \in requests \/ q.kind \in {"refresh", "reload"}
        /\ asks => TreeCall("refresh", {}, None) \in requests'
    <3>1. CASE EditArrives
      <4>1. requests' = requests \cup (IF h.created THEN {TreeCall("refresh", {}, None)} ELSE {})
                          \cup {FileCall("reload", f, None) : f \in Touched(<<h>>)}
        BY <3>1 DEF EditArrives, Delivers
      <4> HIDE DEF h
      <4>2. asks <=> h.created
        BY <3>1
      <4> HIDE DEF asks
      <4>3. \A f : FileCall("reload", f, None).kind = "reload"
        BY DEF FileCall
      <4>4. TreeCall("refresh", {}, None).kind = "refresh"
        BY DEF TreeCall
      <4> QED
        BY <4>1, <4>2, <4>3, <4>4
    <3>2. CASE ~EditArrives /\ ProjectChangedArrives
      <4>1. requests' = requests \cup {TreeCall("refresh", {}, None)}
        BY <3>2 DEF ProjectChangedArrives
      <4>2. TreeCall("refresh", {}, None).kind = "refresh"
        BY DEF TreeCall
      <4> HIDE DEF h, asks
      <4> QED
        BY <4>1, <4>2
    <3> QED
      BY <1>6, <3>1, <3>2
  <2>3. /\ agent'.edits = agent.edits /\ agent'.told = agent.told
        /\ agent'.working = agent.working
        /\ \A i \in DOMAIN agent.stream :
             agent.stream[i] # h =>
               \E j \in DOMAIN agent'.stream : agent'.stream[j] = agent.stream[i]
    BY <2>1, TailFacts
  <2> HIDE DEF h
  <2>4. \A q \in Calls({"structure"})' : q \in Calls({"structure"})
    BY <2>2 DEF Calls
  <2>5. ASSUME NEW g, Announced(g) PROVE Announced(g)'
    <3>1. CASE asks
      <4>1. TreeCall("refresh", {}, None) \in Calls({"create", "refresh"})'
        BY <2>2, <3>1 DEF Calls, TreeCall
      <4> QED
        BY <4>1 DEF Announced, TreeCall
    <3>2. CASE \E q \in Calls({"create", "refresh"}) : ~q.served \/ g \in q.nodes
      BY <2>2, <3>2 DEF Announced, Calls
    <3>3. CASE ~asks /\ Heralded(g)
      BY <2>1, <2>3, <3>3 DEF Announced, Heralded
    <3> QED
      BY <2>5, <3>1, <3>2, <3>3 DEF Announced
  <2>6. BirthsTold'
    BY <1>0, <2>3 DEF BirthsTold
  <2> QED
    BY <1>0, <2>1, <2>4, <2>5, <2>6 DEF Kept
<1>7. ASSUME DoneArrives PROVE Kept'
  <2> SUFFICES ASSUME ~overtaken' PROVE Kept'
    BY DEF Kept
  <2> DEFINE s == agent.stream
  <2>1. /\ s # <<>> /\ Head(s) = Done /\ UNCHANGED <<tree, nodes, deploy>>
        /\ requests' = requests \cup {}
                         \cup {FileCall("reload", g, None) : g \in Touched(agent.edits)}
        /\ agent' = [agent EXCEPT !.stream = <<>>]
    BY <1>7 DEF DoneArrives, Delivers, serverVars
  <2>3. \A q \in Calls({"structure"})' : q \in Calls({"structure"})
    BY <2>1 DEF Calls, FileCall
  <2>4. \A i \in DOMAIN s : s[i] = Done
    <3>1. Len(s) \in Nat /\ DOMAIN s = 1 .. Len(s) /\ Head(s) = s[1] /\ Len(s) # 0
      BY <1>t, <2>1, HeadTailProperties, LenProperties, EmptySeq
    <3>2. 1 \in DOMAIN s /\ s[1] = Done
      BY <2>1, <3>1
    <3>3. 1 = Len(s)
      BY <1>t, <3>2 DEF Streamed
    <3> QED
      BY <3>1, <3>2, <3>3
  <2>5. agent'.edits = agent.edits /\ agent'.told = agent.told /\ agent'.working = agent.working
    BY <1>t, <2>1 DEF Run
  <2>6. \A g : Announced(g) => Announced(g)'
    BY <2>1, <2>4, <2>5 DEF Announced, Heralded, Calls
  <2>7. BirthsTold'
    BY <1>0, <2>5 DEF BirthsTold
  <2> QED
    BY <1>0, <2>1, <2>3, <2>6, <2>7 DEF Kept
<1> QED
  BY <1>1, <1>4, <1>5, <1>6, <1>7

\* Kept holds to begin with, and every step keeps it.
LEMMA KeptAlways ==
  /\ Init => Kept
  /\ Shape /\ Kept /\ [Next]_vars => Kept'
<1>1. Init => Kept
  <2> SUFFICES ASSUME Init PROVE Kept
    OBVIOUS
  <2>1. Calls({"structure"}) = {} /\ ~structureTimer /\ deploy.phase = "no"
    BY DEF Init, Calls, LoadOf, FileCall, Idle
  <2> QED
    BY <2>1 DEF Init, Kept, OvertakenNow, BirthsTold, AtRest
<1>2. ASSUME Shape, Kept, [Next]_vars PROVE Kept'
  <2>1. CASE UNCHANGED vars
    BY <1>2, <2>1 DEF vars, serverVars, editorVars, reviewVars, notes, Kept, OvertakenNow, Calls,
                      Announced, Heralded, BirthsTold
  <2>2. ASSUME FilesOnly /\ \E more, lost : Note(more, lost) PROVE Kept'
    BY <1>2, <2>2, KeptRests DEF FilesOnly
  <2>3. CASE UserStep
    BY <1>2, <2>2, <2>3, ClicksFilesOnly, EditorKept, TextFacts DEF UserStep
  <2>4. CASE TimerStep \/ DeployStep
    BY <1>2, <2>2, <2>4, ClicksFilesOnly, EditorKept DEF TimerStep, DeployStep
  <2>5. CASE ServerStep
    BY <1>2, <2>2, <2>5, CallsFilesOnly, ServerKept DEF ServerStep
  <2>6. CASE Answer
    BY <1>2, <2>2, <2>6, CallsFilesOnly, EditorKept DEF Answer
  <2>7. CASE AgentStep
    BY <1>2, <2>7, AgentKeeps, TextFacts DEF AgentStep
  <2> QED
    BY <1>2, <2>1, <2>3, <2>4, <2>5, <2>6, <2>7 DEF Next
<1> QED
  BY <1>1, <1>2

\* No file is lost by the autosave of the structure or by a deploy, for any
\* number of files, users' moves and agent runs, as long as the news of the
\* tree was neither overtaken nor lost (code-workspace.tsx:394-408, 582-601,
\* 748-765, 936-952).
THEOREM NoFileIsLost == Spec => []EveryFileKept
<1>1. Kept => EveryFileKept
  BY DEF Kept, EveryFileKept
<1> QED
  BY <1>1, InitShape, NextShape, KeptAlways, PTL DEF Spec

-----------------------------------------------------------------------------
(* The editor shows what the server holds. *)

\* A file the run has not edited is in none of its lists.
LEMMA NotStreaming ==
  ASSUME Shape, NEW f \in Files, ~Streaming(f)
  PROVE  /\ f \notin Touched(agent.edits) /\ f \notin Touched(agent.stream)
         /\ \A x : LastIs(agent.edits, f, x)
<1>1. /\ agent.working \/ agent.edits # <<>> \/ agent.stream # <<>> => agent.running
      /\ Touched(agent.stream) \subseteq Touched(agent.edits) \cup {None}
  BY StreamTouches DEF Shape, Streamed
<1>2. f \notin Touched(agent.edits)
  BY <1>1, EmptyList DEF Streaming
<1>3. f \notin Touched(agent.stream)
  BY <1>1, <1>2, EditorAssumption
<1> QED
  BY <1>2, <1>3, UntouchedList

\* No call about f is new but one that asks, and only loads have been answered.
CallsFine(f) ==
  /\ \A r \in CallsOn(f)' : r \in CallsOn(f)
                              \/ (~r.served /\ r.kind \notin {"autosave", "save", "flush"})
  /\ (\A r \in CallsOn(f)' : r.kind = "load") => (\A r \in CallsOn(f) : r.kind = "load")

\* The lists of edits say of f what they said.
ListsFine(f) ==
  /\ \A x : LastIs(agent.edits, f, x) => LastIs(agent'.edits, f, x)
  /\ Streaming(f)' <=> Streaming(f)
  /\ f \in Touched(agent.stream) <=> f \in Touched(agent'.stream)
  /\ Told(f)' <=> Told(f)
  /\ Closing' => Closing \/ Told(f)

\* The server, the buffer and the timer hold of f what they held.
TextsFine(f) == disk'[f] = disk[f] /\ buffers'[f] = buffers[f] /\ timers'[f] = timers[f]

\* A step that is about other files does not disturb f.
LEMMA ShowsRests ==
  ASSUME NEW f \in Files, f \notin crossed', Shows(f), NEW more, NEW lost, Note(more, lost),
         TextsFine(f), CallsFine(f), ListsFine(f)
  PROVE  Shows(f)'
<1>0. ~CrossedNow(f)'
  BY NoteFacts
<1>1. \A r \in CallsOn(f)' :
       /\ r.kind \in {"autosave", "save", "flush"} => r.text = buffers'[f] \/ buffers'[f] = None
       /\ r.kind \in {"reload", "undone"} /\ r.served => r.text = disk'[f]
       /\ r.kind = "load" /\ r.served /\ buffers'[f] = None => r.text = disk'[f] \/ Streaming(f)'
  BY DEF Shows, InStep, TextsFine, CallsFine, ListsFine
<1>2. LastIs(agent'.edits, f, disk'[f])
  BY DEF Shows, InStep, TextsFine, ListsFine
<1>3. /\ timers'[f] # None => timers'[f] = buffers'[f]
      /\ Closing' /\ f \in Touched(agent'.stream) => Told(f)'
      /\ Streaming(f)' /\ f \notin Touched(agent'.stream) /\ (Told(f)' \/ Closing')
           => buffers'[f] = disk'[f]
      /\ (/\ buffers'[f] # None /\ timers'[f] = None /\ ~Streaming(f)'
          /\ \A r \in CallsOn(f)' : r.kind = "load")
           => InStep(f)'
  BY DEF Shows, InStep, TextsFine, CallsFine, ListsFine
<1> QED
  BY <1>0, <1>1, <1>2, <1>3 DEF Shows, InStep

\* When the run rests, its lists say what they said.
LEMMA RunRests == ASSUME UNCHANGED agent, NEW f PROVE ListsFine(f)
BY DEF ListsFine, Streaming, Told, Closing

\* While the exchanges about f do not overlap, a write of f is the only one on
\* its way, and while a save of f is pending there is none.
LEMMA Alone ==
  ASSUME NEW f \in Files, ~CrossedNow(f)
  PROVE  /\ timers[f] # None => CallsOn(f) = {} /\ ~Streaming(f)
         /\ \A w \in CallsOn(f) : w.kind \in Writes => CallsOn(f) = {w} /\ ~Streaming(f)
BY DEF CrossedNow

\* A write agrees if it carries what the buffer holds, or is the save that takes
\* a change back.
LEMMA ShowsWrites ==
  ASSUME Shape', NEW f \in Files, f \notin crossed', NEW more, NEW lost, Note(more, lost),
         timers'[f] = None, NEW w, w \in CallsOn(f)', w.kind \in Writes,
         w.kind = "restore" \/ w.text = buffers'[f] \/ buffers'[f] = None
  PROVE  Shows(f)'
<1>1. ~CrossedNow(f)'
  BY NoteFacts
<1>2. CallsOn(f)' = {w} /\ ~Streaming(f)'
  BY <1>1 DEF CrossedNow
<1>3. f \notin Touched(agent'.stream) /\ \A x : LastIs(agent'.edits, f, x)
  <2>1. f \notin Touched(agent'.edits)
    BY <1>2, EmptyList DEF Shape, Streamed, Streaming
  <2>2. f \notin Touched(agent'.stream)
    BY <2>1, EventFacts, EditorAssumption DEF Shape, Streamed, Touched
  <2> QED
    BY <2>1, <2>2, UntouchedList
<1>4. w.kind # "load" /\ w.kind \notin {"reload", "undone"}
  BY DEF Writes
<1> QED
  BY <1>1, <1>2, <1>3, <1>4 DEF Shows, InStep

\* The fields of the calls the editor makes.
LEMMA CallFields ==
  /\ \A kind, f, text : /\ FileCall(kind, f, text).kind = kind /\ FileCall(kind, f, text).file = f
                        /\ FileCall(kind, f, text).text = text /\ ~FileCall(kind, f, text).served
  /\ \A kind, S, f : /\ TreeCall(kind, S, f).kind = kind /\ ~TreeCall(kind, S, f).served
                     /\ kind \in TreeKinds => kind \notin Reads \cup Writes
  /\ \A f, texts : \A r \in LoadOf(f, texts) : r.kind = "load" /\ ~r.served
BY DEF FileCall, TreeCall, LoadOf, TreeKinds, Reads, Writes

\* Calls that only ask may be added.
LEMMA AskingFine ==
  ASSUME NEW f \in Files, NEW S, requests' = requests \cup S,
         \A r \in S : ~r.served /\ r.kind \notin {"autosave", "save", "flush"}
  PROVE  CallsFine(f)
BY DEF CallsFine, CallsOn, Calls

\* Shows: the clicks that only ask or mark, and the deploy's steps after the flush.
LEMMA ClicksShow ==
  ASSUME Shape, NEW f \in Files, f \notin crossed', Shows(f),
         \/ \E g \in Files : OpenFile(g) \/ RejectChange(g) \/ AcceptChange(g)
         \/ CloseTab \/ PrepareSearch \/ CreateFile \/ StructureTimerFires
         \/ FilesFlushed \/ StructureFlushed \/ DeployEnds
  PROVE  Shows(f)'
<1> USE DEF serverVars, editorVars, reviewVars
<1>0. \A S : /\ requests' = requests \cup S
             /\ \A r \in S : ~r.served /\ r.kind \notin {"autosave", "save", "flush"}
             => CallsFine(f)
  BY AskingFine
<1>c. \A c : /\ requests' = requests \cup {c} /\ ~c.served
             /\ c.kind \notin {"autosave", "save", "flush"}
             => CallsFine(f)
  BY DEF CallsFine, CallsOn, Calls
<1>s. requests' = requests => CallsFine(f)
  BY DEF CallsFine, CallsOn, Calls
<1>n. ASSUME UNCHANGED <<disk, buffers, timers, agent>>, CallsFine(f), NEW more, NEW lost,
             Note(more, lost)
      PROVE  Shows(f)'
  BY <1>n, ShowsRests, RunRests DEF TextsFine
<1>1. ASSUME NEW g \in Files, OpenFile(g) PROVE Shows(f)'
  BY <1>0, <1>1, <1>n, CallFields DEF OpenFile
<1>2. ASSUME CloseTab PROVE Shows(f)'
  BY <1>s, <1>2, <1>n DEF CloseTab
<1>3. ASSUME PrepareSearch PROVE Shows(f)'
  <2>1. \A r \in UNION {LoadOf(g, buffers) : g \in nodes} :
           ~r.served /\ r.kind \notin {"autosave", "save", "flush"}
    BY CallFields
  <2> QED
    BY <1>0, <1>3, <1>n, <2>1 DEF PrepareSearch
<1>4. ASSUME CreateFile PROVE Shows(f)'
  <2> DEFINE c == TreeCall("create", {}, None)
  <2>1. ~c.served /\ c.kind \notin {"autosave", "save", "flush"}
    BY CallFields
  <2>2. /\ requests' = requests \cup {c} /\ UNCHANGED <<disk, buffers, timers, agent>>
        /\ Note({}, FALSE)
    BY <1>4 DEF CreateFile
  <2> HIDE DEF c
  <2> QED
    BY <1>c, <1>n, <2>1, <2>2
<1>5. ASSUME StructureTimerFires PROVE Shows(f)'
  <2> DEFINE c == TreeCall("structure", nodes, active)
  <2>1. ~c.served /\ c.kind \notin {"autosave", "save", "flush"}
    BY CallFields
  <2>2. /\ requests' = requests \cup {c} /\ UNCHANGED <<disk, buffers, timers, agent>>
        /\ Note({}, FALSE)
    BY <1>5 DEF StructureTimerFires
  <2> HIDE DEF c
  <2> QED
    BY <1>c, <1>n, <2>1, <2>2
<1>6. ASSUME FilesFlushed PROVE Shows(f)'
  <2> DEFINE c == TreeCall("structure", deploy.nodes, deploy.file)
  <2>1. ~c.served /\ c.kind \notin {"autosave", "save", "flush"}
    BY CallFields
  <2>2. /\ requests' = requests \cup {c} /\ UNCHANGED <<disk, buffers, timers, agent>>
        /\ Note({}, FALSE)
    BY <1>6 DEF FilesFlushed
  <2> HIDE DEF c
  <2> QED
    BY <1>c, <1>n, <2>1, <2>2
<1>7. ASSUME StructureFlushed PROVE Shows(f)'
  BY <1>s, <1>7, <1>n DEF StructureFlushed
<1>8. ASSUME DeployEnds PROVE Shows(f)'
  BY <1>s, <1>8, <1>n DEF DeployEnds
<1>9. ASSUME NEW g \in Files, RejectChange(g) PROVE Shows(f)'
  <2> DEFINE c == FileCall("restore", g, changes[g].previous)
  <2>1. ~c.served /\ c.kind \notin {"autosave", "save", "flush"}
    BY CallFields
  <2>2. /\ requests' = requests \cup {c} /\ UNCHANGED <<disk, buffers, timers, agent>>
        /\ Note({}, FALSE)
    BY <1>9 DEF RejectChange
  <2> HIDE DEF c
  <2> QED
    BY <1>c, <1>n, <2>1, <2>2
<1>10. ASSUME NEW g \in Files, AcceptChange(g) PROVE Shows(f)'
  <2>1. /\ UNCHANGED <<disk, timers, agent, requests>>
        /\ buffers' = [buffers EXCEPT ![g] = changes[g].new]
        /\ Note(IF buffers[g] # changes[g].new \/ Streaming(g) THEN {g} ELSE {}, FALSE)
    BY <1>10 DEF AcceptChange
  <2>2. f = g => buffers[g] = changes[g].new
    BY <2>1, NoteFacts
  <2>3. buffers'[f] = buffers[f]
    BY <2>1, <2>2 DEF Shape, TypeOK
  <2> QED
    BY <1>s, <2>1, <2>3, ShowsRests, RunRests DEF TextsFine
<1> QED
  BY <1>1, <1>2, <1>3, <1>4, <1>5, <1>6, <1>7, <1>8, <1>9, <1>10

\* Shows: the user types, saves, autosaves and deploys.
LEMMA WritesShow ==
  ASSUME Shape, Shape', NEW f \in Files, f \notin crossed', Shows(f),
         \/ \E text \in Text : Type(text)
         \/ \E g \in Files : AutosaveFires(g)
         \/ SaveFile \/ Deploy
  PROVE  Shows(f)'
<1> USE DEF serverVars, editorVars, reviewVars
<1>t. buffers \in [Files -> Text \cup {None}] /\ timers \in [Files -> Text \cup {None}]
  BY DEF Shape, TypeOK
<1>1. ASSUME NEW text \in Text, Type(text) PROVE Shows(f)'
  <2>0. /\ UNCHANGED <<disk, agent, requests>> /\ Note({}, FALSE)
        /\ buffers' = [buffers EXCEPT ![active] = text]
        /\ timers' = [timers EXCEPT ![active] = text]
    BY <1>1 DEF Type
  <2>1. CASE f # active
    <3>1. CallsFine(f) /\ TextsFine(f) /\ ListsFine(f)
      BY <1>t, <2>0, <2>1, RunRests DEF CallsFine, CallsOn, Calls, TextsFine
    <3> QED
      BY <2>0, <3>1, ShowsRests
  <2>2. CASE f = active
    <3>1. buffers'[f] = text /\ timers'[f] = text /\ text # None
      BY <1>t, <2>0, <2>2, EditorAssumption, TextFacts DEF Text
    <3>2. ~CrossedNow(f)'
      BY <2>0, NoteFacts
    <3>3. CallsOn(f)' = {} /\ ~Streaming(f)'
      BY <3>1, <3>2 DEF CrossedNow
    <3>4. ListsFine(f) /\ disk'[f] = disk[f]
      BY <2>0, RunRests
    <3> QED
      BY <3>1, <3>2, <3>3, <3>4 DEF Shows, InStep, ListsFine
  <2> QED
    BY <2>1, <2>2
<1>2. ASSUME NEW g \in Files, AutosaveFires(g) PROVE Shows(f)'
  <2>0. /\ UNCHANGED <<disk, agent, buffers>> /\ Note({}, FALSE) /\ timers[g] # None
        /\ timers' = [timers EXCEPT ![g] = None]
        /\ requests' = requests \cup {FileCall("autosave", g, timers[g])}
    BY <1>2 DEF AutosaveFires
  <2>1. CASE f # g
    <3>1. CallsFine(f) /\ TextsFine(f) /\ ListsFine(f)
      BY <1>t, <2>0, <2>1, RunRests, CallFields DEF CallsFine, CallsOn, Calls, TextsFine
    <3> QED
      BY <2>0, <3>1, ShowsRests
  <2>2. CASE f = g
    <3> DEFINE w == FileCall("autosave", f, timers[f])
    <3>1. w.kind = "autosave" /\ w.file = f /\ w.text = timers[f] /\ w \in requests'
      BY <2>0, <2>2, CallFields
    <3> HIDE DEF w
    <3>2. w \in CallsOn(f)' /\ w.kind \in Writes
      BY <3>1 DEF CallsOn, Calls, Writes
    <3>3. w.text = buffers'[f] /\ timers'[f] = None
      BY <1>t, <2>0, <2>2, <3>1 DEF Shows, InStep
    <3> QED
      BY <2>0, <3>2, <3>3, ShowsWrites
  <2> QED
    BY <2>1, <2>2
<1>3. ASSUME SaveFile PROVE Shows(f)'
  <2>0. /\ UNCHANGED <<disk, agent, buffers>> /\ Note({}, FALSE)
        /\ timers' = [timers EXCEPT ![active] = None]
        /\ requests' = requests \cup {FileCall("save", active, buffers[active])}
    BY <1>3 DEF SaveFile
  <2>1. CASE f # active
    <3>1. CallsFine(f) /\ TextsFine(f) /\ ListsFine(f)
      BY <1>t, <2>0, <2>1, RunRests, CallFields DEF CallsFine, CallsOn, Calls, TextsFine
    <3> QED
      BY <2>0, <3>1, ShowsRests
  <2>2. CASE f = active
    <3> DEFINE w == FileCall("save", f, buffers[f])
    <3>1. w.kind = "save" /\ w.file = f /\ w.text = buffers[f] /\ w \in requests'
      BY <2>0, <2>2, CallFields
    <3> HIDE DEF w
    <3>2. w \in CallsOn(f)' /\ w.kind \in Writes
      BY <3>1 DEF CallsOn, Calls, Writes
    <3>3. w.text = buffers'[f] /\ timers'[f] = None
      BY <1>t, <2>0, <2>2, <3>1
    <3> QED
      BY <2>0, <3>2, <3>3, ShowsWrites
  <2> QED
    BY <2>1, <2>2
<1>4. ASSUME Deploy PROVE Shows(f)'
  <2> DEFINE flush(g) == FileCall("flush", g, IF buffers[g] = None THEN Empty ELSE buffers[g])
  <2>0. /\ UNCHANGED <<disk, agent, buffers>> /\ Note({}, FALSE)
        /\ timers' = [g \in Files |-> IF g \in nodes THEN None ELSE timers[g]]
        /\ requests' = requests \cup {flush(g) : g \in nodes}
    BY <1>4 DEF Deploy
  <2>f. \A g : /\ flush(g).kind = "flush" /\ flush(g).file = g
               /\ flush(g).text = buffers[g] \/ buffers[g] = None
    BY CallFields
  <2> HIDE DEF flush
  <2>1. CASE f \notin nodes
    <3>1. CallsFine(f) /\ TextsFine(f) /\ ListsFine(f)
      BY <1>t, <2>0, <2>f, <2>1, RunRests DEF CallsFine, CallsOn, Calls, TextsFine
    <3> QED
      BY <2>0, <3>1, ShowsRests
  <2>2. CASE f \in nodes
    <3>1. flush(f) \in CallsOn(f)' /\ flush(f).kind \in Writes
      BY <2>0, <2>f, <2>2 DEF CallsOn, Calls, Writes
    <3>2. timers'[f] = None /\ (flush(f).text = buffers'[f] \/ buffers'[f] = None)
      BY <2>0, <2>f, <2>2
    <3> QED
      BY <2>0, <3>1, <3>2, ShowsWrites
  <2> QED
    BY <2>1, <2>2
<1> QED
  BY <1>1, <1>2, <1>3, <1>4

\* A call about another file may be replaced by others about other files.
LEMMA OthersFine ==
  ASSUME NEW f \in Files, NEW r, r \notin CallsOn(f) \/ r.kind = "load",
         NEW S, \A s \in S : s \notin CallsOn(f)' \/ (~s.served /\ s.kind \in Reads),
         requests' = (requests \ {r}) \cup S
  PROVE  CallsFine(f)
BY DEF CallsFine, CallsOn, Calls, Reads

\* Shows: the server reads a file.
LEMMA ReadShows ==
  ASSUME Shape, NEW f \in Files, f \notin crossed', Shows(f), NEW r \in requests, ServeRead(r)
  PROVE  Shows(f)'
<1> DEFINE s == [r EXCEPT !.served = TRUE, !.text = disk[r.file]]
<1>1. /\ s.kind = r.kind /\ s.file = r.file /\ s.text = disk[r.file]
      /\ r.kind \in Reads
  BY DEF ServeRead, Shape, TypeOK, Request
<1>2. /\ requests' = (requests \ {r}) \cup {s} /\ Note({}, FALSE)
      /\ UNCHANGED <<disk, buffers, timers, agent>>
  BY DEF ServeRead, serverVars, editorVars
<1> HIDE DEF s
<1>3. CASE f # r.file
  <2>1. CallsFine(f)
    BY <1>1, <1>2, <1>3 DEF CallsFine, CallsOn, Calls
  <2> QED
    BY <1>2, <2>1, ShowsRests, RunRests DEF TextsFine
<1>4. CASE f = r.file
  <2>1. \A q \in CallsOn(f)' : q \in CallsOn(f) \/ q = s
    BY <1>2 DEF CallsOn, Calls
  <2>2. (\A q \in CallsOn(f)' : q.kind = "load") => (\A q \in CallsOn(f) : q.kind = "load")
    BY <1>1, <1>2, <1>4 DEF CallsOn, Calls
  <2>3. ~CrossedNow(f)' /\ ListsFine(f)
    BY <1>2, NoteFacts, RunRests
  <2>4. s.kind \notin {"autosave", "save", "flush"} /\ s.text = disk[f]
    BY <1>1, <1>4 DEF Reads
  <2> QED
    BY <1>2, <2>1, <2>2, <2>3, <2>4 DEF Shows, InStep, ListsFine
<1> QED
  BY <1>3, <1>4

\* Shows: the server writes a file.
LEMMA SaveShows ==
  ASSUME Shape, NEW f \in Files, f \notin crossed', Shows(f), NEW r \in requests,
         ServeSave(r) \/ ServeRestore(r)
  PROVE  Shows(f)'
<1> DEFINE S == IF r.kind = "restore" THEN {FileCall("undone", r.file, None)} ELSE {}
<1>1. /\ requests' = (requests \ {r}) \cup S /\ Note({}, FALSE)
      /\ r.kind \in Writes /\ UNCHANGED <<buffers, agent>>
      /\ disk' = [disk EXCEPT ![r.file] = r.text] /\ r.file \in tree
      /\ timers' = timers \/ timers' = [timers EXCEPT ![r.file] = None]
  BY DEF ServeSave, ServeRestore, Writes, editorVars
<1>2. /\ \A s \in S : s.kind = "undone" /\ s.file = r.file /\ ~s.served
      /\ r.kind = "restore" => S # {}
  BY CallFields
<1>t. /\ disk \in [Files -> Text] /\ timers \in [Files -> Text \cup {None}] /\ r.file \in Files
      /\ r.kind \notin Reads
  BY <1>1 DEF Shape, TypeOK, Reads, Writes
<1>r. S # {} => r.kind = "restore"
  OBVIOUS
<1> HIDE DEF S
<1>3. CASE f # r.file
  <2>1. CallsFine(f)
    BY <1>1, <1>2, <1>3 DEF CallsFine, CallsOn, Calls
  <2>2. TextsFine(f)
    BY <1>1, <1>3, <1>t DEF TextsFine
  <2> QED
    BY <1>1, <2>1, <2>2, ShowsRests, RunRests
<1>4. CASE f = r.file
  <2>1. r \in CallsOn(f) /\ ~CrossedNow(f)
    BY <1>1, <1>4 DEF CallsOn, Calls, Shows, InStep
  <2>2. CallsOn(f) = {r} /\ ~Streaming(f) /\ timers[f] = None
    BY <1>1, <2>1, Alone
  <2>3. CallsOn(f)' = S
    BY <1>1, <1>2, <1>4, <2>2 DEF CallsOn, Calls, Reads, Writes
  <2>4. /\ f \notin Touched(agent'.stream) /\ \A x : LastIs(agent'.edits, f, x)
        /\ ~Streaming(f)' /\ timers'[f] = None /\ ~CrossedNow(f)'
    BY <1>1, <1>t, <2>2, NotStreaming, NoteFacts DEF Streaming
  <2>5. disk'[f] = r.text /\ buffers'[f] = buffers[f]
    BY <1>1, <1>4, <1>t
  <2>6. CASE S = {}
    <3>1. buffers[f] # None => disk'[f] = buffers'[f]
      BY <1>1, <1>2, <2>1, <2>5, <2>6 DEF Shows, InStep, Writes
    <3> QED
      BY <2>3, <2>4, <2>5, <2>6, <3>1 DEF Shows, InStep
  <2>7. CASE S # {}
    BY <1>2, <2>3, <2>4, <2>7 DEF Shows, InStep
  <2> QED
    BY <2>6, <2>7
<1> QED
  BY <1>3, <1>4

\* Shows: the server and the editor exchange the nodes.
LEMMA TreeShows ==
  ASSUME Shape, NEW f \in Files, f \notin crossed', Shows(f), NEW r \in requests,
         \/ ServeRefresh(r) \/ ServeCreate(r) \/ ServeStructure(r)
         \/ ApplyRemoteProject(r) \/ ProjectCallFails(r)
  PROVE  Shows(f)'
<1> USE DEF serverVars, editorVars
<1>1. r \in Request /\ r.kind \in TreeKinds
  BY DEF Shape, TypeOK, TreeKinds, ServeRefresh, ServeCreate, ServeStructure, ApplyRemoteProject,
     ProjectCallFails
<1>2. r \notin CallsOn(f)
  BY <1>1, CallFields DEF CallsOn, Calls, TreeKinds, Reads, Writes
<1>3. TextsFine(f) /\ ListsFine(f)
  BY RunRests DEF TextsFine, ServeRefresh, ServeCreate, ServeStructure, ApplyRemoteProject,
     ProjectCallFails
<1>4. \E more, lost : Note(more, lost)
  BY DEF ServeRefresh, ServeCreate, ServeStructure, ApplyRemoteProject, ProjectCallFails
<1>5. CASE requests' = requests \ {r}
  <2>1. CallsFine(f)
    BY <1>2, <1>5 DEF CallsFine, CallsOn, Calls
  <2> QED
    BY <1>3, <1>4, <2>1, ShowsRests
<1>6. ASSUME NEW s, s.kind = r.kind, requests' = (requests \ {r}) \cup {s} PROVE Shows(f)'
  <2>1. s \notin CallsOn(f)'
    BY <1>1, <1>6 DEF CallsOn, Calls, TreeKinds, Reads, Writes
  <2>2. CallsFine(f)
    BY <1>2, <1>6, <2>1 DEF CallsFine, CallsOn, Calls
  <2> QED
    BY <1>3, <1>4, <2>2, ShowsRests
<1>7. CASE ServeRefresh(r)
  <2>1. [r EXCEPT !.served = TRUE, !.nodes = tree, !.file = serverOpen].kind = r.kind
    BY <1>1 DEF Request
  <2> QED
    BY <1>6, <1>7, <2>1 DEF ServeRefresh
<1>8. CASE ServeCreate(r)
  <2> DEFINE all == tree'
  <2>1. PICK g \in Files : requests' = (requests \ {r})
                            \cup {[r EXCEPT !.served = TRUE, !.nodes = all, !.file = g]}
    BY <1>8 DEF ServeCreate
  <2> HIDE DEF all
  <2>2. [r EXCEPT !.served = TRUE, !.nodes = all, !.file = g].kind = r.kind
    BY <1>1 DEF Request
  <2> QED
    BY <1>6, <2>1, <2>2
<1>9. CASE ApplyRemoteProject(r)
  <2>1. requests' = (requests \ {r}) \cup LoadOf(r.file, buffers)
    BY <1>9 DEF ApplyRemoteProject
  <2>2. \A s \in LoadOf(r.file, buffers) : ~s.served /\ s.kind \in Reads
    BY CallFields DEF Reads
  <2>3. CallsFine(f)
    BY <1>2, <2>1, <2>2, OthersFine
  <2> QED
    BY <1>3, <1>4, <2>3, ShowsRests
<1> QED
  BY <1>5, <1>7, <1>8, <1>9 DEF ServeStructure, ProjectCallFails

\* What the server read is what it holds when it fills the buffer.
LEMMA FilledShows ==
  ASSUME Shape, NEW f \in Files, f \notin crossed', Shows(f), NEW r \in CallsOn(f),
         r.kind \in Reads, r.served, requests' = requests \ {r}, NEW more, NEW lost,
         Note(more, lost), UNCHANGED <<disk, timers, agent>>,
         \/ buffers'[f] = r.text /\ r.kind # "load"
         \/ buffers'[f] = Fetched(f, r.text) /\ r.kind = "load" /\ buffers[f] = None
         \/ r.kind = "load" /\ buffers[f] # None /\ buffers'[f] = buffers[f]
  PROVE  Shows(f)'
<1>1. ~CrossedNow(f) /\ ~CrossedNow(f)' /\ ListsFine(f)
  BY NoteFacts, RunRests DEF Shows
<1>2. timers[f] = None /\ \A q \in CallsOn(f) : q.kind \notin Writes
  BY <1>1, Alone DEF Reads, Writes
<1>3. CallsOn(f)' = CallsOn(f) \ {r}
  BY DEF CallsOn, Calls
<1>4. r.text \in Text /\ r.text # None /\ disk[f] # None
  BY EditorAssumption, TextFacts DEF Shape, TypeOK, SoundCall, Reads, Text, CallsOn, Calls
<1>5. CASE buffers'[f] = r.text /\ r.kind # "load"
  <2>1. r.text = disk[f]
    BY <1>5 DEF Shows, Reads
  <2> QED
    BY <1>1, <1>2, <1>3, <1>4, <1>5, <2>1 DEF Shows, InStep, Writes, ListsFine
<1>7. CASE buffers'[f] = Fetched(f, r.text) /\ r.kind = "load" /\ buffers[f] = None
  <2>1. r.text = disk[f] \/ Streaming(f)
    BY <1>7 DEF Shows
  <2>2. ~(Streaming(f) /\ f \notin Touched(agent.stream) /\ (Told(f) \/ Closing))
    BY <1>4, <1>7 DEF Shows
  <2>3. buffers'[f] = r.text \/ (r.text = Empty /\ buffers'[f] = Demo[f])
    BY <1>7 DEF Fetched
  <2>4. buffers'[f] # None
    BY <1>4, <2>3, EditorAssumption
  <2> QED
    BY <1>1, <1>2, <1>3, <1>4, <1>7, <2>1, <2>2, <2>3, <2>4
       DEF Shows, InStep, Writes, ListsFine
<1>6. CASE r.kind = "load" /\ buffers[f] # None /\ buffers'[f] = buffers[f]
  BY <1>1, <1>2, <1>3, <1>6 DEF Shows, InStep, Writes, ListsFine
<1> QED
  BY <1>5, <1>6, <1>7

\* Shows: the answers about files, good and bad.
LEMMA AnswersShow ==
  ASSUME Shape, NEW f \in Files, f \notin crossed', Shows(f), NEW r \in requests,
         \/ FileLoaded(r) \/ LoadFails(r) \/ FileReloaded(r) \/ ReloadFails(r) \/ SaveFails(r)
         \/ ChangeUndone(r) \/ UndoneUnseen(r) \/ RejectFails(r) \/ FlushFails(r)
  PROVE  Shows(f)'
<1> USE DEF serverVars, editorVars
<1>t. /\ buffers \in [Files -> Text \cup {None}] /\ disk \in [Files -> Text] /\ r \in Request
      /\ \E more, lost : Note(more, lost)
  BY DEF Shape, TypeOK, FileLoaded, LoadFails, FileReloaded, ReloadFails, SaveFails, ChangeUndone,
     UndoneUnseen, RejectFails, FlushFails
<1>1. requests' = requests \ {r} /\ UNCHANGED <<timers, agent>>
  BY DEF FileLoaded, LoadFails, FileReloaded, ReloadFails, SaveFails, ChangeUndone,
     UndoneUnseen, RejectFails, FlushFails
<1>2. CASE f # r.file
  <2>1. disk'[f] = disk[f] /\ buffers'[f] = buffers[f]
    <3>1. \/ UNCHANGED <<disk, buffers>>
          \/ buffers' = buffers /\ disk' = [disk EXCEPT ![r.file] = r.text]
          \/ disk' = disk /\ buffers' = [buffers EXCEPT ![r.file] = r.text]
          \/ \E text : disk' = disk /\ buffers' = [buffers EXCEPT ![r.file] = text]
      BY DEF FileLoaded, LoadFails, FileReloaded, ReloadFails, SaveFails, ChangeUndone,
         UndoneUnseen, RejectFails, FlushFails
    <3> QED
      BY <1>t, <1>2, <3>1
  <2>2. CallsFine(f)
    BY <1>1, <1>2 DEF CallsFine, CallsOn, Calls
  <2> QED
    BY <1>t, <1>1, <2>1, <2>2, ShowsRests, RunRests DEF TextsFine
<1>3. CASE f = r.file
  <2>1. CASE FileLoaded(r)
    <3>1. /\ r \in CallsOn(f) /\ r.kind = "load" /\ r.kind \in Reads /\ r.served
          /\ buffers' = IF buffers[f] # None THEN buffers
                        ELSE [buffers EXCEPT ![f] = Fetched(f, r.text)]
          /\ disk' = disk
      BY <1>3, <2>1 DEF FileLoaded, CallsOn, Calls, Reads
    <3>2. \/ buffers'[f] = Fetched(f, r.text) /\ buffers[f] = None
          \/ buffers[f] # None /\ buffers'[f] = buffers[f]
      BY <1>t, <3>1
    <3> QED
      BY <1>t, <1>1, <3>1, <3>2, FilledShows
  <2>2. CASE FileReloaded(r) \/ ChangeUndone(r)
    <3>1. /\ r \in CallsOn(f) /\ r.kind # "load" /\ r.kind \in Reads /\ r.served
          /\ buffers' = [buffers EXCEPT ![f] = r.text] /\ disk' = disk
      BY <1>3, <2>2 DEF FileReloaded, ChangeUndone, CallsOn, Calls, Reads
    <3>2. buffers'[f] = r.text
      BY <1>t, <3>1
    <3> QED
      BY <1>t, <1>1, <3>1, <3>2, FilledShows
  <2>3. ASSUME LoadFails(r) \/ ReloadFails(r) \/ SaveFails(r) \/ UndoneUnseen(r) \/ RejectFails(r)
               \/ FlushFails(r)
        PROVE  FALSE
    <3>1. \E lost : Note({r.file}, lost)
      BY <2>3 DEF LoadFails, ReloadFails, SaveFails, UndoneUnseen, RejectFails, FlushFails
    <3> QED
      BY <1>3, <3>1, NoteFacts
  <2> QED
    BY <2>1, <2>2, <2>3
<1> QED
  BY <1>2, <1>3

\* Shows: the run writes f on the server; it has not told of that yet.
LEMMA RunShows ==
  ASSUME Shape, NEW f \in Files, f \notin crossed', NEW text \in Text,
         NEW e \in Edit, e.file = f, e.new = text, AgentWrites(e),
         e.created => f \notin Touched(agent.edits),
         disk' = [disk EXCEPT ![f] = text], UNCHANGED <<buffers, timers, requests>>,
         ~CrossedNow(f)', Shows(f), \A q \in CallsOn(f) : q.kind \notin {"reload", "undone"}
  PROVE  Shows(f)'
<1>1. /\ agent.edits \in Seq(Event) /\ e \in Event /\ disk'[f] = text
      /\ Len(agent.edits) \in Nat /\ agent.told \in Nat /\ agent.told <= Len(agent.edits)
  BY RunFacts DEF Shape, TypeOK, Event
<1>2. /\ agent'.running /\ agent'.working /\ agent'.edits = Append(agent.edits, e)
      /\ agent'.told = agent.told /\ Touched(agent'.edits) = Touched(agent.edits) \cup {f}
      /\ Len(agent.edits) + 1 \in DOMAIN agent'.edits
      /\ agent'.edits[Len(agent.edits) + 1] = e
  BY WritesFacts
<1>3. LastIs(agent'.edits, f, text)
  BY <1>1, <1>2, AppendList
<1>4. Streaming(f)' /\ ~Told(f)' /\ ~Closing'
  <2>1. ~(Len(agent.edits) + 1 <= agent.told)
    BY <1>1
  <2> QED
    BY <1>2, <2>1 DEF Streaming, Told, Closing
<1>5. timers'[f] = None /\ \A q \in CallsOn(f)' : q.kind \notin Writes
  BY <1>4 DEF CrossedNow
<1>6. CallsOn(f)' = CallsOn(f)
  BY DEF CallsOn, Calls
<1> QED
  BY <1>1, <1>3, <1>4, <1>5, <1>6 DEF Shows, InStep, Writes

\* An edit of another file says nothing of f.
LEMMA RunElsewhere ==
  ASSUME Shape, NEW f \in Files, NEW e \in Edit, e.file # f, AgentWrites(e),
         e.created => e.file \notin Touched(agent.edits)
  PROVE  ListsFine(f)
<1>1. /\ agent.edits \in Seq(Event) /\ e \in Event
      /\ agent.running /\ agent'.running /\ agent'.working
      /\ agent'.stream = agent.stream /\ agent'.edits = Append(agent.edits, e)
      /\ agent'.told = agent.told
      /\ Touched(agent'.edits) = Touched(agent.edits) \cup {e.file}
      /\ agent'.edits[Len(agent.edits) + 1] = e
      /\ \A n \in DOMAIN agent.edits :
           n \in DOMAIN agent'.edits /\ agent'.edits[n] = agent.edits[n]
      /\ \A n \in DOMAIN agent'.edits : n \in DOMAIN agent.edits \/ n = Len(agent.edits) + 1
  BY WritesFacts, RunFacts DEF Event
<1>2. \A x : LastIs(agent.edits, f, x) => LastIs(agent'.edits, f, x)
  <2>1. \A x : LastIs(agent.edits, f, x) => LastIs(Append(agent.edits, e), f, x)
    BY <1>1, AppendList
  <2> QED
    BY <1>1, <2>1
<1>3. Told(f)' <=> Told(f)
  BY <1>1 DEF Told
<1> QED
  BY <1>1, <1>2, <1>3 DEF ListsFine, Streaming, Closing

\* Nor does telling of one; an edit of f itself goes to the stream, unless
\* another one did, and then more of f than one edit is on its way.
LEMMA TellsElsewhere ==
  ASSUME Shape, NEW f \in Files, AgentTells
  PROVE  /\ agent'.edits = agent.edits /\ agent'.working
         /\ Streaming(f)' <=> Streaming(f)
         /\ f \in Touched(agent.stream) => f \in Touched(agent'.stream)
         /\ agent.edits[agent.told + 1].file # f => ListsFine(f)
         /\ agent.edits[agent.told + 1].file = f => f \in Touched(agent'.stream) \/ ~Told(f)'
<1> DEFINE k == agent.told + 1
           e == agent.edits[k]
<1>1. /\ agent.stream \in Seq(Event) /\ agent.told \in Nat
      /\ DOMAIN agent.edits = 1 .. Len(agent.edits) /\ Len(agent.edits) \in Nat
  BY RunFacts
<1>2. /\ agent.running /\ agent'.running /\ agent'.working
      /\ agent'.edits = agent.edits /\ agent'.told = k /\ k \in DOMAIN agent.edits
      /\ IsFirst(agent.edits, k) => agent'.stream = Append(agent.stream, e)
      /\ ~IsFirst(agent.edits, k) => agent'.stream = agent.stream
  BY TellsFacts
<1>3. e \in Event
  BY <1>2, RunFacts DEF Event
<1>4. Touched(Append(agent.stream, e)) = Touched(agent.stream) \cup {e.file}
  BY <1>1, <1>3, AppendList
<1>5. ASSUME e.file # f PROVE Told(f)' <=> Told(f)
  <2>1. \A n \in DOMAIN agent.edits : agent.edits[n].file = f => (n <= k <=> n <= agent.told)
    BY <1>1, <1>2, <1>5
  <2> HIDE DEF k, e
  <2> QED
    BY <1>2, <2>1 DEF Told
<1>6. ASSUME e.file = f, ~IsFirst(agent.edits, k) PROVE ~Told(f)'
  <2>1. PICK m \in DOMAIN agent.edits : m < k /\ agent.edits[m].file = e.file
    BY <1>6 DEF IsFirst
  <2>2. m # k
    BY <1>1, <1>2, <2>1
  <2> HIDE DEF k
  <2> QED
    BY <1>2, <1>6, <2>1, <2>2 DEF Told
<1> HIDE DEF k, e
<1>7. ASSUME e.file # f PROVE ListsFine(f)
  <2>0. agent.running /\ agent'.running /\ agent'.working /\ agent'.edits = agent.edits
    BY <1>2
  <2>1. ~Closing'
    BY <2>0 DEF Closing
  <2>4. Touched(agent'.edits) = Touched(agent.edits)
    BY <2>0
  <2>5. Streaming(f)' <=> Streaming(f)
    BY <2>0, <2>4 DEF Streaming
  <2>2. f \in Touched(agent.stream) <=> f \in Touched(agent'.stream)
    <3>1. agent'.stream = Append(agent.stream, e) \/ agent'.stream = agent.stream
      BY <1>2
    <3>2. agent'.stream = agent.stream =>
            (f \in Touched(agent.stream) <=> f \in Touched(agent'.stream))
      OBVIOUS
    <3>3. agent'.stream = Append(agent.stream, e) =>
            Touched(agent'.stream) = Touched(agent.stream) \cup {e.file}
      BY <1>4
    <3> QED
      BY <1>7, <3>1, <3>2, <3>3
  <2>3. Told(f)' <=> Told(f)
    BY <1>5, <1>7
  <2> QED
    BY <2>0, <2>1, <2>2, <2>3, <2>5 DEF ListsFine
<1> QED
  BY <1>2, <1>4, <1>6, <1>7 DEF Streaming, k, e

\* Shows: the run starts, writes edits, creates files, tells of them, stops and ends.
LEMMA AgentShows ==
  ASSUME Shape, NEW f \in Files, f \notin crossed', Shows(f),
         \/ StartAgent \/ AgentTells \/ AgentDone \/ AgentFails \/ StreamBreaks \/ StreamEnds
         \/ \E g \in Files, text \in Text : AgentEdits(g, text) \/ AgentCreates(g, text)
  PROVE  Shows(f)'
<1> USE DEF serverVars, editorVars
<1>t. /\ agent \in Run /\ agent.stream \in Seq(Event) /\ disk \in [Files -> Text] /\ Streamed
      /\ \E more, lost : Note(more, lost)
  BY RunFacts DEF Shape, TypeOK, StartAgent, AgentTells, AgentDone, AgentFails, StreamBreaks,
     StreamEnds, AgentEdits, AgentCreates
<1>q. requests' = requests => CallsFine(f)
  BY DEF CallsFine, CallsOn, Calls
<1>l. ASSUME ListsFine(f), UNCHANGED <<disk, buffers, timers, requests>> PROVE Shows(f)'
  BY <1>t, <1>q, <1>l, ShowsRests DEF TextsFine
<1>u. ASSUME f \notin Touched(agent.edits), f \notin Touched(agent'.edits),
             f \notin Touched(agent.stream), f \notin Touched(agent'.stream)
      PROVE  ListsFine(f)
  <2>1. Told(f) /\ Told(f)' /\ ~Streaming(f) /\ ~Streaming(f)'
    BY <1>u DEF Told, Streaming, Touched
  <2> QED
    BY <1>u, <2>1, UntouchedList DEF ListsFine
<1>1. ASSUME StartAgent PROVE Shows(f)'
  <2>1. /\ UNCHANGED <<disk, buffers, timers, requests>>
        /\ agent.edits = <<>> /\ agent.stream = <<>>
        /\ agent'.edits = <<>> /\ agent'.stream = <<>>
    BY <1>1, <1>t DEF StartAgent, Streamed, AtRest
  <2> QED
    BY <1>l, <1>u, <2>1, EmptyList
<1>2. ASSUME AgentTells PROVE Shows(f)'
  <2>1. UNCHANGED <<disk, buffers, timers, requests>>
    BY <1>2 DEF AgentTells
  <2>2. CASE agent.edits[agent.told + 1].file # f
    BY <1>2, <1>l, <2>1, <2>2, TellsElsewhere
  <2>3. CASE agent.edits[agent.told + 1].file = f
    <3>1. /\ agent'.edits = agent.edits /\ ~Closing' /\ (Streaming(f)' <=> Streaming(f))
          /\ f \in Touched(agent'.stream) \/ ~Told(f)'
      BY <1>2, <2>3, TellsElsewhere DEF Closing
    <3>2. ~CrossedNow(f)' /\ CallsOn(f)' = CallsOn(f)
      BY <1>t, <2>1, NoteFacts DEF CallsOn, Calls
    <3> QED
      BY <2>1, <3>1, <3>2 DEF Shows, InStep
  <2> QED
    BY <2>2, <2>3
<1>3. ASSUME AgentDone \/ AgentFails \/ StreamBreaks PROVE Shows(f)'
  <2>1. UNCHANGED <<disk, buffers, timers, requests>>
    BY <1>3 DEF AgentDone, AgentFails, StreamBreaks
  <2>2. /\ agent'.edits = agent.edits /\ agent'.told = agent.told
        /\ agent.running /\ agent'.running
    BY <1>3, StopsFacts
  <2>3. (Streaming(f)' <=> Streaming(f)) /\ (Told(f)' <=> Told(f))
    BY <2>2 DEF Streaming, Told
  <2>4. CASE AgentDone
    <3>1. agent'.stream = Append(agent.stream, Done) /\ Done \in Event /\ Done.file # f
      BY <2>4, StopsFacts, EventFacts, EditorAssumption
    <3>2. Touched(Append(agent.stream, Done)) = Touched(agent.stream) \cup {Done.file}
      BY <1>t, <3>1, AppendList
    <3>3. /\ Len(agent.stream) + 1 \in DOMAIN agent'.stream
          /\ agent'.stream[Len(agent.stream) + 1] = Done
      BY <1>t, <3>1, AppendProperties, LenProperties
    <3>4. ListsFine(f)
      BY <2>2, <2>3, <3>1, <3>2, <3>3 DEF ListsFine, Closing
    <3> QED
      BY <1>l, <2>1, <3>4
  <2>5. CASE AgentFails
    <3> DEFINE untold == {g \in Files : ~Told(g)}
    <3>0. \E lost : Note(untold, lost)
      BY <2>5 DEF AgentFails
    <3>3. f \notin untold
      BY <3>0, NoteFacts
    <3>1. Told(f) /\ agent'.stream = agent.stream
      BY <2>5, <3>3, StopsFacts
    <3>2. ListsFine(f)
      BY <2>2, <2>3, <3>1 DEF ListsFine
    <3> QED
      BY <1>l, <2>1, <3>2
  <2>6. CASE StreamBreaks
    <3>1. f \notin Touched(agent.edits) /\ agent'.stream = <<>>
      BY <2>6, StopsFacts, NoteFacts DEF StreamBreaks
    <3>2. f \notin Touched(agent.stream)
      BY <3>1, StreamTouches, EditorAssumption
    <3> QED
      BY <1>l, <1>u, <2>1, <2>2, <3>1, <3>2, EmptyList
  <2> QED
    BY <1>3, <2>4, <2>5, <2>6
<1>6. ASSUME StreamEnds PROVE Shows(f)'
  <2>1. /\ UNCHANGED <<disk, buffers, timers, requests>> /\ agent.stream = <<>> /\ ~agent.working
        /\ ~agent'.running /\ agent'.edits = <<>> /\ agent'.stream = <<>>
    BY <1>6, <1>t DEF StreamEnds, Run
  <2>2. /\ ~Streaming(f)' /\ f \notin Touched(agent'.edits) /\ f \notin Touched(agent'.stream)
        /\ f \notin Touched(agent.stream) /\ Closing
    BY <2>1, EmptyList DEF Streaming, Closing
  <2>3. CASE ~Streaming(f)
    BY <1>l, <1>u, <2>1, <2>2, <2>3, NotStreaming
  <2>4. CASE Streaming(f)
    <3>1. buffers[f] = disk[f] /\ disk[f] # None
      BY <1>t, <2>2, <2>4, EditorAssumption, TextFacts DEF Shows, InStep, Text
    <3>2. ~CrossedNow(f)' /\ CallsOn(f)' = CallsOn(f)
      BY <1>t, <2>1, NoteFacts DEF CallsOn, Calls
    <3>3. \A x : LastIs(agent'.edits, f, x)
      BY <2>2, UntouchedList
    <3>4. disk'[f] = disk[f] /\ buffers'[f] = buffers[f] /\ timers'[f] = timers[f]
      BY <2>1
    <3> QED
      BY <2>2, <3>1, <3>2, <3>3, <3>4 DEF Shows, InStep
  <2> QED
    BY <2>3, <2>4
<1>4. ASSUME NEW g \in Files, NEW text \in Text, AgentEdits(g, text) PROVE Shows(f)'
  <2> DEFINE e == [file |-> g, previous |-> disk[g], new |-> text, created |-> FALSE]
  <2>1. e \in Edit /\ AgentWrites(e) /\ e.file = g /\ e.new = text /\ ~e.created
    BY <1>4, <1>t DEF AgentEdits, Edit
  <2>2. /\ UNCHANGED <<buffers, timers, requests>> /\ disk' = [disk EXCEPT ![g] = text]
        /\ Note({r.file : r \in Calls({"reload", "undone"})} \cap {g}, FALSE)
    BY <1>4 DEF AgentEdits
  <2> HIDE DEF e
  <2>4. CASE f # g
    <3>1. ListsFine(f) /\ TextsFine(f)
      BY <1>t, <2>1, <2>2, <2>4, RunElsewhere DEF TextsFine
    <3> QED
      BY <1>q, <2>2, <3>1, ShowsRests
  <2>5. CASE f = g
    <3>1. f \notin {r.file : r \in Calls({"reload", "undone"})} \cap {g} /\ ~CrossedNow(f)'
      BY <2>2, NoteFacts
    <3>2. \A q \in CallsOn(f) : q.kind \notin {"reload", "undone"}
      BY <2>5, <3>1 DEF CallsOn, Calls
    <3> QED
      BY <2>1, <2>2, <2>5, <3>1, <3>2, RunShows
  <2> QED
    BY <2>4, <2>5
<1>5. ASSUME NEW g \in Files, NEW text \in Text, AgentCreates(g, text) PROVE Shows(f)'
  <2> DEFINE e == [file |-> g, previous |-> Empty, new |-> text, created |-> TRUE]
  <2>1. /\ e \in Edit /\ AgentWrites(e) /\ e.file = g /\ e.new = text
        /\ g \notin Touched(agent.edits)
    BY <1>5, TextFacts DEF AgentCreates, Edit, Shape, Known
  <2>2. /\ UNCHANGED <<buffers, timers, requests>> /\ disk' = [disk EXCEPT ![g] = text]
        /\ Note({}, FALSE) /\ g \notin born
    BY <1>5 DEF AgentCreates
  <2> HIDE DEF e
  <2>4. CASE f # g
    <3>1. ListsFine(f) /\ TextsFine(f)
      BY <1>t, <2>1, <2>2, <2>4, RunElsewhere DEF TextsFine
    <3> QED
      BY <1>q, <2>2, <3>1, ShowsRests
  <2>5. CASE f = g
    <3>1. CallsOn(f) = {} /\ ~CrossedNow(f)'
      BY <2>2, <2>5, NoteFacts DEF CallsOn, Calls, Shape, SoundCall
    <3> QED
      BY <2>1, <2>2, <2>5, <3>1, RunShows
  <2> QED
    BY <2>4, <2>5
<1> QED
  BY <1>1, <1>2, <1>3, <1>4, <1>5, <1>6

\* What the stream says of a file once its first event has arrived.
LEMMA TailTouches ==
  ASSUME Shape, Noted, agent.stream # <<>>, Head(agent.stream) # Done,
         \/ agent' = [agent EXCEPT !.stream = Tail(@)]
         \/ agent' = [agent EXCEPT !.stream = [@ EXCEPT ![1] = ProjectChanged]]
  PROVE  /\ agent'.edits = agent.edits /\ agent'.told = agent.told
         /\ agent'.working = agent.working /\ agent'.running = agent.running
         /\ Closing' => Closing
         /\ Head(agent.stream).file \in Touched(agent.stream)
         /\ \A f \in Files : /\ f \in Touched(agent'.stream) => f \in Touched(agent.stream)
                             /\ f \in Touched(agent.stream) /\ f # Head(agent.stream).file
                                  => f \in Touched(agent'.stream)
<1>1. /\ agent'.edits = agent.edits /\ agent'.told = agent.told
      /\ agent'.working = agent.working /\ agent'.running = agent.running
      /\ \A i \in DOMAIN agent.stream :
           agent.stream[i] # Head(agent.stream) =>
             \E j \in DOMAIN agent'.stream : agent'.stream[j] = agent.stream[i]
      /\ \A j \in DOMAIN agent'.stream :
           \/ agent'.stream[j] = ProjectChanged
           \/ \E i \in DOMAIN agent.stream : agent'.stream[j] = agent.stream[i]
  BY TailFacts
<1>2. 1 \in DOMAIN agent.stream /\ Head(agent.stream) = agent.stream[1]
  BY RunFacts, EmptySeq
<1>3. \A f \in Files : ProjectChanged.file # f
  BY EventFacts, EditorAssumption
<1> QED
  BY <1>1, <1>2, <1>3 DEF Closing, Touched

\* Shows: edits arrive, and the last one of a file is what the server holds.
LEMMA DeliveredShows ==
  ASSUME Shape, NEW f \in Files, f \notin crossed', Shows(f),
         NEW more, NEW lost, Note(more, lost),
         NEW s \in Seq(Edit), NEW calls, Delivers(s, calls), UNCHANGED disk,
         \A r \in calls : r.kind = "refresh",
         agent'.edits = agent.edits, agent'.running = agent.running, agent'.told = agent.told,
         f \in Touched(s) =>
           /\ agent.running /\ f \in Touched(agent.edits)
           /\ f \notin Touched(agent'.stream) /\ (Told(f) \/ Closing') => LastIs(s, f, disk[f])
           /\ f \in Touched(agent'.stream) /\ Closing' => Told(f),
         f \notin Touched(s) => /\ f \in Touched(agent.stream) <=> f \in Touched(agent'.stream)
                                /\ Closing' => Closing \/ Told(f)
  PROVE  Shows(f)'
<1>t. changes \in Records /\ buffers \in Buffers /\ disk \in [Files -> Text] /\ None \notin Text
  BY EditorAssumption, TextFacts DEF Shape, TypeOK, Records, Buffers, Text
<1>1. /\ requests' = requests \cup calls \cup {FileCall("reload", g, None) : g \in Touched(s)}
      /\ timers' = [g \in Files |-> IF g \in Touched(s) THEN None ELSE timers[g]]
  BY DEF Delivers
<1>2. \A r \in CallsOn(f)' :
         r \in CallsOn(f) \/ (f \in Touched(s) /\ r.kind = "reload" /\ ~r.served)
  BY <1>1, CallFields DEF CallsOn, Calls, Reads, Writes
<1>3. CallsOn(f) \subseteq CallsOn(f)'
  BY <1>1 DEF CallsOn, Calls
<1>4. ~CrossedNow(f) /\ ~CrossedNow(f)' /\ (Streaming(f)' <=> Streaming(f))
      /\ (Told(f)' <=> Told(f))
  BY NoteFacts DEF Shows, InStep, Streaming, Told
<1>5. LastIs(agent'.edits, f, disk'[f])
  BY DEF Shows, InStep
<1>6. CASE f \notin Touched(s)
  <2>1. buffers'[f] = buffers[f] /\ timers'[f] = timers[f]
    BY <1>t, <1>1, <1>6, DeliversFacts
  <2>2. CallsFine(f) /\ TextsFine(f) /\ ListsFine(f)
    BY <1>2, <1>3, <1>4, <1>6, <2>1 DEF CallsFine, TextsFine, ListsFine
  <2> QED
    BY <2>2, ShowsRests
<1>7. CASE f \in Touched(s)
  <2>1. /\ buffers'[f] \in Text
        /\ \A x : LastIs(s, f, x) => buffers'[f] = x
    BY <1>t, <1>7, DeliversFacts
  <2>2. Streaming(f) /\ timers'[f] = None
    BY <1>1, <1>7 DEF Streaming
  <2>3. \A q \in CallsOn(f)' : q.kind \notin Writes
    BY <1>2, <1>4, <2>2, Alone DEF Writes
  <2>4. /\ f \notin Touched(agent'.stream) /\ (Told(f) \/ Closing') => buffers'[f] = disk'[f]
        /\ f \in Touched(agent'.stream) /\ Closing' => Told(f)
    BY <1>7, <2>1
  <2> QED
    BY <1>t, <1>2, <1>4, <1>5, <2>1, <2>2, <2>3, <2>4 DEF Shows, InStep, Writes
<1> QED
  BY <1>6, <1>7

\* Shows: an event arrives, or the end of the stream with all the edits again.
LEMMA ArrivalsShow ==
  ASSUME Shape, NEW f \in Files, f \notin crossed', Shows(f),
         EditArrives \/ ProjectChangedArrives \/ DoneArrives
  PROVE  Shows(f)'
<1>t. /\ agent \in Run /\ agent.edits \in Seq(Edit) /\ agent.stream # <<>> /\ agent.running
      /\ None \notin Files /\ Touched(agent.stream) \subseteq Touched(agent.edits) \cup {None}
      /\ Note({}, FALSE) /\ UNCHANGED disk /\ Noted
  BY EditorAssumption, RunFacts, StreamTouches, NoteTypes
     DEF Shape, Streamed, EditArrives, ProjectChangedArrives, DoneArrives, serverVars
<1>l. LastIs(agent.edits, f, disk[f]) /\ (Closing /\ f \in Touched(agent.stream) => Told(f))
  BY DEF Shows, InStep
<1>1. ASSUME EditArrives PROVE Shows(f)'
  <2> DEFINE e == Head(agent.stream)
             calls == IF e.created THEN {TreeCall("refresh", {}, None)} ELSE {}
  <2>1. /\ Delivers(<<e>>, calls)
        /\ \/ agent' = [agent EXCEPT !.stream = Tail(@)]
           \/ agent' = [agent EXCEPT !.stream = [@ EXCEPT ![1] = ProjectChanged]]
    BY <1>1 DEF EditArrives
  <2>2. \A r \in calls : r.kind = "refresh"
    BY CallFields
  <2>3. /\ e \in Edit /\ e # Done
        /\ \E n \in DOMAIN agent.edits : agent.edits[n] = e
    BY <1>1, HeadFacts
  <2>4. /\ agent'.edits = agent.edits /\ agent'.running = agent.running /\ agent'.told = agent.told
        /\ Closing' => Closing
        /\ e.file \in Touched(agent.stream)
        /\ \A g \in Files : /\ g \in Touched(agent'.stream) => g \in Touched(agent.stream)
                            /\ g \in Touched(agent.stream) /\ g # e.file
                                 => g \in Touched(agent'.stream)
    BY <1>t, <2>1, <2>3, TailTouches
  <2> HIDE DEF e, calls
  <2>6. /\ <<e>> \in Seq(Edit) /\ Touched(<<e>>) = {e.file}
        /\ e.file = f => LastIs(<<e>>, f, e.new)
    BY <2>3, OneEdit
  <2>7. ASSUME e.file = f, Told(f) PROVE LastIs(<<e>>, f, disk[f])
    <3>1. PICK n \in DOMAIN agent.edits : agent.edits[n] = e
      BY <2>3
    <3>2. \A m \in DOMAIN agent.edits : agent.edits[m].file = f => m = n
      BY <2>7, <3>1 DEF Told
    <3>3. \A m \in DOMAIN agent.edits : m > n => agent.edits[m].file # f
      BY <1>t, <3>2
    <3>4. e.new = disk[f]
      BY <1>l, <2>7, <3>1, <3>3 DEF LastIs
    <3> QED
      BY <2>6, <2>7, <3>4
  <2>8. f \in Touched(<<e>>) =>
          /\ agent.running /\ f \in Touched(agent.edits)
          /\ f \notin Touched(agent'.stream) /\ (Told(f) \/ Closing') => LastIs(<<e>>, f, disk[f])
          /\ f \in Touched(agent'.stream) /\ Closing' => Told(f)
    BY <1>l, <1>t, <2>4, <2>6, <2>7
  <2>9. f \notin Touched(<<e>>) => /\ f \in Touched(agent.stream) <=> f \in Touched(agent'.stream)
                                   /\ Closing' => Closing \/ Told(f)
    BY <2>4, <2>6
  <2> QED
    BY <1>t, <2>1, <2>2, <2>4, <2>6, <2>8, <2>9, DeliveredShows
<1>2. ASSUME DoneArrives PROVE Shows(f)'
  <2> DEFINE calls == {}
  <2>1. Delivers(agent.edits, calls) /\ agent' = [agent EXCEPT !.stream = <<>>]
    BY <1>2 DEF DoneArrives
  <2>2. /\ agent'.edits = agent.edits /\ agent'.running = agent.running /\ agent'.stream = <<>>
        /\ agent'.told = agent.told
    BY <1>t, <2>1 DEF Run
  <2>3. f \notin Touched(agent'.stream)
    BY <2>2, EmptyList
  <2>4. f \notin Touched(agent.edits) => f \notin Touched(agent.stream) /\ Told(f)
    BY <1>t DEF Told, Touched
  <2>5. \A r \in calls : r.kind = "refresh"
    OBVIOUS
  <2> HIDE DEF calls
  <2> QED
    BY <1>t, <1>l, <2>1, <2>2, <2>3, <2>4, <2>5, DeliveredShows
<1>3. ASSUME ProjectChangedArrives PROVE Shows(f)'
  <2> DEFINE c == TreeCall("refresh", {}, None)
  <2>1. /\ Head(agent.stream) = ProjectChanged /\ agent' = [agent EXCEPT !.stream = Tail(@)]
        /\ requests' = requests \cup {c} /\ UNCHANGED <<disk, buffers, timers>>
    BY <1>3 DEF ProjectChangedArrives, serverVars, editorVars
  <2>2. c.kind = "refresh" /\ ~c.served
    BY CallFields
  <2> HIDE DEF c
  <2>3. CallsFine(f)
    BY <2>1, <2>2 DEF CallsFine, CallsOn, Calls
  <2>4. Head(agent.stream) # Done /\ Head(agent.stream).file # f
    BY <1>t, <2>1, EventFacts
  <2>5. /\ agent'.edits = agent.edits /\ agent'.running = agent.running /\ agent'.told = agent.told
        /\ Closing' => Closing
        /\ f \in Touched(agent.stream) <=> f \in Touched(agent'.stream)
    BY <1>t, <2>1, <2>4, TailTouches
  <2>6. ListsFine(f)
    BY <2>5 DEF ListsFine, Streaming, Told
  <2> QED
    BY <1>t, <2>1, <2>3, <2>6, ShowsRests DEF TextsFine
<1> QED
  BY <1>1, <1>2, <1>3

\* Showing holds to begin with, ...
LEMMA InitShows == Init => Showing
<1> SUFFICES ASSUME Init, NEW f \in Files PROVE Shows(f)
  BY DEF Showing
<1>1. /\ agent.edits = <<>> /\ agent.stream = <<>> /\ ~agent.running
      /\ buffers[f] = None /\ timers[f] = None
      /\ \A r \in requests : r.kind = "load" /\ ~r.served
  BY CallFields DEF Init, AtRest
<1>2. f \notin Touched(agent.stream) /\ \A x : LastIs(agent.edits, f, x)
  BY <1>1, EmptyList, UntouchedList
<1>3. \A r \in CallsOn(f) : r.kind = "load" /\ ~r.served /\ r.kind \notin Writes
  BY <1>1 DEF CallsOn, Calls, Writes
<1>4. ~Streaming(f) /\ ~CrossedNow(f)
  BY <1>1, <1>3 DEF Streaming, CrossedNow
<1> QED
  BY <1>1, <1>2, <1>3, <1>4 DEF Shows, InStep

\* (every action takes its notes, which follow the calls on their way)
LEMMA NextNotes ==
  ASSUME Next
  PROVE  \E more, lost : Note(more, lost)
BY DEF Next, UserStep, TimerStep, ServerStep, Answer, AgentStep, DeployStep,
   OpenFile, CloseTab, PrepareSearch, Type, AutosaveFires, SaveFile, StructureTimerFires,
   CreateFile, ServeRead, ServeRefresh, ServeCreate, ServeSave, ServeStructure, FileLoaded,
   LoadFails, FileReloaded, ReloadFails, SaveFails, ApplyRemoteProject, ProjectCallFails,
   StartAgent, AgentEdits, AgentCreates, AgentTells, AgentDone, AgentFails, StreamBreaks,
   EditArrives, ProjectChangedArrives, DoneArrives, StreamEnds,
   AcceptChange, RejectChange, ServeRestore, ChangeUndone, UndoneUnseen, RejectFails, Deploy,
   FilesFlushed, StructureFlushed, DeployEnds, FlushFails

\* ... and every step keeps it.
LEMMA NextShows == Shape /\ Shape' /\ Showing /\ [Next]_vars => Showing'
<1> SUFFICES ASSUME Shape, Shape', Showing, [Next]_vars, NEW f \in Files, f \notin crossed'
             PROVE  Shows(f)'
  BY DEF Showing
<1>1. CASE UNCHANGED vars
  <2>1. /\ UNCHANGED <<disk, buffers, timers, agent, requests, crossed>>
    BY <1>1 DEF vars, serverVars, editorVars, reviewVars, notes
  <2>2. Shows(f)
    BY <2>1 DEF Showing
  <2> QED
    BY <2>1, <2>2 DEF Shows, InStep, CrossedNow, CallsOn, Calls, Streaming, Told, Closing
<1>2. CASE Next
  <2>2. Shows(f)
    BY <1>2, NextNotes, NoteFacts DEF Showing
  <2>3. CASE UserStep
    BY <2>2, <2>3, ClicksShow, WritesShow, TextFacts DEF UserStep
  <2>4. CASE TimerStep \/ DeployStep
    BY <2>2, <2>4, ClicksShow, WritesShow DEF TimerStep, DeployStep
  <2>5. CASE ServerStep
    BY <2>2, <2>5, ReadShows, SaveShows, TreeShows DEF ServerStep
  <2>6. CASE Answer
    BY <2>2, <2>6, AnswersShow, TreeShows DEF Answer
  <2>7. CASE AgentStep
    BY <2>2, <2>7, AgentShows, ArrivalsShow, TextFacts DEF AgentStep
  <2> QED
    BY <1>2, <2>3, <2>4, <2>5, <2>6, <2>7 DEF Next
<1> QED
  BY <1>1, <1>2

\* Of a file whose exchanges never overlapped or failed, the editor shows what
\* the server holds once nothing about it is on its way -- typed, saved, edited
\* by any number of runs, accepted, rejected or deployed, for any number of files
\* and contents (code-workspace.tsx:300-376, 663-678, 1160-1204, 1241-1268).
THEOREM BuffersShowTheServer == Spec => []EditorShowsServer
<1>1. Shape /\ Showing => EditorShowsServer
  BY DEF Showing, Shows, InStep, EditorShowsServer, Settled
<1> QED
  BY <1>1, InitShape, NextShape, InitShows, NextShows, PTL DEF Spec

-----------------------------------------------------------------------------
(* A rejected change is undone. *)

\* The lists of edits begin, for f, where they began.
FirstsFine(f) ==
  /\ \A x : FirstIs(agent.edits, f, x) => FirstIs(agent'.edits, f, x)
  /\ Streaming(f)' <=> Streaming(f)
  /\ Owed(f) => Owed(f)'
  /\ (~agent.working => AllTold(f)) => (~agent'.working => AllTold(f)')

\* No call to take a change of f back is new.
RejectsFine(f) ==
  \A q \in CallsOn(f)' : q.kind \in {"restore", "undone"} =>
    \E p \in CallsOn(f) : p.kind = q.kind /\ (p.kind = "restore" => p.text = q.text)

\* A step that is about other files leaves f its text to go back to.
LEMMA UndoesRests ==
  ASSUME NEW f \in Files, Undoes(f), Alike(changes'[f], changes[f]),
         original'[f] = original[f], FirstsFine(f), RejectsFine(f),
         disk'[f] = disk[f] \/ \A q \in CallsOn(f)' : q.kind # "undone"
  PROVE  Undoes(f)'
<1>1. Pending(f)' <=> Pending(f)
  BY DEF Pending, Alike
<1>2. Pending(f) => changes'[f].previous = changes[f].previous
  BY DEF Pending, Alike
<1>3. \A q \in CallsOn(f)' :
       /\ q.kind = "restore" /\ Pending(f) => q.text = original[f]
       /\ q.kind = "undone" => ~Streaming(f)' /\ (Pending(f) => disk'[f] = original[f])
  BY DEF Undoes, RejectsFine, FirstsFine
<1>4. ~Pending(f) => /\ FirstIs(agent'.edits, f, original[f])
                     /\ original[f] # None <=> Streaming(f)'
                     /\ Streaming(f)' => Owed(f)'
  BY DEF Undoes, FirstsFine
<1>5. ~agent'.working => AllTold(f)'
  BY DEF Undoes, FirstsFine
<1> QED
  BY <1>1, <1>2, <1>3, <1>4, <1>5 DEF Undoes

\* When the run rests, its lists begin where they began.
LEMMA FirstsRest == ASSUME UNCHANGED agent, NEW f PROVE FirstsFine(f)
BY DEF FirstsFine, Streaming, Owed, Untold, AllTold

\* Of a file that the run has not edited there is nothing to say.
LEMMA FirstsNone ==
  ASSUME NEW f, f \notin Touched(agent.edits), f \notin Touched(agent'.edits)
  PROVE  FirstsFine(f)
<1>1. \A x : FirstIs(agent'.edits, f, x)
  BY UntouchedList
<1>2. ~Streaming(f) /\ ~Streaming(f)'
  BY DEF Streaming
<1>3. Owed(f)' /\ AllTold(f)'
  BY DEF Owed, Untold, AllTold, Touched
<1> QED
  BY <1>1, <1>2, <1>3 DEF FirstsFine

\* Filling in the new texts leaves the records alike.
LEMMA RecordsRest ==
  ASSUME Shape, Shape', NEW f \in Files
  PROVE  /\ changes' = changes => Alike(changes'[f], changes[f])
         /\ changes' = Backfilled(changes, buffers') => Alike(changes'[f], changes[f])
<1>1. changes \in Records /\ buffers' \in Buffers
  BY DEF Shape, TypeOK, Records, Buffers
<1>2. Alike(changes[f], changes[f])
  BY DEF Alike
<1> QED
  BY <1>1, <1>2, BackfilledFacts

\* When the change of f is closed there is nothing to go back to.
LEMMA ClosedUndoes ==
  ASSUME Shape, NEW f \in Files, ~Streaming(f), ~Pending(f)', original'[f] = None,
         UNCHANGED agent
  PROVE  Undoes(f)'
<1>1. f \notin Touched(agent.edits) /\ f \notin Touched(agent'.edits)
  BY NotStreaming
<1>2. (\A x : FirstIs(agent'.edits, f, x)) /\ ~Streaming(f)' /\ AllTold(f)'
  BY <1>1, UntouchedList DEF Streaming, AllTold, Touched
<1> QED
  BY <1>2 DEF Undoes

\* Undoes: the user's clicks, the timers and the deploy.
LEMMA ClicksUndo ==
  ASSUME Shape, Shape', NEW f \in Files, f \notin crossed', Shows(f), Undoes(f),
         \/ \E g \in Files : OpenFile(g) \/ RejectChange(g) \/ AutosaveFires(g) \/ AcceptChange(g)
         \/ CloseTab \/ PrepareSearch \/ CreateFile \/ StructureTimerFires \/ SaveFile \/ Deploy
         \/ \E text \in Text : Type(text)
         \/ FilesFlushed \/ StructureFlushed \/ DeployEnds
  PROVE  Undoes(f)'
<1> USE DEF serverVars, editorVars, reviewVars
<1>n. ASSUME UNCHANGED <<disk, original, agent>>, NEW S, requests' = requests \cup S,
             \A r \in S : r.kind \notin {"restore", "undone"},
             changes' = changes \/ changes' = Backfilled(changes, buffers')
      PROVE  Undoes(f)'
  <2>1. RejectsFine(f)
    BY <1>n DEF RejectsFine, CallsOn, Calls
  <2> QED
    BY <1>n, <2>1, UndoesRests, RecordsRest, FirstsRest
<1>c. ASSUME UNCHANGED <<disk, original, agent, changes>>, NEW c, requests' = requests \cup {c},
             c.kind \notin {"restore", "undone"}
      PROVE  Undoes(f)'
  <2>1. RejectsFine(f)
    BY <1>c DEF RejectsFine, CallsOn, Calls
  <2> QED
    BY <1>c, <2>1, UndoesRests, RecordsRest, FirstsRest
<1>s. ASSUME UNCHANGED <<disk, original, agent, requests>>,
             changes' = changes \/ changes' = Backfilled(changes, buffers')
      PROVE  Undoes(f)'
  <2>1. RejectsFine(f)
    BY <1>s DEF RejectsFine, CallsOn, Calls
  <2> QED
    BY <1>s, <2>1, UndoesRests, RecordsRest, FirstsRest
<1>1. ASSUME NEW g \in Files, OpenFile(g) PROVE Undoes(f)'
  <2>1. \A r \in LoadOf(g, buffers) : r.kind \notin {"restore", "undone"}
    BY CallFields
  <2> QED
    BY <1>1, <1>n, <2>1 DEF OpenFile
<1>2. ASSUME CloseTab \/ StructureFlushed \/ DeployEnds PROVE Undoes(f)'
  BY <1>s, <1>2 DEF CloseTab, StructureFlushed, DeployEnds
<1>3. ASSUME PrepareSearch PROVE Undoes(f)'
  <2>1. \A r \in UNION {LoadOf(g, buffers) : g \in nodes} : r.kind \notin {"restore", "undone"}
    BY CallFields
  <2> QED
    BY <1>3, <1>n, <2>1 DEF PrepareSearch
<1>4. ASSUME CreateFile \/ StructureTimerFires \/ FilesFlushed \/ SaveFile PROVE Undoes(f)'
  <2>1. \A kind \in {"create", "structure"} : \A S, g :
           TreeCall(kind, S, g).kind \notin {"restore", "undone"}
    BY CallFields
  <2>2. \A text : FileCall("save", active, text).kind \notin {"restore", "undone"}
    BY CallFields
  <2>3. PICK c : requests' = requests \cup {c} /\ c.kind \notin {"restore", "undone"}
    BY <1>4, <2>1, <2>2 DEF CreateFile, StructureTimerFires, FilesFlushed, SaveFile
  <2>4. UNCHANGED <<disk, original, agent, changes>>
    BY <1>4 DEF CreateFile, StructureTimerFires, FilesFlushed, SaveFile
  <2> QED
    BY <1>c, <2>3, <2>4
<1>5. ASSUME NEW g \in Files, AutosaveFires(g) PROVE Undoes(f)'
  <2> DEFINE c == FileCall("autosave", g, timers[g])
  <2>1. /\ c.kind \notin {"restore", "undone"} /\ requests' = requests \cup {c}
        /\ UNCHANGED <<disk, original, agent, changes>>
    BY <1>5, CallFields DEF AutosaveFires
  <2> HIDE DEF c
  <2> QED
    BY <1>c, <2>1
<1>6. ASSUME Deploy PROVE Undoes(f)'
  <2> DEFINE S == {FileCall("flush", g, IF buffers[g] = None THEN Empty ELSE buffers[g]) :
                     g \in nodes}
  <2>1. /\ \A r \in S : r.kind \notin {"restore", "undone"}
        /\ requests' = requests \cup S /\ UNCHANGED <<disk, original, agent, changes>>
    BY <1>6, CallFields DEF Deploy
  <2> HIDE DEF S
  <2> QED
    BY <1>n, <2>1
<1>7. ASSUME NEW text \in Text, Type(text) PROVE Undoes(f)'
  BY <1>s, <1>7 DEF Type
<1>8. ASSUME NEW g \in Files, AcceptChange(g) PROVE Undoes(f)'
  <2>t. changes \in Records /\ original \in Buffers /\ buffers' \in Buffers
    BY DEF Shape, TypeOK, Records, Buffers
  <2>1. /\ UNCHANGED <<disk, agent, requests>> /\ changes[g] # None
        /\ changes' = Backfilled([changes EXCEPT ![g].status = "accepted"], buffers')
        /\ original' = [original EXCEPT ![g] = None]
        /\ Note(IF buffers[g] # changes[g].new \/ Streaming(g) THEN {g} ELSE {}, FALSE)
    BY <1>8 DEF AcceptChange, Pending
  <2>2. /\ changes'[g] # None /\ changes'[g].status = "accepted"
        /\ \A h \in Files : h # g => Alike(changes'[h], changes[h])
    BY <2>t, <2>1, MarkFacts
  <2>3. CASE f # g
    <3>1. RejectsFine(f) /\ original'[f] = original[f]
      BY <2>t, <2>1, <2>3 DEF RejectsFine, CallsOn, Calls, Buffers
    <3> QED
      BY <2>1, <2>2, <2>3, <3>1, UndoesRests, FirstsRest
  <2>4. CASE f = g
    <3>1. ~Streaming(f)
      BY <2>1, <2>4, NoteFacts
    <3>2. ~Pending(f)' /\ original'[f] = None
      BY <2>t, <2>1, <2>2, <2>4 DEF Pending, Buffers
    <3> QED
      BY <2>1, <3>1, <3>2, ClosedUndoes
  <2> QED
    BY <2>3, <2>4
<1>9. ASSUME NEW g \in Files, RejectChange(g) PROVE Undoes(f)'
  <2> DEFINE c == FileCall("restore", g, changes[g].previous)
  <2>1. /\ c.kind = "restore" /\ c.file = g /\ c.text = changes[g].previous
        /\ requests' = requests \cup {c} /\ UNCHANGED <<disk, original, agent, changes>>
        /\ Pending(g)
    BY <1>9, CallFields DEF RejectChange
  <2> HIDE DEF c
  <2>2. CASE f # g
    <3>1. RejectsFine(f)
      BY <2>1, <2>2 DEF RejectsFine, CallsOn, Calls
    <3> QED
      BY <2>1, <3>1, UndoesRests, RecordsRest, FirstsRest
  <2>3. CASE f = g
    <3>1. c.text = original[f]
      BY <2>1, <2>3 DEF Undoes
    <3>2. \A q \in CallsOn(f)' : q \in CallsOn(f) \/ q = c
      BY <2>1 DEF CallsOn, Calls
    <3> QED
      BY <2>1, <2>3, <3>1, <3>2 DEF Undoes, Pending, Streaming, Owed, Untold, AllTold
  <2> QED
    BY <2>2, <2>3
<1> QED
  BY <1>1, <1>2, <1>3, <1>4, <1>5, <1>6, <1>7, <1>8, <1>9

\* Undoes: the server takes a call, and the exchanges about the nodes.
LEMMA ServerUndoes ==
  ASSUME Shape, Shape', NEW f \in Files, f \notin crossed', Shows(f), Undoes(f),
         NEW r \in requests,
         \/ ServeRead(r) \/ ServeRefresh(r) \/ ServeCreate(r) \/ ServeSave(r)
         \/ ServeStructure(r) \/ ServeRestore(r)
         \/ ApplyRemoteProject(r) \/ ProjectCallFails(r)
  PROVE  Undoes(f)'
<1> USE DEF serverVars, editorVars, reviewVars
<1>t. /\ r \in Request /\ disk \in [Files -> Text]
  BY DEF Shape, TypeOK
<1>u. /\ UNCHANGED <<changes, original, agent>>
      /\ FirstsFine(f) /\ Alike(changes'[f], changes[f])
  <2>1. UNCHANGED <<changes, original, agent>>
    BY DEF ServeRead, ServeRefresh, ServeCreate, ServeSave, ServeStructure, ServeRestore,
       ApplyRemoteProject, ProjectCallFails
  <2> QED
    BY <2>1, RecordsRest, FirstsRest
<1>1. ASSUME NEW S, requests' = (requests \ {r}) \cup S, disk' = disk,
             \A s \in S : \/ s.kind = r.kind /\ s.file = r.file /\ r.kind # "restore"
                          \/ s.kind \notin {"restore", "undone"}
      PROVE  Undoes(f)'
  <2>1. RejectsFine(f)
    BY <1>1 DEF RejectsFine, CallsOn, Calls
  <2> QED
    BY <1>1, <1>u, <2>1, UndoesRests
<1>2. CASE ServeRead(r)
  <2> DEFINE S == {[r EXCEPT !.served = TRUE, !.text = disk[r.file]]}
  <2>1. \A s \in S : s.kind = r.kind /\ s.file = r.file /\ r.kind # "restore"
    BY <1>t, <1>2 DEF ServeRead, Request, Reads
  <2>2. requests' = (requests \ {r}) \cup S /\ disk' = disk
    BY <1>2 DEF ServeRead
  <2> HIDE DEF S
  <2> QED
    BY <1>1, <2>1, <2>2
<1>3. CASE ServeRefresh(r)
  <2> DEFINE S == {[r EXCEPT !.served = TRUE, !.nodes = tree, !.file = serverOpen]}
  <2>1. \A s \in S : s.kind \notin {"restore", "undone"}
    BY <1>t, <1>3 DEF ServeRefresh, Request
  <2>2. requests' = (requests \ {r}) \cup S /\ disk' = disk
    BY <1>3 DEF ServeRefresh
  <2> HIDE DEF S
  <2> QED
    BY <1>1, <2>1, <2>2
<1>4. CASE ServeCreate(r)
  <2> DEFINE all == tree'
  <2>1. PICK g \in Files : requests' = (requests \ {r})
                            \cup {[r EXCEPT !.served = TRUE, !.nodes = all, !.file = g]}
    BY <1>4 DEF ServeCreate
  <2> HIDE DEF all
  <2> DEFINE S == {[r EXCEPT !.served = TRUE, !.nodes = all, !.file = g]}
  <2>2. \A s \in S : s.kind \notin {"restore", "undone"}
    BY <1>t, <1>4 DEF ServeCreate, Request
  <2>3. requests' = (requests \ {r}) \cup S /\ disk' = disk
    BY <1>4, <2>1 DEF ServeCreate
  <2> HIDE DEF S
  <2> QED
    BY <1>1, <2>2, <2>3
<1>5. CASE ServeStructure(r) \/ ProjectCallFails(r)
  <2> DEFINE S == {}
  <2>1. /\ requests' = (requests \ {r}) \cup S /\ disk' = disk
        /\ \A s \in S : s.kind \notin {"restore", "undone"}
    BY <1>5 DEF ServeStructure, ProjectCallFails
  <2> HIDE DEF S
  <2> QED
    BY <1>1, <2>1
<1>6. CASE ApplyRemoteProject(r)
  <2>1. /\ requests' = (requests \ {r}) \cup LoadOf(r.file, buffers) /\ disk' = disk
        /\ \A s \in LoadOf(r.file, buffers) : s.kind \notin {"restore", "undone"}
    BY <1>6, CallFields DEF ApplyRemoteProject
  <2> QED
    BY <1>1, <2>1
<1>7. CASE ServeSave(r) \/ ServeRestore(r)
  <2> DEFINE S == IF r.kind = "restore" THEN {FileCall("undone", r.file, None)} ELSE {}
  <2>1. /\ requests' = (requests \ {r}) \cup S /\ r.kind \in Writes /\ r.file \in Files
        /\ disk' = [disk EXCEPT ![r.file] = r.text]
        /\ r.kind = "restore" \/ r.kind \in {"autosave", "save", "flush"}
    BY <1>7 DEF ServeSave, ServeRestore, Writes, Shape, TypeOK
  <2>2. /\ \A s \in S : s.kind = "undone" /\ s.file = r.file
        /\ r.kind # "restore" => S = {}
    BY CallFields
  <2> HIDE DEF S
  <2>3. CASE f # r.file
    <3>1. RejectsFine(f)
      BY <2>1, <2>2, <2>3 DEF RejectsFine, CallsOn, Calls
    <3>2. disk'[f] = disk[f]
      BY <1>t, <2>1, <2>3
    <3> QED
      BY <1>u, <3>1, <3>2, UndoesRests
  <2>4. CASE f = r.file
    <3>1. r \in CallsOn(f) /\ ~CrossedNow(f)
      BY <2>1, <2>4 DEF CallsOn, Calls, Shows, InStep
    <3>2. CallsOn(f) = {r} /\ ~Streaming(f)
      BY <2>1, <3>1, Alone
    <3>3. CallsOn(f)' \subseteq S
      BY <2>1, <3>2 DEF CallsOn, Calls
    <3>4. CASE r.kind # "restore"
      <4>1. CallsOn(f)' = {}
        BY <2>2, <3>3, <3>4
      <4>2. RejectsFine(f)
        BY <4>1 DEF RejectsFine
      <4> QED
        BY <1>u, <4>1, <4>2, UndoesRests
    <3>5. CASE r.kind = "restore"
      <4>1. /\ Pending(f)' <=> Pending(f)
            /\ Streaming(f)' <=> Streaming(f)
        BY <1>u DEF Pending, Streaming
      <4>2. Pending(f) => disk'[f] = original[f]
        BY <1>t, <2>1, <2>4, <3>1, <3>5 DEF Undoes
      <4>3. \A q \in CallsOn(f)' : q.kind = "undone"
        BY <2>2, <3>3
      <4> QED
        BY <1>u, <3>2, <4>1, <4>2, <4>3 DEF Undoes, FirstsFine
    <3> QED
      BY <3>4, <3>5
  <2> QED
    BY <2>3, <2>4
<1> QED
  BY <1>2, <1>3, <1>4, <1>5, <1>6, <1>7

\* Undoes: the answers about files, good and bad.
LEMMA AnswersUndo ==
  ASSUME Shape, Shape', NEW f \in Files, f \notin crossed', Shows(f), Undoes(f),
         NEW r \in requests,
         \/ FileLoaded(r) \/ LoadFails(r) \/ FileReloaded(r) \/ ReloadFails(r) \/ SaveFails(r)
         \/ ChangeUndone(r) \/ UndoneUnseen(r) \/ RejectFails(r) \/ FlushFails(r)
  PROVE  Undoes(f)'
<1> USE DEF serverVars, editorVars, reviewVars
<1>t. /\ r \in Request /\ disk \in [Files -> Text] /\ changes \in Records /\ original \in Buffers
      /\ buffers' \in Buffers
  BY DEF Shape, TypeOK, Records, Buffers
<1>1. requests' = requests \ {r} /\ UNCHANGED agent
  BY DEF FileLoaded, LoadFails, FileReloaded, ReloadFails, SaveFails, ChangeUndone,
     UndoneUnseen, RejectFails, FlushFails
<1>2. RejectsFine(f) /\ FirstsFine(f)
  BY <1>1, FirstsRest DEF RejectsFine, CallsOn, Calls
<1>3. CASE FileLoaded(r) \/ LoadFails(r) \/ FileReloaded(r) \/ ReloadFails(r) \/ SaveFails(r)
           \/ FlushFails(r)
  <2>1. /\ UNCHANGED <<disk, original>>
        /\ changes' = changes \/ changes' = Backfilled(changes, buffers')
    BY <1>3 DEF FileLoaded, LoadFails, FileReloaded, ReloadFails, SaveFails, FlushFails
  <2> QED
    BY <1>2, <2>1, UndoesRests, RecordsRest
<1>4. CASE RejectFails(r)
  <2>1. /\ UNCHANGED <<changes, original>> /\ f # r.file
        /\ disk' = disk \/ disk' = [disk EXCEPT ![r.file] = r.text]
    <3>1. Note({r.file}, FALSE)
      BY <1>4 DEF RejectFails
    <3> QED
      BY <1>4, <3>1, NoteFacts DEF RejectFails
  <2>2. disk'[f] = disk[f]
    BY <1>t, <2>1
  <2> QED
    BY <1>2, <2>1, <2>2, UndoesRests, RecordsRest
<1>5. CASE ChangeUndone(r) \/ UndoneUnseen(r)
  <2>1. /\ UNCHANGED disk /\ r.kind = "undone" /\ r.file \in Files /\ changes[r.file] # None
        /\ changes' = Backfilled([changes EXCEPT ![r.file].status = "rejected"], buffers')
        /\ original' = [original EXCEPT ![r.file] = None]
    BY <1>5 DEF ChangeUndone, UndoneUnseen, Rejected, Shape, SoundCall, TypeOK, Reads
  <2>2. /\ changes'[r.file] # None /\ changes'[r.file].status = "rejected"
        /\ \A h \in Files : h # r.file => Alike(changes'[h], changes[h])
    <3> DEFINE g == r.file
    <3>1. /\ g \in Files /\ changes[g] # None
          /\ changes' = Backfilled([changes EXCEPT ![g].status = "rejected"], buffers')
      BY <2>1
    <3> HIDE DEF g
    <3>2. /\ changes'[g] # None /\ changes'[g].status = "rejected"
          /\ \A h \in Files : h # g => Alike(changes'[h], changes[h])
      BY <1>t, <3>1, MarkFacts
    <3> QED
      BY <3>2 DEF g
  <2>3. CASE f # r.file
    <3>1. original'[f] = original[f]
      BY <1>t, <2>1, <2>3 DEF Buffers
    <3> QED
      BY <1>2, <2>1, <2>2, <2>3, <3>1, UndoesRests
  <2>4. CASE f = r.file
    <3>1. ~Streaming(f)
      BY <2>1, <2>4 DEF Undoes, CallsOn, Calls, Reads
    <3>2. ~Pending(f)' /\ original'[f] = None
      BY <1>t, <2>1, <2>2, <2>4 DEF Pending, Buffers
    <3> QED
      BY <1>1, <3>1, <3>2, ClosedUndoes
  <2> QED
    BY <2>3, <2>4
<1> QED
  BY <1>3, <1>4, <1>5

\* An edit of another file leaves the first one of f.
LEMMA FirstsElsewhere ==
  ASSUME Shape, NEW f \in Files, NEW e \in Edit, e.file # f, AgentWrites(e),
         e.created => e.file \notin Touched(agent.edits)
  PROVE  FirstsFine(f)
<1>1. /\ agent.edits \in Seq(Event) /\ e \in Event
      /\ agent.running /\ agent'.running /\ agent'.working
      /\ agent'.stream = agent.stream /\ agent'.edits = Append(agent.edits, e)
      /\ agent'.told = agent.told
      /\ Touched(agent'.edits) = Touched(agent.edits) \cup {e.file}
      /\ agent'.edits[Len(agent.edits) + 1] = e
      /\ \A n \in DOMAIN agent.edits :
           n \in DOMAIN agent'.edits /\ agent'.edits[n] = agent.edits[n]
      /\ \A n \in DOMAIN agent'.edits : n \in DOMAIN agent.edits \/ n = Len(agent.edits) + 1
  BY WritesFacts, RunFacts DEF Event
<1>2. \A x : FirstIs(agent.edits, f, x) => FirstIs(agent'.edits, f, x)
  <2>1. \A x : FirstIs(agent.edits, f, x) => FirstIs(Append(agent.edits, e), f, x)
    BY <1>1, AppendList
  <2> QED
    BY <1>1, <2>1
<1>3. Owed(f) => Owed(f)'
  BY <1>1 DEF Owed, Untold
<1>4. Streaming(f)' <=> Streaming(f)
  BY <1>1 DEF Streaming
<1> QED
  BY <1>1, <1>2, <1>3, <1>4 DEF FirstsFine

\* Telling of an edit leaves every file its first one: it goes to the stream.
LEMMA FirstsTold ==
  ASSUME Shape, NEW f \in Files, AgentTells
  PROVE  FirstsFine(f)
<1> DEFINE k == agent.told + 1
           e == agent.edits[k]
<1>1. /\ agent.stream \in Seq(Event) /\ agent.told \in Nat
      /\ DOMAIN agent.edits = 1 .. Len(agent.edits) /\ Len(agent.edits) \in Nat
  BY RunFacts
<1>2. /\ agent.running /\ agent'.running /\ agent'.working
      /\ agent'.edits = agent.edits /\ agent'.told = k /\ k \in DOMAIN agent.edits
      /\ IsFirst(agent.edits, k) => agent'.stream = Append(agent.stream, e)
      /\ ~IsFirst(agent.edits, k) => agent'.stream = agent.stream
  BY TellsFacts
<1>3. e \in Event
  BY <1>2, RunFacts DEF Event
<1>4. Touched(Append(agent.stream, e)) = Touched(agent.stream) \cup {e.file}
  BY <1>1, <1>3, AppendList
<1>5. ASSUME Untold(f), e.file # f PROVE Untold(f)'
  <2>1. \A n \in DOMAIN agent.edits : agent.edits[n].file = f => n > k
    BY <1>1, <1>2, <1>5 DEF Untold
  <2> HIDE DEF k, e
  <2> QED
    BY <1>2, <2>1 DEF Untold
<1>6. ASSUME Untold(f), e.file = f PROVE IsFirst(agent.edits, k)
  BY <1>1, <1>2, <1>6 DEF Untold, IsFirst
<1> HIDE DEF k, e
<1>7. Touched(agent.stream) \subseteq Touched(agent'.stream)
  <2>1. CASE IsFirst(agent.edits, k)
    BY <1>2, <1>4, <2>1
  <2>2. CASE ~IsFirst(agent.edits, k)
    BY <1>2, <2>2
  <2> QED
    BY <2>1, <2>2
<1>8. Owed(f) => Owed(f)'
  <2>1. CASE f \in Touched(agent.stream)
    BY <1>7, <2>1 DEF Owed
  <2>2. CASE Untold(f) /\ e.file # f
    BY <1>5, <2>2 DEF Owed
  <2>3. CASE Untold(f) /\ e.file = f
    <3>1. agent'.stream = Append(agent.stream, e)
      BY <1>2, <1>6, <2>3
    <3>2. f \in Touched(agent'.stream)
      BY <1>4, <2>3, <3>1
    <3> QED
      BY <3>2 DEF Owed
  <2> QED
    BY <2>1, <2>2, <2>3 DEF Owed
<1>9. (Streaming(f)' <=> Streaming(f)) /\ agent'.edits = agent.edits
  <2>1. agent.running /\ agent'.running /\ agent'.edits = agent.edits
    BY <1>2
  <2> QED
    BY <2>1 DEF Streaming
<1> QED
  BY <1>2, <1>8, <1>9 DEF FirstsFine

\* Nor does the run's end take the first edit of a file, when every edit of the
\* file has been told or, if the connection broke, there is none.
LEMMA FirstsStop ==
  ASSUME Shape, NEW f \in Files, AgentDone \/ AgentFails \/ StreamBreaks,
         AgentFails => Told(f), StreamBreaks => f \notin Touched(agent.edits)
  PROVE  FirstsFine(f)
<1>1. /\ agent'.edits = agent.edits /\ agent'.told = agent.told
      /\ agent.running /\ agent'.running
  BY StopsFacts
<1>2. agent.stream \in Seq(Event) /\ DOMAIN agent.edits = 1 .. Len(agent.edits)
  BY RunFacts
<1>3. CASE StreamBreaks
  BY <1>1, <1>3, FirstsNone
<1>4. CASE AgentDone \/ AgentFails
  <2>1. AllTold(f)
    <3>1. CASE AgentDone
      BY <1>2, <3>1 DEF AgentDone, AllTold
    <3>2. CASE AgentFails
      BY <3>2 DEF AllTold, Told
    <3> QED
      BY <1>4, <3>1, <3>2
  <2>2. AllTold(f)' /\ (Untold(f) => Untold(f)') /\ (Streaming(f)' <=> Streaming(f))
    BY <1>1, <2>1 DEF AllTold, Untold, Streaming
  <2>3. f \in Touched(agent.stream) => f \in Touched(agent'.stream)
    <3>1. CASE AgentDone
      <4>1. agent'.stream = Append(agent.stream, Done) /\ Done \in Event
        BY <3>1, StopsFacts, EventFacts
      <4>2. Touched(Append(agent.stream, Done)) = Touched(agent.stream) \cup {Done.file}
        BY <1>2, <4>1, AppendList
      <4> QED
        BY <4>1, <4>2
    <3>2. CASE AgentFails
      <4>1. agent'.stream = agent.stream
        BY <3>2, StopsFacts
      <4> QED
        BY <4>1
    <3> QED
      BY <1>4, <3>1, <3>2
  <2> QED
    BY <1>1, <2>2, <2>3 DEF FirstsFine, Owed
<1> QED
  BY <1>3, <1>4

\* Undoes: the run edits f; the text before its first open edit is the one to go
\* back to.
LEMMA RunUndoes ==
  ASSUME Shape, NEW f \in Files, ~CrossedNow(f)', Undoes(f),
         NEW e \in Edit, e.file = f, AgentWrites(e),
         e.created => f \notin Touched(agent.edits),
         UNCHANGED <<changes, requests>>,
         \A q \in CallsOn(f) : q.kind \notin {"reload", "undone"},
         original'[f] # original[f] \/ original[f] = None => original'[f] = e.previous,
         original[f] # None /\ original'[f] # original[f] =>
            f \notin Touched(agent.edits) /\ ~Pending(f)
  PROVE  Undoes(f)'
<1>1. /\ agent.edits \in Seq(Event) /\ e \in Event
      /\ agent.running /\ agent'.running /\ agent'.working
      /\ agent'.stream = agent.stream /\ agent'.edits = Append(agent.edits, e)
      /\ agent'.told = agent.told
      /\ Touched(agent'.edits) = Touched(agent.edits) \cup {e.file}
      /\ \A n \in DOMAIN agent.edits :
           n \in DOMAIN agent'.edits /\ agent'.edits[n] = agent.edits[n]
      /\ \A n \in DOMAIN agent'.edits : n \in DOMAIN agent.edits \/ n = Len(agent.edits) + 1
      /\ agent.told \in Nat /\ agent.told <= Len(agent.edits) /\ Len(agent.edits) \in Nat
  BY WritesFacts, RunFacts DEF Event, Shape, Streamed
<1>t. changes \in Records /\ None \notin Text /\ e.previous \in Text
  BY EventFacts, EditorAssumption, TextFacts DEF Shape, TypeOK, Records, Text, Edit
<1>2. Streaming(f)'
  BY <1>1 DEF Streaming
<1>3. CallsOn(f)' = CallsOn(f) /\ (Pending(f)' <=> Pending(f))
  BY DEF CallsOn, Calls, Pending
<1>4. \A q \in CallsOn(f)' : q.kind \notin {"restore", "undone"}
  BY <1>2, <1>3 DEF CrossedNow, Writes
<1>5. CASE Pending(f)
  <2>1. changes[f].previous \in Text /\ changes[f].previous = original[f]
    BY <1>t, <1>5 DEF Undoes, Pending, Records, Change
  <2>2. original'[f] = original[f]
    BY <1>t, <1>5, <2>1
  <2> QED
    BY <1>1, <1>3, <1>4, <1>5, <2>1, <2>2 DEF Undoes
<1>6. CASE ~Pending(f)
  <2>1. /\ FirstIs(agent.edits, f, original[f])
        /\ f \in Touched(agent.edits) => original[f] # None /\ Owed(f)
    BY <1>1, <1>6 DEF Undoes, Streaming
  <2>2. \A x : /\ FirstIs(agent.edits, f, x)
               /\ f \notin Touched(agent.edits) => e.previous = x
               => FirstIs(agent'.edits, f, x)
    BY <1>1, AppendList
  <2>3. original'[f] # None /\ FirstIs(agent'.edits, f, original'[f])
    <3>1. CASE original'[f] = original[f] /\ original[f] # None
      <4>1. f \in Touched(agent.edits)
        BY <1>6, <3>1 DEF Undoes, Streaming
      <4> QED
        BY <2>1, <2>2, <3>1, <4>1
    <3>2. CASE ~(original'[f] = original[f] /\ original[f] # None)
      <4>1. f \notin Touched(agent.edits) /\ original'[f] = e.previous
        BY <2>1, <3>2
      <4> QED
        BY <1>1, <1>t, <2>2, <4>1, UntouchedList
    <3> QED
      BY <3>1, <3>2
  <2>4. Owed(f)'
    <3>1. CASE f \in Touched(agent.stream)
      BY <1>1, <3>1 DEF Owed
    <3>2. CASE Untold(f)
      <4>1. Len(agent.edits) + 1 > agent.told
        BY <1>1
      <4>2. Untold(f)'
        BY <1>1, <3>2, <4>1 DEF Untold
      <4> QED
        BY <4>2 DEF Owed
    <3>3. CASE f \notin Touched(agent.edits)
      BY <3>2, <3>3 DEF Untold, Touched
    <3> QED
      BY <2>1, <3>1, <3>2, <3>3 DEF Owed
  <2> QED
    BY <1>1, <1>2, <1>3, <1>4, <1>6, <2>3, <2>4 DEF Undoes
<1> QED
  BY <1>5, <1>6

\* Undoes: the run starts, writes edits, creates files, tells of them, stops and ends.
LEMMA AgentUndoes ==
  ASSUME Shape, NEW f \in Files, f \notin crossed', Undoes(f),
         \/ StartAgent \/ AgentTells \/ AgentDone \/ AgentFails \/ StreamBreaks \/ StreamEnds
         \/ \E g \in Files, text \in Text : AgentEdits(g, text) \/ AgentCreates(g, text)
  PROVE  Undoes(f)'
<1> USE DEF serverVars, editorVars, reviewVars
<1>t. /\ agent \in Run /\ disk \in [Files -> Text] /\ Streamed
      /\ original \in Buffers /\ Alike(changes[f], changes[f])
  BY RunFacts DEF Shape, TypeOK, Buffers, Alike
<1>q. requests' = requests => RejectsFine(f)
  BY DEF RejectsFine, CallsOn, Calls
<1>l. ASSUME FirstsFine(f), UNCHANGED <<disk, requests, changes, original>> PROVE Undoes(f)'
  BY <1>t, <1>q, <1>l, UndoesRests
<1>1. ASSUME StartAgent PROVE Undoes(f)'
  <2>1. /\ UNCHANGED <<disk, requests, changes, original>>
        /\ agent.edits = <<>> /\ agent'.edits = <<>>
    BY <1>t, <1>1 DEF StartAgent, Streamed, AtRest
  <2>2. FirstsFine(f)
    BY <2>1, EmptyList, FirstsNone
  <2> QED
    BY <1>l, <2>1, <2>2
<1>2. ASSUME AgentTells PROVE Undoes(f)'
  <2>1. UNCHANGED <<disk, requests, changes, original>>
    BY <1>2 DEF AgentTells
  <2> QED
    BY <1>2, <1>l, <2>1, FirstsTold
<1>3. ASSUME AgentDone \/ AgentFails \/ StreamBreaks PROVE Undoes(f)'
  <2>1. UNCHANGED <<disk, requests, changes, original>>
    BY <1>3 DEF AgentDone, AgentFails, StreamBreaks
  <2>2. ASSUME AgentFails PROVE Told(f)
    <3> DEFINE untold == {g \in Files : ~Told(g)}
    <3>1. \E lost : Note(untold, lost)
      BY <2>2 DEF AgentFails
    <3>2. f \notin untold
      BY <3>1, NoteFacts
    <3> QED
      BY <3>2
  <2>3. ASSUME StreamBreaks PROVE f \notin Touched(agent.edits)
    BY <2>3, NoteFacts DEF StreamBreaks
  <2>4. FirstsFine(f)
    BY <1>3, <2>2, <2>3, FirstsStop
  <2> QED
    BY <1>l, <2>1, <2>4
<1>6. ASSUME StreamEnds PROVE Undoes(f)'
  <2>1. /\ UNCHANGED <<disk, requests, changes, original>>
        /\ ~agent.working /\ agent.stream = <<>> /\ agent'.edits = <<>> /\ ~agent'.running
    BY <1>t, <1>6 DEF StreamEnds, Run
  <2>2. f \notin Touched(agent'.edits) /\ f \notin Touched(agent.stream)
    BY <2>1, EmptyList
  <2>3. CASE ~Streaming(f)
    <3>1. FirstsFine(f)
      BY <2>2, <2>3, NotStreaming, FirstsNone
    <3> QED
      BY <1>l, <2>1, <3>1
  <2>4. CASE Streaming(f)
    <3>0. PICK n \in DOMAIN agent.edits : agent.edits[n].file = f
      BY <2>4 DEF Streaming, Touched
    <3>4. AllTold(f)
      BY <2>1 DEF Undoes
    <3>5. n \in Nat /\ agent.told \in Nat
      BY RunFacts
    <3>1. ~Untold(f)
      BY <3>0, <3>4, <3>5 DEF Untold, AllTold
    <3>2. Pending(f)
      BY <2>2, <2>4, <3>1 DEF Undoes, Owed
    <3>3. (Pending(f)' <=> Pending(f)) /\ CallsOn(f)' = CallsOn(f) /\ AllTold(f)'
      BY <2>1, <2>2 DEF Pending, CallsOn, Calls, AllTold, Touched
    <3> QED
      BY <2>1, <2>4, <3>2, <3>3 DEF Undoes
  <2> QED
    BY <2>3, <2>4
<1>4. ASSUME NEW g \in Files, NEW text \in Text, AgentEdits(g, text) PROVE Undoes(f)'
  <2> DEFINE e == [file |-> g, previous |-> disk[g], new |-> text, created |-> FALSE]
  <2>1. e \in Edit /\ AgentWrites(e) /\ ~e.created /\ e.file = g /\ e.previous = disk[g]
    BY <1>4, <1>t DEF AgentEdits, Edit
  <2>2. /\ UNCHANGED <<changes, requests>> /\ disk' = [disk EXCEPT ![g] = text]
        /\ Note({r.file : r \in Calls({"reload", "undone"})} \cap {g}, FALSE)
        /\ original' = IF original[g] = None THEN [original EXCEPT ![g] = disk[g]] ELSE original
    BY <1>4 DEF AgentEdits
  <2> HIDE DEF e
  <2>4. CASE f # g
    <3>1. FirstsFine(f) /\ disk'[f] = disk[f] /\ original'[f] = original[f]
      BY <1>t, <2>1, <2>2, <2>4, FirstsElsewhere DEF Buffers
    <3> QED
      BY <1>t, <1>q, <2>2, <3>1, UndoesRests
  <2>5. CASE f = g
    <3>1. f \notin {r.file : r \in Calls({"reload", "undone"})} \cap {g} /\ ~CrossedNow(f)'
      BY <2>2, NoteFacts
    <3>2. \A q \in CallsOn(f) : q.kind \notin {"reload", "undone"}
      BY <2>5, <3>1 DEF CallsOn, Calls
    <3>3. \/ original'[f] = original[f] /\ original[f] # None
          \/ original'[f] = e.previous /\ original[f] = None
      BY <1>t, <2>1, <2>2, <2>5 DEF Buffers
    <3> QED
      BY <2>1, <2>2, <2>5, <3>1, <3>2, <3>3, RunUndoes
  <2> QED
    BY <2>4, <2>5
<1>5. ASSUME NEW g \in Files, NEW text \in Text, AgentCreates(g, text) PROVE Undoes(f)'
  <2> DEFINE e == [file |-> g, previous |-> Empty, new |-> text, created |-> TRUE]
  <2>1. /\ e \in Edit /\ AgentWrites(e) /\ e.file = g /\ e.previous = Empty
        /\ g \notin Touched(agent.edits)
    BY <1>5, TextFacts DEF AgentCreates, Edit, Shape, Known
  <2>2. /\ UNCHANGED <<changes, requests>> /\ disk' = [disk EXCEPT ![g] = text]
        /\ Note({}, FALSE) /\ g \notin born /\ original' = [original EXCEPT ![g] = Empty]
    BY <1>5 DEF AgentCreates
  <2> HIDE DEF e
  <2>4. CASE f # g
    <3>1. FirstsFine(f) /\ disk'[f] = disk[f] /\ original'[f] = original[f]
      BY <1>t, <2>1, <2>2, <2>4, FirstsElsewhere DEF Buffers
    <3> QED
      BY <1>t, <1>q, <2>2, <3>1, UndoesRests
  <2>5. CASE f = g
    <3>1. CallsOn(f) = {} /\ ~CrossedNow(f)'
      BY <2>2, <2>5, NoteFacts DEF CallsOn, Calls, Shape, SoundCall
    <3>2. f \notin Touched(agent.edits) /\ ~Pending(f)
      BY <2>2, <2>5 DEF Shape, Known, Pending
    <3>3. original'[f] = e.previous
      BY <1>t, <2>1, <2>2, <2>5 DEF Buffers
    <3> QED
      BY <2>1, <2>2, <2>5, <3>1, <3>2, <3>3, RunUndoes
  <2> QED
    BY <2>4, <2>5
<1> QED
  BY <1>1, <1>2, <1>3, <1>4, <1>5, <1>6

\* Undoes: edits arrive; the first keeps the text to go back to, the others
\* leave it.
LEMMA DeliveredUndoes ==
  ASSUME Shape, Shape', NEW f \in Files, Shows(f), Undoes(f),
         NEW s \in Seq(Edit), NEW calls, Delivers(s, calls), UNCHANGED <<disk, original>>,
         \A r \in calls : r.kind = "refresh",
         f \in Touched(s) => Streaming(f),
         f \in Touched(s) /\ ~Pending(f) => FirstIs(s, f, original[f]),
         f \notin Touched(s) => FirstsFine(f),
         agent'.edits = agent.edits, agent'.told = agent.told, agent'.working = agent.working
  PROVE  Undoes(f)'
<1>t. changes \in Records /\ buffers \in Buffers
  BY DEF Shape, TypeOK, Records, Buffers
<1>1. requests' = requests \cup calls \cup {FileCall("reload", g, None) : g \in Touched(s)}
  BY DEF Delivers
<1>2. \A q \in CallsOn(f)' : q.kind \in {"restore", "undone"} => q \in CallsOn(f)
  BY <1>1, CallFields DEF CallsOn, Calls
<1>3. CASE f \notin Touched(s)
  <2>1. Alike(changes'[f], changes[f])
    BY <1>t, <1>3, DeliversFacts
  <2>2. RejectsFine(f)
    BY <1>2 DEF RejectsFine
  <2> QED
    BY <1>3, <2>1, <2>2, UndoesRests
<1>4. CASE f \in Touched(s)
  <2>1. /\ changes'[f] # None /\ changes'[f].status = "pending"
        /\ Pending(f) => changes'[f].previous = changes[f].previous
        /\ ~Pending(f) => \A x : FirstIs(s, f, x) => changes'[f].previous = x
    BY <1>t, <1>4, DeliversFacts
  <2>2. Pending(f)' /\ changes'[f].previous = original'[f]
    BY <1>4, <2>1 DEF Pending, Undoes
  <2>3. \A q \in CallsOn(f)' : q.kind \notin {"restore", "undone"}
    BY <1>2, <1>4, Alone DEF Undoes, Shows, InStep, Writes
  <2>4. ~agent'.working => AllTold(f)'
    BY DEF Undoes, AllTold
  <2> QED
    BY <2>2, <2>3, <2>4 DEF Undoes
<1> QED
  BY <1>3, <1>4

\* Undoes: an event arrives, or the end of the stream with all the edits again.
LEMMA ArrivalsUndo ==
  ASSUME Shape, Shape', NEW f \in Files, Shows(f), Undoes(f),
         EditArrives \/ ProjectChangedArrives \/ DoneArrives
  PROVE  Undoes(f)'
<1>t. /\ agent \in Run /\ agent.edits \in Seq(Edit) /\ agent.stream # <<>> /\ agent.running
      /\ None \notin Files /\ Touched(agent.stream) \subseteq Touched(agent.edits) \cup {None}
      /\ UNCHANGED <<disk, original>> /\ Noted
  BY EditorAssumption, RunFacts, StreamTouches, NoteTypes
     DEF Shape, Streamed, EditArrives, ProjectChangedArrives, DoneArrives, serverVars, reviewVars
<1>l. ~Pending(f) => FirstIs(agent.edits, f, original[f])
  BY DEF Undoes
<1>f. ASSUME agent'.edits = agent.edits, agent'.told = agent.told,
             agent'.working = agent.working, agent'.running = agent.running,
             f \in Touched(agent.stream) => f \in Touched(agent'.stream)
      PROVE  FirstsFine(f)
  BY <1>f DEF FirstsFine, Streaming, Owed, Untold, AllTold
<1>1. ASSUME EditArrives PROVE Undoes(f)'
  <2> DEFINE e == Head(agent.stream)
             calls == IF e.created THEN {TreeCall("refresh", {}, None)} ELSE {}
  <2>1. /\ Delivers(<<e>>, calls)
        /\ \/ agent' = [agent EXCEPT !.stream = Tail(@)]
           \/ agent' = [agent EXCEPT !.stream = [@ EXCEPT ![1] = ProjectChanged]]
    BY <1>1 DEF EditArrives
  <2>2. \A r \in calls : r.kind = "refresh"
    BY CallFields
  <2>3. /\ e \in Edit /\ e # Done
        /\ \E n \in DOMAIN agent.edits : IsFirst(agent.edits, n) /\ agent.edits[n] = e
    BY <1>1, HeadFacts
  <2>4. /\ agent'.edits = agent.edits /\ agent'.running = agent.running
        /\ agent'.told = agent.told /\ agent'.working = agent.working
        /\ e.file \in Touched(agent.stream)
        /\ f \in Touched(agent.stream) /\ f # e.file => f \in Touched(agent'.stream)
    BY <1>t, <2>1, <2>3, TailTouches
  <2> HIDE DEF e, calls
  <2>5. /\ <<e>> \in Seq(Edit) /\ Touched(<<e>>) = {e.file}
        /\ FirstIs(<<e>>, e.file, e.previous)
    BY <2>3, OneEdit
  <2>6. f \in Touched(<<e>>) => Streaming(f)
    BY <1>t, <2>4, <2>5 DEF Streaming
  <2>7. f \in Touched(<<e>>) /\ ~Pending(f) => FirstIs(<<e>>, f, original[f])
    <3>1. SUFFICES ASSUME f = e.file, ~Pending(f) PROVE e.previous = original[f]
      BY <2>5
    <3>2. PICK n \in DOMAIN agent.edits : IsFirst(agent.edits, n) /\ agent.edits[n] = e
      BY <2>3
    <3> QED
      BY <1>l, <3>1, <3>2 DEF FirstIs, IsFirst
  <2>8. f \notin Touched(<<e>>) => FirstsFine(f)
    BY <1>f, <2>4, <2>5
  <2> QED
    BY <1>t, <2>1, <2>2, <2>4, <2>5, <2>6, <2>7, <2>8, DeliveredUndoes
<1>2. ASSUME DoneArrives PROVE Undoes(f)'
  <2> DEFINE calls == {}
  <2>1. Delivers(agent.edits, calls) /\ agent' = [agent EXCEPT !.stream = <<>>]
    BY <1>2 DEF DoneArrives
  <2>2. /\ agent'.edits = agent.edits /\ agent'.running = agent.running
        /\ agent'.told = agent.told /\ agent'.working = agent.working
    BY <1>t, <2>1 DEF Run
  <2>3. /\ \A r \in calls : r.kind = "refresh"
        /\ f \in Touched(agent.edits) => Streaming(f)
        /\ f \in Touched(agent.edits) /\ ~Pending(f) => FirstIs(agent.edits, f, original[f])
    BY <1>t, <1>l DEF Streaming
  <2>4. f \notin Touched(agent.edits) => FirstsFine(f)
    BY <2>2, FirstsNone
  <2> HIDE DEF calls
  <2> QED
    BY <1>t, <2>1, <2>2, <2>3, <2>4, DeliveredUndoes
<1>3. ASSUME ProjectChangedArrives PROVE Undoes(f)'
  <2> DEFINE c == TreeCall("refresh", {}, None)
  <2>1. /\ Head(agent.stream) = ProjectChanged /\ agent' = [agent EXCEPT !.stream = Tail(@)]
        /\ requests' = requests \cup {c} /\ changes' = changes
    BY <1>3 DEF ProjectChangedArrives, reviewVars
  <2>2. c.kind = "refresh"
    BY CallFields
  <2> HIDE DEF c
  <2>3. RejectsFine(f)
    BY <2>1, <2>2 DEF RejectsFine, CallsOn, Calls
  <2>4. Head(agent.stream) # Done /\ Head(agent.stream).file # f
    BY <1>t, <2>1, EventFacts
  <2>5. FirstsFine(f)
    BY <1>t, <1>f, <2>1, <2>4, TailTouches
  <2> QED
    BY <1>t, <2>1, <2>3, <2>5, UndoesRests, RecordsRest
<1> QED
  BY <1>1, <1>2, <1>3

\* Every step keeps Undoing, ...
LEMMA NextUndoes == Shape /\ Shape' /\ Showing /\ Undoing /\ [Next]_vars => Undoing'
<1> SUFFICES ASSUME Shape, Shape', Showing, Undoing, [Next]_vars,
                    NEW f \in Files, f \notin crossed'
             PROVE  Undoes(f)'
  BY DEF Undoing
<1>1. CASE UNCHANGED vars
  <2>1. UNCHANGED <<disk, changes, original, agent, requests, crossed>>
    BY <1>1 DEF vars, serverVars, editorVars, reviewVars, notes
  <2>2. Undoes(f)
    BY <2>1 DEF Undoing
  <2> QED
    BY <2>1, <2>2 DEF Undoes, Pending, CallsOn, Calls, Streaming, Owed, Untold, AllTold
<1>2. CASE Next
  <2>2. Shows(f) /\ Undoes(f)
    BY <1>2, NextNotes, NoteFacts DEF Showing, Undoing
  <2>3. CASE UserStep
    BY <2>2, <2>3, ClicksUndo, TextFacts DEF UserStep
  <2>4. CASE TimerStep \/ DeployStep
    BY <2>2, <2>4, ClicksUndo DEF TimerStep, DeployStep
  <2>5. CASE ServerStep
    BY <2>2, <2>5, ServerUndoes DEF ServerStep
  <2>6. CASE Answer
    BY <2>2, <2>6, AnswersUndo, ServerUndoes DEF Answer
  <2>7. CASE AgentStep
    BY <2>2, <2>7, AgentUndoes, ArrivalsUndo, TextFacts DEF AgentStep
  <2> QED
    BY <1>2, <2>3, <2>4, <2>5, <2>6, <2>7 DEF Next
<1> QED
  BY <1>1, <1>2

\* ... which holds to begin with.
LEMMA InitUndoes == Init => Undoing
<1> SUFFICES ASSUME Init, NEW f \in Files PROVE Undoes(f)
  BY DEF Undoing
<1>1. /\ agent.edits = <<>> /\ changes[f] = None /\ original[f] = None
      /\ \A r \in requests : r.kind = "load"
  BY CallFields DEF Init, AtRest
<1>2. (\A x : FirstIs(agent.edits, f, x)) /\ f \notin Touched(agent.edits)
  BY <1>1, EmptyList, UntouchedList
<1>3. AllTold(f)
  BY <1>2 DEF AllTold, Touched
<1>4. \A r \in CallsOn(f) : r.kind \notin {"restore", "undone"}
  BY <1>1 DEF CallsOn, Calls
<1> QED
  BY <1>1, <1>2, <1>3, <1>4 DEF Undoes, Pending, Streaming

\* The records of changes change when one is accepted or taken back, when edits
\* arrive, or by being filled in; no other step touches them.
LEMMA RecordSteps ==
  ASSUME Shape, [Next]_vars
  PROVE  \/ changes' = changes \/ changes' = Backfilled(changes, buffers')
         \/ \E g \in Files : AcceptChange(g)
         \/ EditArrives \/ DoneArrives
         \/ \E r \in requests : ChangeUndone(r) \/ UndoneUnseen(r)
<1> USE DEF serverVars, editorVars, reviewVars
<1>1. CASE UNCHANGED vars
  BY <1>1 DEF vars
<1>2. CASE UserStep
  BY <1>2 DEF UserStep, OpenFile, CloseTab, PrepareSearch, Type, SaveFile, CreateFile,
     RejectChange, Deploy
<1>3. CASE TimerStep \/ DeployStep
  BY <1>3 DEF TimerStep, DeployStep, StructureTimerFires, AutosaveFires, FilesFlushed,
     StructureFlushed, DeployEnds
<1>4. CASE ServerStep
  BY <1>4 DEF ServerStep, ServeRead, ServeRefresh, ServeCreate, ServeSave, ServeStructure,
     ServeRestore
<1>5. CASE Answer
  BY <1>5 DEF Answer, FileLoaded, LoadFails, FileReloaded, ReloadFails, SaveFails,
     ApplyRemoteProject, ProjectCallFails, RejectFails, FlushFails
<1>6. CASE AgentStep
  BY <1>6 DEF AgentStep, StartAgent, AgentEdits, AgentCreates, AgentTells, AgentDone, AgentFails,
     StreamBreaks, ProjectChangedArrives, StreamEnds
<1> QED
  BY <1>1, <1>2, <1>3, <1>4, <1>5, <1>6 DEF Next

\* The step that marks a change rejected finds the server and the editor back
\* at the text before the first edit.
LEMMA RejectedIsUndone ==
  ASSUME Shape, Shape', Showing, Undoing, [Next]_vars, NEW f \in Files, f \notin crossed',
         Pending(f), changes'[f].status = "rejected"
  PROVE  disk'[f] = original[f] /\ buffers'[f] = original[f]
<1>t. changes \in Records /\ buffers \in Buffers /\ buffers' \in Buffers
  BY DEF Shape, TypeOK, Records, Buffers
<1>a. ~Alike(changes'[f], changes[f])
  BY DEF Pending, Alike
<1>1. CASE changes' = changes \/ changes' = Backfilled(changes, buffers')
  BY <1>1, <1>a, RecordsRest
<1>2. ASSUME NEW g \in Files, AcceptChange(g) PROVE FALSE
  <2>1. /\ changes[g] # None
        /\ changes' = Backfilled([changes EXCEPT ![g].status = "accepted"], buffers')
    BY <1>2 DEF AcceptChange, Pending
  <2>2. /\ changes'[g].status = "accepted"
        /\ \A h \in Files : h # g => Alike(changes'[h], changes[h])
    BY <1>t, <2>1, MarkFacts
  <2> QED
    BY <1>a, <2>2
<1>3. ASSUME NEW s \in Seq(Edit), NEW calls, Delivers(s, calls) PROVE FALSE
  <2>1. /\ f \notin Touched(s) => Alike(changes'[f], changes[f])
        /\ f \in Touched(s) => changes'[f].status = "pending"
    BY <1>t, <1>3, DeliversFacts
  <2> QED
    BY <1>a, <2>1
<1>4. CASE EditArrives \/ DoneArrives
  <2>1. agent.edits \in Seq(Edit) /\ agent.stream \in Seq(Event)
    BY DEF Shape, TypeOK, Event
  <2>2. CASE DoneArrives
    BY <1>3, <2>1, <2>2 DEF DoneArrives
  <2>3. CASE EditArrives
    <3> DEFINE e == Head(agent.stream)
    <3>1. \E calls : Delivers(<<e>>, calls)
      BY <2>3 DEF EditArrives
    <3>2. e \in Edit
      BY <2>3, HeadFacts
    <3>3. <<e>> \in Seq(Edit)
      BY <3>2
    <3> HIDE DEF e
    <3> QED
      BY <1>3, <3>1, <3>3
  <2> QED
    BY <1>4, <2>2, <2>3
<1>5. ASSUME NEW r \in requests, ChangeUndone(r) \/ UndoneUnseen(r)
      PROVE  disk'[f] = original[f] /\ buffers'[f] = original[f]
  <2>1. /\ r.kind = "undone" /\ r.file \in Files /\ changes[r.file] # None
        /\ changes' = Backfilled([changes EXCEPT ![r.file].status = "rejected"], buffers')
        /\ disk' = disk
    BY <1>5 DEF ChangeUndone, UndoneUnseen, Rejected, Shape, SoundCall, TypeOK, Reads, serverVars,
       editorVars
  <2>2. f = r.file
    <3> DEFINE g == r.file
    <3>1. /\ g \in Files /\ changes[g] # None
          /\ changes' = Backfilled([changes EXCEPT ![g].status = "rejected"], buffers')
      BY <2>1
    <3> HIDE DEF g
    <3>2. \A h \in Files : h # g => Alike(changes'[h], changes[h])
      BY <1>t, <3>1, MarkFacts
    <3> QED
      BY <1>a, <3>2 DEF g
  <2>3. ChangeUndone(r)
    <3>1. ASSUME UndoneUnseen(r) PROVE FALSE
      BY <2>2, <3>1, NoteFacts DEF UndoneUnseen
    <3> QED
      BY <1>5, <3>1
  <2>4. r.served /\ buffers' = [buffers EXCEPT ![f] = r.text] /\ Note({}, FALSE)
    BY <2>2, <2>3 DEF ChangeUndone
  <2>5. Shows(f) /\ Undoes(f) /\ r \in CallsOn(f)
    BY <2>1, <2>2, <2>4, NoteFacts DEF Showing, Undoing, CallsOn, Calls, Reads
  <2>6. r.text = disk[f] /\ disk[f] = original[f]
    BY <2>1, <2>4, <2>5 DEF Shows, InStep, Undoes
  <2> QED
    BY <1>t, <2>1, <2>4, <2>6 DEF Buffers
<1> QED
  BY <1>1, <1>2, <1>4, <1>5, RecordSteps

\* When a change is marked rejected, of a file whose exchanges never overlapped
\* or failed, the server and the editor are back at the text it had before the
\* agent's first edit that was not reviewed, however many edits and runs came
\* after it (code-workspace.tsx:1160-1204, 1241-1268).
THEOREM RejectsUndo == Spec => RejectUndoesEveryEdit
<1>1. Shape /\ Shape' /\ Showing /\ Undoing /\ [Next]_vars
        => [\A f \in Files :
             (/\ f \notin crossed' /\ Pending(f)
              /\ changes'[f].status = "rejected")
               => disk'[f] = original[f] /\ buffers'[f] = original[f]]_vars
  BY RejectedIsUndone
<1> QED
  BY <1>1, InitShape, NextShape, InitShows, NextShows, InitUndoes, NextUndoes, PTL
     DEF Spec, RejectUndoesEveryEdit

-----------------------------------------------------------------------------
(* The loop that runs the project.                                        *)

AtStep(f) == f.index <= Len(f.steps)

LoopShape ==
    /\ LoopTypeOK
    /\ phase \in {"run", "recover", "recovered"} => stack # <<>> /\ cycles <= MaxPlanCycles
    /\ \A i \in 1..Len(stack) :
          i < Len(stack) \/ phase \in {"recover", "recovered"} => AtStep(stack[i])

\* A plan is a sequence of commands.
LEMMA PlansAreSequences == Plans \subseteq Seq(Commands)
BY BudgetAssumption DEF Plans

\* The frame on top, where there is one.
LEMMA TopFacts ==
    ASSUME LoopShape, stack # <<>>
    PROVE  /\ Len(stack) \in Nat \ {0}
           /\ Top \in FrameType
           /\ Top.steps \in Seq(Commands) /\ Top.index \in Nat \ {0}
           /\ InPlan => Command \in Commands
<1>1. Len(stack) \in Nat \ {0} /\ Top \in FrameType
  BY EmptySeq, ElementOfSeq DEF LoopShape, LoopTypeOK, Top
<1>2. Top.steps \in Seq(Commands) /\ Top.index \in Nat \ {0}
  BY <1>1 DEF FrameType
<1>3. ASSUME InPlan PROVE Command \in Commands
  BY <1>2, <1>3 DEF InPlan, Command
<1> QED
  BY <1>1, <1>2, <1>3

\* A step that is run is recorded with the right type, whatever it ended with.
LEMMA RecordShape ==
    ASSUME LoopShape, stack # <<>>, InPlan, NEW o \in {"ok", "up"} \union Errors
    PROVE  /\ Append(executed, Record(o)) \in Seq(RecordType)
           /\ Len(Append(executed, Record(o))) = Len(executed) + 1
           /\ Len(executed) \in Nat
<1>1. Record(o) \in RecordType
  BY TopFacts DEF Record, RecordType, PlanKind
<1> QED
  BY <1>1 DEF LoopShape, LoopTypeOK

\* Advancing changes the index of the top frame and nothing else.
LEMMA AdvancedShape ==
    ASSUME LoopShape, stack # <<>>
    PROVE  /\ Advanced(stack) \in Seq(FrameType)
           /\ Len(Advanced(stack)) = Len(stack)
           /\ \A i \in 1..Len(stack) : i < Len(stack) => Advanced(stack)[i] = stack[i]
<1> DEFINE l == Len(stack)
           f == [stack[l] EXCEPT !.index = stack[l].index + 1]
<1>1. f \in FrameType /\ l \in 1..Len(stack)
  BY TopFacts DEF FrameType, Top
<1>2. Advanced(stack) = [stack EXCEPT ![l] = f]
  BY DEF Advanced
<1> HIDE DEF f
<1> QED
  BY <1>1, <1>2, ExceptSeq DEF LoopShape, LoopTypeOK

\* The prefixes of a sequence.
LEMMA PrefixFacts ==
    ASSUME NEW S, NEW s \in Seq(S), NEW n \in Nat \ {0}, n <= Len(s)
    PROVE  /\ SubSeq(s, 1, n) \in Seq(S)
           /\ Len(SubSeq(s, 1, n)) = n
           /\ \A i \in 1..n : SubSeq(s, 1, n)[i] = s[i]
OBVIOUS

\* Popping keeps the frames below, all of which wait at the step that failed.
LEMMA PopShape ==
    ASSUME LoopShape, Len(stack) # 1, stack # <<>>
    PROVE  /\ SubSeq(stack, 1, Len(stack) - 1) \in Seq(FrameType)
           /\ Len(SubSeq(stack, 1, Len(stack) - 1)) = Len(stack) - 1
           /\ Len(stack) - 1 \in Nat \ {0}
           /\ \A i \in 1..(Len(stack) - 1) :
                 /\ SubSeq(stack, 1, Len(stack) - 1)[i] = stack[i]
                 /\ AtStep(stack[i])
<1>1. stack \in Seq(FrameType) /\ Len(stack) \in Nat \ {0}
  BY TopFacts DEF LoopShape, LoopTypeOK
<1>2. Len(stack) - 1 \in Nat \ {0} /\ Len(stack) - 1 <= Len(stack)
  BY <1>1
<1>3. /\ SubSeq(stack, 1, Len(stack) - 1) \in Seq(FrameType)
      /\ Len(SubSeq(stack, 1, Len(stack) - 1)) = Len(stack) - 1
      /\ \A i \in 1..(Len(stack) - 1) : SubSeq(stack, 1, Len(stack) - 1)[i] = stack[i]
  BY <1>1, <1>2, PrefixFacts
<1>4. \A i \in 1..(Len(stack) - 1) : AtStep(stack[i])
  BY <1>1 DEF LoopShape
<1> QED
  BY <1>2, <1>3, <1>4

-----------------------------------------------------------------------------
(* Types.                                                                  *)

\* The loop starts with no frame.
LEMMA LoopInitShape == LoopInit => LoopShape
<1> SUFFICES ASSUME LoopInit PROVE LoopShape
  OBVIOUS
<1>1. stack = <<>> /\ phase = "plan" /\ executed = <<>> /\ cycles = 0 /\ signatures = {}
  BY DEF LoopInit
<1> QED
  BY <1>1, EmptySeq, BudgetAssumption DEF LoopShape, LoopTypeOK, Phases

\* The first plan puts one frame on the empty stack.
LEMMA PlanRunShape ==
    ASSUME LoopShape, PlanRun PROVE LoopShape'
<1>1. CASE stack' = <<>> /\ phase' = "failed"
  BY <1>1, EmptySeq, BudgetAssumption DEF PlanRun, LoopShape, LoopTypeOK, Phases
<1>2. CASE \E p \in Plans : stack' = <<Frame(p, 1)>> /\ phase' = "run"
  <2>1. PICK p \in Plans : stack' = <<Frame(p, 1)>> /\ phase' = "run"
    BY <1>2
  <2>2. Frame(p, 1) \in FrameType
    BY PlansAreSequences DEF Frame, FrameType
  <2> HIDE DEF Frame
  <2>3. stack' \in Seq(FrameType) /\ Len(stack') = 1
    BY <2>1, <2>2
  <2> QED
    BY <2>1, <2>3, EmptySeq, BudgetAssumption DEF PlanRun, LoopShape, LoopTypeOK, Phases
<1> QED
  BY <1>1, <1>2 DEF PlanRun

\* Running a step keeps the frames but for the index of the top one.
LEMMA RunningShape ==
    ASSUME LoopShape, OutOfBudget \/ StepSucceeds \/ StepFails PROVE LoopShape'
<1>0. stack # <<>> /\ InPlan /\ phase = "run"
  BY DEF OutOfBudget, StepSucceeds, StepFails, LoopShape
<1>1. CASE OutOfBudget
  BY <1>1 DEF OutOfBudget, LoopShape, LoopTypeOK, Phases
<1>2. CASE StepSucceeds
  <2>1. executed' \in Seq(RecordType)
    BY <1>0, <1>2, RecordShape DEF StepSucceeds, Outcomes
  <2>2. /\ stack' \in Seq(FrameType) /\ Len(stack') = Len(stack)
        /\ \A i \in 1..Len(stack) : i < Len(stack) => stack'[i] = stack[i]
    BY <1>0, <1>2, AdvancedShape DEF StepSucceeds
  <2>3. stack' # <<>>
    BY <1>0, <2>2, TopFacts, EmptySeq
  <2> QED
    BY <1>0, <1>2, <2>1, <2>2, <2>3 DEF StepSucceeds, LoopShape, LoopTypeOK, AtStep
<1>3. CASE StepFails
  <2>1. executed' \in Seq(RecordType)
    BY <1>0, <1>3, RecordShape DEF StepFails
  <2>2. signatures' \subseteq Commands \X Errors
    BY <1>0, <1>3, TopFacts DEF StepFails, LoopShape, LoopTypeOK
  <2>3. AtStep(stack[Len(stack)])
    BY <1>0 DEF InPlan, Top, AtStep
  <2> QED
    BY <1>0, <1>3, <2>1, <2>2, <2>3 DEF StepFails, LoopShape, LoopTypeOK, Phases, AtStep
<1> QED
  BY <1>1, <1>2, <1>3

\* A recovery plan is put on top of the frame whose step failed.
LEMMA RecoverShape ==
    ASSUME LoopShape, Recover PROVE LoopShape'
<1>1. CASE phase' = "failed" /\ UNCHANGED stack
  BY <1>1, BudgetAssumption DEF Recover, LoopShape, LoopTypeOK, Phases, AtStep
<1>2. CASE /\ cycles' <= MaxPlanCycles
           /\ \E p \in Plans : stack' = Append(stack, Frame(p, cycles')) /\ phase' = "run"
  <2>1. PICK p \in Plans : stack' = Append(stack, Frame(p, cycles')) /\ phase' = "run"
    BY <1>2
  <2>2. Frame(p, cycles') \in FrameType
    BY PlansAreSequences, BudgetAssumption DEF Frame, FrameType, Recover, LoopShape, LoopTypeOK
  <2>3. /\ stack' \in Seq(FrameType) /\ Len(stack') = Len(stack) + 1
        /\ Len(stack) \in Nat
        /\ \A i \in 1..Len(stack) : stack'[i] = stack[i]
    BY <2>1, <2>2 DEF LoopShape, LoopTypeOK
  <2>4. stack' # <<>>
    BY <2>3, EmptySeq
  <2> QED
    BY <1>2, <2>1, <2>3, <2>4, BudgetAssumption
       DEF Recover, LoopShape, LoopTypeOK, Phases, AtStep
<1> QED
  BY <1>1, <1>2 DEF Recover

\* Ending a plan uncovers a frame that waits at the step that failed.
LEMMA PlanDoneShape ==
    ASSUME LoopShape, PlanDone PROVE LoopShape'
<1>1. CASE Len(stack) = 1
  BY <1>1 DEF PlanDone, LoopShape, LoopTypeOK, Phases, AtStep
<1>2. CASE Len(stack) # 1
  <2>1. /\ stack' \in Seq(FrameType) /\ Len(stack') = Len(stack) - 1
        /\ Len(stack') \in Nat \ {0}
        /\ \A i \in 1..Len(stack') : AtStep(stack'[i])
    BY <1>2, PopShape DEF PlanDone, LoopShape
  <2>2. stack' # <<>>
    BY <2>1, EmptySeq
  <2> QED
    BY <1>2, <2>1, <2>2 DEF PlanDone, LoopShape, LoopTypeOK, Phases, AtStep
<1> QED
  BY <1>1, <1>2

\* What follows a recovery stays in the frame that asked for it, or ends the loop.
LEMMA AfterRecoveryShape ==
    ASSUME LoopShape, SkipServerStep \/ RetrySucceeds \/ RetryFails PROVE LoopShape'
<1>0. stack # <<>> /\ InPlan /\ phase = "recovered"
  BY TopFacts DEF SkipServerStep, RetrySucceeds, RetryFails, LoopShape, AtStep, InPlan, Top
<1>1. /\ Advanced(stack) \in Seq(FrameType) /\ Len(Advanced(stack)) = Len(stack)
      /\ \A i \in 1..Len(stack) : i < Len(stack) => Advanced(stack)[i] = stack[i]
      /\ Advanced(stack) # <<>>
  BY <1>0, AdvancedShape, TopFacts, EmptySeq
<1>2. CASE SkipServerStep
  BY <1>0, <1>1, <1>2 DEF SkipServerStep, LoopShape, LoopTypeOK, Phases, AtStep
<1>3. CASE RetrySucceeds
  <2>1. executed' \in Seq(RecordType)
    BY <1>0, <1>3, RecordShape DEF RetrySucceeds, Outcomes
  <2> QED
    BY <1>0, <1>1, <1>3, <2>1 DEF RetrySucceeds, LoopShape, LoopTypeOK, Phases, AtStep
<1>4. CASE RetryFails
  <2>1. executed' \in Seq(RecordType)
    BY <1>0, <1>4, RecordShape DEF RetryFails
  <2> QED
    BY <1>0, <1>4, <2>1 DEF RetryFails, LoopShape, LoopTypeOK, Phases, AtStep
<1> QED
  BY <1>2, <1>3, <1>4

\* The shape is kept by every step.
LEMMA StepShape == LoopShape /\ [LoopNext]_loopVars => LoopShape'
<1> SUFFICES ASSUME LoopShape, [LoopNext]_loopVars PROVE LoopShape'
  OBVIOUS
<1>1. CASE UNCHANGED loopVars
  BY <1>1 DEF loopVars, LoopShape, LoopTypeOK, AtStep
<1> QED
  BY <1>1, PlanRunShape, RunningShape, RecoverShape, PlanDoneShape, AfterRecoveryShape
     DEF LoopNext

\* The shape holds throughout.
LEMMA LoopShapeHolds == LoopSpec => []LoopShape
BY LoopInitShape, StepShape, PTL DEF LoopSpec

\* The frames, the step records and the signatures keep their types.
THEOREM LoopTypeCorrect == LoopSpec => []LoopTypeOK
<1>1. LoopShape => LoopTypeOK
  BY DEF LoopShape
<1> QED
  BY <1>1, LoopShapeHolds, PTL

-----------------------------------------------------------------------------
(* The two budgets.                                                        *)

\* Every active frame and every frame that has returned was paid for with one
\* plan cycle, and each step over max_total_steps with a frame that returned.
Budgets ==
    /\ phase = "plan" => stack = <<>> /\ executed = <<>>
    /\ phase \in {"run", "recover"} =>
          /\ Len(stack) <= cycles /\ cycles <= MaxPlanCycles
          /\ Len(executed) + Len(stack) <= MaxTotalSteps + cycles
    /\ phase = "recovered" =>
          /\ Len(stack) + 1 <= cycles /\ cycles <= MaxPlanCycles
          /\ Len(executed) + Len(stack) + 1 <= MaxTotalSteps + cycles
    /\ BudgetsBound

\* No step executes or nests more than its budget pays for.
LEMMA StepBudgets == LoopShape /\ Budgets /\ [LoopNext]_loopVars => Budgets'
<1> SUFFICES ASSUME LoopShape, Budgets, [LoopNext]_loopVars PROVE Budgets'
  OBVIOUS
<1> USE BudgetAssumption DEF Budgets, BudgetsBound
<1>0. /\ Len(stack) \in Nat /\ Len(executed) \in Nat /\ cycles \in Nat
      /\ stack # <<>> => Len(stack) \in Nat \ {0}
  BY TopFacts DEF LoopShape, LoopTypeOK
<1>1. CASE UNCHANGED loopVars
  BY <1>1 DEF loopVars
<1>2. CASE PlanRun
  <2>1. \A p \in Plans : Len(<<Frame(p, 1)>>) = 1
    OBVIOUS
  <2>2. stack' = <<>> => Len(stack') = 0
    OBVIOUS
  <2>3. executed' = <<>> /\ Len(executed') = 0 /\ cycles' = 1
    BY <1>2, EmptySeq DEF PlanRun
  <2>4. CASE Len(stack') = 1 /\ phase' = "run"
    BY <2>3, <2>4
  <2>5. CASE Len(stack') = 0 /\ phase' = "failed"
    BY <2>3, <2>5
  <2> QED
    BY <1>2, <2>1, <2>2, <2>4, <2>5 DEF PlanRun
<1>3. CASE OutOfBudget
  BY <1>3 DEF OutOfBudget
<1>4. CASE StepSucceeds
  <2>1. Len(executed') = Len(executed) + 1 /\ Len(stack') = Len(stack)
    BY <1>4, RecordShape, AdvancedShape DEF StepSucceeds, Outcomes, LoopShape
  <2> QED
    BY <1>0, <1>4, <2>1 DEF StepSucceeds, BudgetLeft, LoopShape
<1>5. CASE StepFails
  <2>1. Len(executed') = Len(executed) + 1
    BY <1>5, RecordShape DEF StepFails, LoopShape
  <2> QED
    BY <1>0, <1>5, <2>1 DEF StepFails, BudgetLeft, LoopShape
<1>6. CASE Recover
  <2>1. \A p \in Plans : Len(Append(stack, Frame(p, cycles'))) = Len(stack) + 1
    BY DEF LoopShape, LoopTypeOK
  <2> QED
    BY <1>0, <1>6, <2>1 DEF Recover
<1>7. CASE PlanDone
  BY <1>0, <1>7, PopShape DEF PlanDone, LoopShape
<1>8. CASE SkipServerStep
  <2>1. Len(stack') = Len(stack)
    BY <1>8, AdvancedShape DEF SkipServerStep, LoopShape
  <2> QED
    BY <1>0, <1>8, <2>1 DEF SkipServerStep
<1>9. CASE RetrySucceeds \/ RetryFails
  <2>1. stack # <<>> /\ InPlan
    BY <1>9, <1>0 DEF RetrySucceeds, RetryFails, LoopShape, AtStep, InPlan, Top
  <2>2. Len(executed') = Len(executed) + 1 /\ Len(stack') = Len(stack)
    BY <1>9, <2>1, RecordShape, AdvancedShape DEF RetrySucceeds, RetryFails, Outcomes
  <2> QED
    BY <1>0, <1>9, <2>1, <2>2 DEF RetrySucceeds, RetryFails
<1> QED
  BY <1>1, <1>2, <1>3, <1>4, <1>5, <1>6, <1>7, <1>8, <1>9 DEF LoopNext

\* max_plan_cycles bounds the recursion, and the two budgets together bound
\* the commands that are run although a retry does not look at them.
THEOREM BudgetsHold == LoopSpec => []BudgetsBound
<1>1. LoopInit => Budgets
  <2> SUFFICES ASSUME LoopInit PROVE Budgets
    OBVIOUS
  <2>1. phase = "plan" /\ stack = <<>> /\ executed = <<>>
    BY DEF LoopInit
  <2> QED
    BY <2>1, EmptySeq, BudgetAssumption DEF Budgets, BudgetsBound
<1>2. Budgets => BudgetsBound
  BY DEF Budgets
<1> QED
  BY <1>1, <1>2, StepBudgets, LoopShapeHolds, PTL DEF LoopSpec

-----------------------------------------------------------------------------
(* Failures the Planner has been asked about.                              *)

\* A failure on its way to the Planner is already counted in the signatures.
Asked ==
    /\ IsFiniteSet(signatures)
    /\ phase = "plan" => cycles = 0
    /\ phase = "recover" => cycles <= Cardinality(signatures)
    /\ NoFailureReplanned

\* A plan is asked for only with a signature that was not there before.
LEMMA StepAsked == LoopShape /\ Asked /\ [LoopNext]_loopVars => Asked'
<1> SUFFICES ASSUME LoopShape, Asked, [LoopNext]_loopVars PROVE Asked'
  OBVIOUS
<1> USE DEF Asked, NoFailureReplanned
<1>0. cycles \in Nat /\ Cardinality(signatures) \in Nat
  BY FS_CardinalityType DEF LoopShape, LoopTypeOK
<1>1. CASE UNCHANGED loopVars
  BY <1>1 DEF loopVars
<1>2. CASE PlanRun
  BY <1>0, <1>2 DEF PlanRun
<1>3. CASE StepFails
  <2>1. PICK e \in Errors :
           /\ signatures' = signatures \union {<<Command, e>>}
           /\ phase' = IF <<Command, e>> \in signatures THEN "failed" ELSE "recover"
    BY <1>3 DEF StepFails
  <2>2. /\ IsFiniteSet(signatures')
        /\ Cardinality(signatures') = IF <<Command, e>> \in signatures
                                        THEN Cardinality(signatures)
                                        ELSE Cardinality(signatures) + 1
    BY <2>1, FS_AddElement
  <2> QED
    BY <1>0, <1>3, <2>1, <2>2 DEF StepFails
<1>4. CASE Recover
  BY <1>0, <1>4 DEF Recover
<1>5. CASE OutOfBudget \/ StepSucceeds \/ PlanDone \/ SkipServerStep
           \/ RetrySucceeds \/ RetryFails
  BY <1>5 DEF OutOfBudget, StepSucceeds, PlanDone, SkipServerStep, RetrySucceeds, RetryFails
<1> QED
  BY <1>1, <1>2, <1>3, <1>4, <1>5 DEF LoopNext

\* One plan per distinct failure, for every set of commands and outputs.
THEOREM FailuresAskedOnce == LoopSpec => []NoFailureReplanned
<1>1. LoopInit => Asked
  BY FS_EmptySet DEF LoopInit, Asked, NoFailureReplanned
<1>2. Asked => NoFailureReplanned
  BY DEF Asked
<1> QED
  BY <1>1, <1>2, StepAsked, LoopShapeHolds, PTL DEF LoopSpec

-----------------------------------------------------------------------------
(* What a successful run has run.                                          *)

\* The executions of the step at position p of the run plan in a list of
\* records, and the last of them, or 0.
RunsAt(rows, p) == {i \in DOMAIN rows : rows[i].kind = "run" /\ rows[i].at = p}
Latest(runs) == IF runs = {} THEN 0 ELSE CHOOSE i \in runs : \A k \in runs : k <= i

\* The step at position p was executed, and succeeded the last time.
RanWell(p) == LastRun(p) \in DOMAIN executed /\ Succeeded(executed[LastRun(p)])

\* Every step of the run plan before the one at hand has been run to success,
\* except server steps, and a successful run has none left.
Ran ==
    /\ phase = "succeeded" => stack # <<>> /\ ~AtStep(stack[1])
    /\ stack # <<>> =>
          \A p \in DOMAIN stack[1].steps :
             p < stack[1].index => stack[1].steps[p] \in Servers \/ RanWell(p)

\* A new record is the last execution of its own step, and leaves the last
\* executions of the others.
LEMMA RecordedLast ==
    ASSUME LoopTypeOK, NEW r \in RecordType, executed' = Append(executed, r), NEW p
    PROVE  /\ r.kind = "run" /\ r.at = p /\ Succeeded(r) => RanWell(p)'
           /\ r.kind # "run" \/ r.at # p => (RanWell(p) => RanWell(p)')
<1> DEFINE l == Len(executed)
<1>1. /\ l \in Nat /\ DOMAIN executed = 1..l /\ DOMAIN executed' = 1..(l + 1)
      /\ \A i \in 1..l : executed'[i] = executed[i]
      /\ executed'[l + 1] = r
  BY AppendProperties, LenProperties DEF LoopTypeOK
<1>2. LastRun(p) = Latest(RunsAt(executed, p)) /\ LastRun(p)' = Latest(RunsAt(executed', p))
  BY DEF LastRun, RunsAt, Latest
<1>3. RunsAt(executed, p) \subseteq 1..l
  BY <1>1 DEF RunsAt
<1>4. ASSUME r.kind = "run", r.at = p, Succeeded(r) PROVE RanWell(p)'
  <2>1. l + 1 \in RunsAt(executed', p) /\ \A k \in RunsAt(executed', p) : k <= l + 1
    BY <1>1, <1>4 DEF RunsAt
  <2>2. \A i \in RunsAt(executed', p) : (l + 1 <= i) => i = l + 1
    BY <1>1 DEF RunsAt
  <2>3. Latest(RunsAt(executed', p)) = l + 1
    BY <2>1, <2>2 DEF Latest
  <2> QED
    BY <1>1, <1>2, <1>4, <2>3 DEF RanWell
<1>5. ASSUME r.kind # "run" \/ r.at # p, RanWell(p) PROVE RanWell(p)'
  <2>1. RunsAt(executed', p) = RunsAt(executed, p)
    <3>1. \A i \in 1..(l + 1) : i \in 1..l \/ i = l + 1
      BY <1>1
    <3> QED
      BY <1>1, <1>5, <3>1 DEF RunsAt
  <2> QED
    BY <1>1, <1>2, <1>5, <2>1 DEF RanWell
<1> QED
  BY <1>4, <1>5

\* Advancing leaves the plans, and the indices of the frames below the top.
LEMMA AdvancedPlan ==
    ASSUME LoopShape, stack # <<>>
    PROVE  /\ Advanced(stack) # <<>>
           /\ Advanced(stack)[1].steps = stack[1].steps
           /\ Advanced(stack)[1].index = IF Len(stack) = 1 THEN stack[1].index + 1
                                         ELSE stack[1].index
<1>1. Len(stack) \in Nat \ {0} /\ stack \in Seq(FrameType) /\ 1 \in 1..Len(stack)
  BY TopFacts DEF LoopShape, LoopTypeOK
<1>2. Len(Advanced(stack)) = Len(stack) /\ Advanced(stack) \in Seq(FrameType)
  BY AdvancedShape
<1>3. Advanced(stack) # <<>>
  BY <1>1, <1>2, EmptySeq
<1>4. CASE Len(stack) = 1
  <2>1. stack[1] \in FrameType
    BY <1>1, ElementOfSeq
  <2>2. Advanced(stack)[1] = [stack[1] EXCEPT !.index = @ + 1]
    BY <1>1, <1>4, ExceptSeq DEF Advanced
  <2> QED
    BY <1>3, <1>4, <2>1, <2>2 DEF FrameType
<1>5. CASE Len(stack) # 1
  <2>1. Advanced(stack)[1] = stack[1]
    BY <1>1, <1>5, AdvancedShape
  <2> QED
    BY <1>3, <1>5, <2>1
<1> QED
  BY <1>4, <1>5

\* The bottom frame, which holds the run plan.
LEMMA BottomFacts ==
    ASSUME LoopShape, stack # <<>>
    PROVE  /\ stack[1].index \in Nat \ {0} /\ stack[1].steps \in Seq(Commands)
           /\ DOMAIN stack[1].steps = 1..Len(stack[1].steps) /\ Len(stack[1].steps) \in Nat
           /\ Len(stack) = 1 => Top = stack[1]
<1>1. stack[1] \in FrameType
  BY TopFacts, ElementOfSeq DEF LoopShape, LoopTypeOK
<1>2. stack[1].index \in Nat \ {0} /\ stack[1].steps \in Seq(Commands)
  BY <1>1 DEF FrameType
<1> QED
  BY <1>2, LenProperties DEF Top

\* A step that succeeded is done when the next one is at hand.
LEMMA SucceedingRan ==
    ASSUME LoopShape, Ran, stack # <<>>, InPlan, stack' = Advanced(stack), phase' = "run",
           NEW o \in Outcomes, executed' = Append(executed, Record(o))
    PROVE  Ran'
<1>1. Record(o) \in RecordType
  BY TopFacts DEF Record, RecordType, PlanKind, Outcomes
<1>2. Succeeded(Record(o)) /\ Record(o).at = Top.index /\ Record(o).kind = PlanKind
  BY DEF Succeeded, Record, Outcomes
<1> SUFFICES ASSUME NEW p \in DOMAIN stack'[1].steps, p < stack'[1].index
             PROVE  stack'[1].steps[p] \in Servers \/ RanWell(p)'
  BY DEF Ran
<1>3. p \in DOMAIN stack[1].steps /\ p \in Nat /\ stack'[1].steps[p] = stack[1].steps[p]
  BY AdvancedPlan, BottomFacts
<1> HIDE DEF Record
<1>4. CASE Len(stack) = 1
  <2>1. p < stack[1].index \/ p = stack[1].index
    BY <1>3, <1>4, AdvancedPlan, BottomFacts
  <2>2. CASE p = stack[1].index
    BY <1>1, <1>2, <1>4, <2>2, BottomFacts, RecordedLast DEF LoopShape, PlanKind
  <2>3. CASE p < stack[1].index
    <3>1. stack[1].steps[p] \in Servers \/ RanWell(p)
      BY <1>3, <2>3 DEF Ran
    <3>2. Record(o).at # p
      BY <1>2, <1>3, <1>4, <2>3, BottomFacts
    <3> QED
      BY <1>1, <1>3, <3>1, <3>2, RecordedLast DEF LoopShape
  <2> QED
    BY <2>1, <2>2, <2>3
<1>5. CASE Len(stack) # 1
  <2>1. stack[1].steps[p] \in Servers \/ RanWell(p)
    BY <1>3, <1>5, AdvancedPlan DEF Ran
  <2>2. Record(o).kind # "run"
    BY <1>2, <1>5 DEF PlanKind
  <2> QED
    BY <1>1, <1>3, <2>1, <2>2, RecordedLast DEF LoopShape
<1> QED
  BY <1>4, <1>5

\* A step that failed leaves those before it done.
LEMMA FailingRan ==
    ASSUME LoopShape, Ran, stack # <<>>, InPlan, UNCHANGED stack, phase' # "succeeded",
           NEW e \in Errors, executed' = Append(executed, Record(e))
    PROVE  Ran'
<1>1. Record(e) \in RecordType
  BY TopFacts DEF Record, RecordType, PlanKind
<1>2. Record(e).at = Top.index /\ Record(e).kind = PlanKind
  BY DEF Record
<1> HIDE DEF Record
<1> SUFFICES ASSUME NEW p \in DOMAIN stack[1].steps, p < stack[1].index
             PROVE  stack[1].steps[p] \in Servers \/ RanWell(p)'
  BY DEF Ran
<1>3. stack[1].steps[p] \in Servers \/ RanWell(p)
  BY DEF Ran
<1>4. Record(e).kind # "run" \/ Record(e).at # p
  BY <1>2, BottomFacts DEF PlanKind
<1> QED
  BY <1>1, <1>3, <1>4, RecordedLast DEF LoopShape

\* The steps of the run plan stay done.
LEMMA StepRan == LoopShape /\ Ran /\ [LoopNext]_loopVars => Ran'
<1> SUFFICES ASSUME LoopShape, Ran, [LoopNext]_loopVars PROVE Ran'
  OBVIOUS
<1>0. phase \in {"run", "recover", "recovered"} => stack # <<>>
  BY DEF LoopShape
<1>r. phase = "recovered" => InPlan
  <2> HAVE phase = "recovered"
  <2>1. Len(stack) \in 1..Len(stack)
    BY <1>0, TopFacts
  <2> QED
    BY <2>1 DEF LoopShape, AtStep, InPlan, Top
<1>u. UNCHANGED executed => \A p : RanWell(p) => RanWell(p)'
  BY DEF RanWell, LastRun
<1>1. CASE UNCHANGED loopVars
  BY <1>1, <1>u DEF loopVars, Ran, AtStep
<1>2. CASE PlanRun
  <2>1. CASE stack' = <<>> /\ phase' = "failed"
    BY <2>1 DEF Ran
  <2>2. CASE \E p \in Plans : stack' = <<Frame(p, 1)>> /\ phase' = "run"
    <3>1. stack'[1].index = 1
      BY <2>2 DEF Frame
    <3>2. DOMAIN stack'[1].steps \subseteq Nat \ {0}
      BY <2>2 DEF Frame, Plans
    <3> QED
      BY <2>2, <3>1, <3>2 DEF Ran
  <2> QED
    BY <1>2, <2>1, <2>2 DEF PlanRun
<1>3. CASE OutOfBudget
  BY <1>3, <1>u DEF OutOfBudget, Ran
<1>4. CASE StepSucceeds
  BY <1>0, <1>4, SucceedingRan DEF StepSucceeds
<1>5. CASE StepFails
  BY <1>0, <1>5, FailingRan DEF StepFails
<1>6. CASE Recover
  <2>1. CASE phase' = "failed" /\ UNCHANGED stack
    BY <1>6, <1>u, <2>1 DEF Recover, Ran
  <2>2. CASE \E p \in Plans : stack' = Append(stack, Frame(p, cycles')) /\ phase' = "run"
    <3>1. PICK p \in Plans : stack' = Append(stack, Frame(p, cycles'))
      BY <2>2
    <3>2. Frame(p, cycles') \in FrameType
      BY <1>6, PlansAreSequences DEF Frame, FrameType, Recover, LoopShape, LoopTypeOK
    <3>3. Len(stack) \in Nat \ {0} /\ stack \in Seq(FrameType)
      BY <1>0, <1>6, TopFacts DEF Recover, LoopShape, LoopTypeOK
    <3>4. stack'[1] = stack[1]
      BY <3>1, <3>2, <3>3, AppendProperties
    <3> QED
      BY <1>0, <1>6, <1>u, <2>2, <3>4 DEF Recover, Ran
  <2> QED
    BY <1>6, <2>1, <2>2 DEF Recover
<1>7. CASE PlanDone
  <2>1. CASE Len(stack) = 1
    BY <1>0, <1>7, <1>u, <2>1 DEF PlanDone, Ran, InPlan, AtStep, Top
  <2>2. CASE Len(stack) # 1
    <3>1. stack'[1] = stack[1] /\ phase' = "recovered"
      <4>1. 1 \in 1..(Len(stack) - 1)
        BY <1>0, <1>7, <2>2, PopShape DEF PlanDone
      <4> QED
        BY <1>0, <1>7, <2>2, <4>1, PopShape DEF PlanDone
    <3> QED
      BY <1>0, <1>7, <1>u, <3>1 DEF PlanDone, Ran
  <2> QED
    BY <2>1, <2>2
<1>8. CASE SkipServerStep
  <2>1. stack # <<>> /\ stack' = Advanced(stack) /\ Command \in Servers /\ phase' = "run"
    BY <1>0, <1>8 DEF SkipServerStep, ServerIsUp
  <2> SUFFICES ASSUME NEW p \in DOMAIN stack'[1].steps, p < stack'[1].index
               PROVE  stack'[1].steps[p] \in Servers \/ RanWell(p)'
    BY <2>1 DEF Ran
  <2>2. p \in DOMAIN stack[1].steps /\ p \in Nat /\ stack'[1].steps[p] = stack[1].steps[p]
    BY <2>1, AdvancedPlan, BottomFacts
  <2>3. p < stack[1].index \/ (Len(stack) = 1 /\ p = stack[1].index)
    BY <2>1, <2>2, AdvancedPlan, BottomFacts
  <2>4. CASE p < stack[1].index
    BY <1>8, <1>u, <2>1, <2>2, <2>4 DEF Ran, SkipServerStep
  <2>5. CASE Len(stack) = 1 /\ p = stack[1].index
    BY <2>1, <2>2, <2>5, BottomFacts DEF Command
  <2> QED
    BY <2>3, <2>4, <2>5
<1>9. CASE RetrySucceeds
  BY <1>0, <1>r, <1>9, SucceedingRan DEF RetrySucceeds
<1>10. CASE RetryFails
  BY <1>0, <1>r, <1>10, FailingRan DEF RetryFails
<1> QED
  BY <1>1, <1>2, <1>3, <1>4, <1>5, <1>6, <1>7, <1>8, <1>9, <1>10 DEF LoopNext

\* A run that reports success has run every step of its plan to success, server
\* steps a recovery took care of excepted, however deep the recoveries went.
THEOREM SuccessIsEarned == LoopSpec => []SuccessMeansStepsRan
<1>1. LoopInit => Ran
  BY DEF LoopInit, Ran
<1>2. LoopShape /\ Ran => SuccessMeansStepsRan
  <2> SUFFICES ASSUME LoopShape, Ran, phase = "succeeded", NEW p \in DOMAIN stack[1].steps,
                      stack[1].steps[p] \notin Servers
               PROVE  LastRun(p) # 0 /\ Succeeded(executed[LastRun(p)])
    BY DEF SuccessMeansStepsRan
  <2>1. stack # <<>> /\ p < stack[1].index
    BY BottomFacts DEF Ran, AtStep
  <2>2. RanWell(p)
    BY <2>1 DEF Ran
  <2>3. DOMAIN executed = 1..Len(executed) /\ Len(executed) \in Nat
    BY LenProperties DEF LoopShape, LoopTypeOK
  <2> QED
    BY <2>2, <2>3 DEF RanWell
<1> QED
  BY <1>1, <1>2, StepRan, LoopShapeHolds, PTL DEF LoopSpec
=============================================================================
