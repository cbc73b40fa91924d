--------------------------- MODULE CatalogueProofs ---------------------------
(***************************************************************************)
(* Catalogue, for every set of collections, builders and searchers.        *)
(***************************************************************************)
EXTENDS CatalogueGraphs, TLAPS

-----------------------------------------------------------------------------
(* The inductive invariant.                                                *)
(*                                                                         *)
(* A build may remove the generation it has published, and only that one.  *)
(* It published under a key that had none; what LATEST-CATALOGUE or a      *)
(* search names has one.  So what is removed is nobody else's.             *)

Critical == {"locked", "renamed", "published", "removing"}
Active   == Critical \union {"reading", "staged"}

\* The lock is held by whoever is past Lock.
LockInv == \A p \in Builders : build[p].pc \in Critical <=> holder = p

\* What a build has read.
KeyInv ==
  \A p \in Builders : build[p].pc \in Active =>
    /\ Asked(build[p].key) # {} \/ build[p].todo # {}
    /\ build[p].pc # "reading" =>
         build[p].todo = {} /\ Chosen(build[p].key) \in Storable
    /\ Chosen(build[p].key) \subseteq Valid
    /\ Reachable(build[p].key)

\* What it found when it began is no newer than what it reads.
FloorInv ==
  \A p \in Builders : floor[p] # NoKey =>
    /\ Reachable(floor[p])
    /\ build[p].pc \in Active => AtLeast(build[p].key, floor[p])

ShelfInv == /\ \A g, h \in shelf : g.key = h.key => g = h
            /\ LinksResolve

\* What a build has published is there, and nobody else's as long as it may
\* still be removed.
PublishInv ==
  \A p \in Builders :
    /\ build[p].pc \in {"renamed", "published"} => Candidate(p, TRUE) \in shelf
    /\ build[p].pc \in {"renamed", "removing"} =>
         /\ latest # build[p].key
         /\ \A s \in Searchers : search[s].pc \in {"found", "checked"} =>
                                   search[s].key # build[p].key

SearchInv ==
  \A s \in Searchers :
    /\ search[s].pc # "failed"
    /\ search[s].pc \in {"found", "checked"} =>
         \E g \in Shelved(search[s].key) : Intact(g)
    /\ search[s].pc = "checked" =>
         \A g \in Shelved(search[s].key) : g.tree = search[s].tree

IInv == /\ TypeOK /\ LockInv /\ KeyInv /\ FloorInv /\ ShelfInv /\ PublishInv
        /\ LatestIsWhole /\ SearchInv

-----------------------------------------------------------------------------
(* The records of builders and searchers *)

Stages  == {"idle", "ended", "reading", "staged", "locked", "renamed", "published",
            "removing"}
Work    == [pc: Stages, todo: SUBSET Collections, key: Keys, tree: Trees]
Seeking == [pc: {"idle", "found", "checked", "answered", "failed"},
            key: Keys \union {NoKey}, tree: Trees]

LEMMA IdleTyped ==
  /\ Idle \in Work
  /\ AtRest \in Seeking
  /\ Idle.pc = "idle" /\ AtRest.pc = "idle"
  /\ \A c \in Collections : Idle.key[c] = Out
  BY TreesAssumption DEF Idle, AtRest, Work, Seeking, Stages, Keys

LEMMA InitTyped == Init => TypeOK
  BY IdleTyped, MaxReaderAssumption
     DEF Init, TypeOK, Work, Seeking, Stages, Keys

\* The record of one builder changes.
Only(p) == /\ build' \in [Builders -> Work]
           /\ \A q \in Builders : q # p => build'[q] = build[q]

LEMMA OnlyOne ==
  ASSUME TypeOK, NEW p \in Builders, NEW b \in Work, build' = [build EXCEPT ![p] = b]
  PROVE  Only(p) /\ build'[p] = b
  BY DEF TypeOK, Only, Work, Stages

-----------------------------------------------------------------------------
(* What a step does to the fields *)

Moved(p, from, to) ==
  /\ Only(p)
  /\ build[p].pc = from /\ build'[p].pc = to
  /\ build'[p].todo = build[p].todo /\ build'[p].key = build[p].key
  /\ build'[p].tree = build[p].tree

Over(p) ==
  /\ Only(p) /\ build'[p].pc = "ended"
  /\ floor' \in [Builders -> Keys \union {NoKey}] /\ floor'[p] = NoKey
  /\ \A q \in Builders : q # p => floor'[q] = floor[q]
  /\ holder' = IF holder = p THEN Free ELSE holder

Began(p) ==
  /\ Only(p)
  /\ build[p].pc = "idle" /\ build'[p].pc = "reading" /\ build'[p].todo # {}
  /\ Available(build'[p].key) = {} /\ Chosen(build'[p].key) = {}
  /\ floor' \in [Builders -> Keys \union {NoKey}] /\ floor'[p] = latest
  /\ \A q \in Builders : q # p => floor'[q] = floor[q]
  /\ UNCHANGED <<current, storeVars, search>>

HasRead(p, c) ==
  /\ Only(p)
  /\ build[p].pc = "reading" /\ build'[p].pc = "reading"
  /\ build'[p].key[c] \in 0..MaxReader
  /\ build'[p].key[c] # 0 => /\ build'[p].key[c] = current[c]
                             /\ <<c, current[c]>> \in Valid
  /\ \A d \in Collections : d # c => build'[p].key[d] = build[p].key[d]
  /\ UNCHANGED <<current, storeVars, floor, search>>

Staged(p) ==
  /\ Only(p)
  /\ build[p].pc = "reading" /\ build'[p].pc = "staged"
  /\ build'[p].todo = {} /\ build[p].todo = {} /\ build'[p].key = build[p].key
  /\ Chosen(build[p].key) \in Storable
  /\ UNCHANGED <<current, storeVars, floor, search>>

Quits(p) == Over(p) /\ UNCHANGED <<current, shelf, latest, search>>

Locks(p) == /\ Moved(p, "staged", "locked")
            /\ holder = Free /\ holder' = p
            /\ UNCHANGED <<current, shelf, latest, floor, search>>

Reuses(p) == /\ Moved(p, "locked", "published")
             /\ Candidate(p, TRUE) \in shelf
             /\ UNCHANGED <<current, storeVars, floor, search>>

Seals(p) == /\ Moved(p, "renamed", "published")
            /\ UNCHANGED <<current, storeVars, floor, search>>

Publishes(p) == /\ Moved(p, "locked", "renamed")
                /\ \A g \in shelf : g.key # build[p].key
                /\ shelf' = shelf \union {Candidate(p, TRUE)}
                /\ UNCHANGED <<current, latest, holder, floor, search>>

Discards(p) == /\ Moved(p, "renamed", "removing")
               /\ shelf' = Break(build[p].key)
               /\ UNCHANGED <<current, latest, holder, floor, search>>

Removed(p) == /\ Over(p) /\ build[p].pc = "removing"
              /\ shelf' = shelf \ Shelved(build[p].key)
              /\ UNCHANGED <<current, latest, search>>

Names(p) == /\ Over(p) /\ build[p].pc = "published"
            /\ latest' = IF Usable(build[p].key) THEN build[p].key ELSE latest
            /\ UNCHANGED <<current, shelf, search>>

\* The record of one searcher changes.
Sought(s) ==
  /\ search' \in [Searchers -> Seeking]
  /\ \A r \in Searchers : r # s => search'[r] = search[r]
  /\ UNCHANGED <<current, storeVars, build, floor>>
  /\ \/ search'[s].pc \in {"idle", "answered"}
     \/ search'[s].pc = "found" /\ latest # NoKey /\ search'[s].key = latest
     \/ /\ search[s].pc = "found" /\ search'[s].pc = "checked"
        /\ \E g \in shelf : /\ Intact(g) /\ g.key = search[s].key
                            /\ search'[s].key = g.key /\ search'[s].tree = g.tree

LEMMA GoesMoves ==
  ASSUME TypeOK, NEW p \in Builders, NEW from, NEW to \in Stages, Goes(p, from, to)
  PROVE  Moved(p, from, to)
<1>1. build[p] \in Work
  BY DEF TypeOK, Work, Stages
<1> DEFINE b == [build[p] EXCEPT !.pc = to]
<1>2. /\ b \in Work /\ b.pc = to
      /\ b.todo = build[p].todo /\ b.key = build[p].key /\ b.tree = build[p].tree
  BY <1>1 DEF Work
<1>3. build[p].pc = from /\ build' = [build EXCEPT ![p] = b]
  BY <1>1 DEF Goes, TypeOK
<1> HIDE DEF b
<1> QED
  BY <1>2, <1>3, OnlyOne DEF Moved

LEMMA EndsIsOver ==
  ASSUME TypeOK, NEW p \in Builders, Ends(p)
  PROVE  Over(p)
<1> DEFINE b == [Idle EXCEPT !.pc = "ended"]
<1>1. b \in Work /\ b.pc = "ended"
  BY IdleTyped DEF Work, Stages
<1>2. build' = [build EXCEPT ![p] = b]
  BY DEF Ends
<1>3. floor' = [floor EXCEPT ![p] = NoKey] /\ holder' = IF holder = p THEN Free ELSE holder
  BY DEF Ends
<1> HIDE DEF b
<1> QED
  BY <1>1, <1>2, <1>3, OnlyOne DEF TypeOK, Over

LEMMA StartBegins ==
  ASSUME TypeOK, NEW p \in Builders, NEW asked \in SUBSET Collections, Start(p, asked)
  PROVE  Began(p)
<1> DEFINE b == [Idle EXCEPT !.pc = "reading", !.todo = asked]
<1>1. b \in Work /\ b.pc = "reading" /\ b.todo = asked /\ b.key = Idle.key
  BY IdleTyped DEF Work, Stages
<1>2. Available(b.key) = {} /\ Chosen(b.key) = {}
  BY <1>1, IdleTyped DEF Available, Asked, Chosen
<1>3. build' = [build EXCEPT ![p] = b]
  BY DEF Start
<1>4. /\ floor' = [floor EXCEPT ![p] = latest] /\ build[p].pc = "idle" /\ asked # {}
      /\ UNCHANGED <<current, storeVars, search>>
  BY DEF Start
<1> HIDE DEF b
<1> QED
  BY <1>1, <1>2, <1>3, <1>4, OnlyOne DEF TypeOK, Began

LEMMA ReadReads ==
  ASSUME TypeOK, NEW p \in Builders, NEW c \in Collections, Read(p, c)
  PROVE  HasRead(p, c)
<1>1. build[p] \in Work /\ current[c] \in 0..MaxReader
  BY DEF TypeOK, Work, Stages
<1> DEFINE n == IF <<c, current[c]>> \in Readable THEN current[c] ELSE 0
           k == [build[p].key EXCEPT ![c] = n]
           b == [build[p] EXCEPT !.todo = build[p].todo \ {c}, !.key = k]
<1>2. n \in 0..MaxReader
  BY <1>1, MaxReaderAssumption
<1>3. /\ k \in Keys /\ k[c] = n
      /\ \A d \in Collections : d # c => k[d] = build[p].key[d]
  BY <1>1, <1>2 DEF Work, Keys
<1>4. build' = [build EXCEPT ![p] =
                  [build[p] EXCEPT !.todo = build[p].todo \ {c}, !.key = k]]
  BY DEF Read, Reads
<1> HIDE DEF k
<1>5. b \in Work /\ b.pc = build[p].pc /\ b.key = k
  BY <1>1, <1>3 DEF Work
<1>6. n # 0 => n = current[c] /\ <<c, current[c]>> \in Valid
  BY DEF Read
<1>7. /\ build[p].pc = "reading"
      /\ UNCHANGED <<current, storeVars, floor, search>>
  BY DEF Read, Reads
<1>8. build' = [build EXCEPT ![p] = b]
  BY <1>4
<1> HIDE DEF b, n
<1> QED
  BY <1>2, <1>3, <1>5, <1>6, <1>7, <1>8, OnlyOne DEF HasRead

LEMMA StageStages ==
  ASSUME TypeOK, NEW p \in Builders, NEW t \in Trees, Stage(p, t)
  PROVE  Staged(p)
<1>1. build[p] \in Work
  BY DEF TypeOK, Work, Stages
<1> DEFINE b == [build[p] EXCEPT !.pc = "staged", !.tree = t]
<1>2. /\ b \in Work /\ b.pc = "staged" /\ b.todo = build[p].todo /\ b.key = build[p].key
  BY <1>1 DEF Work, Stages
<1>3. /\ build' = [build EXCEPT ![p] = b]
      /\ build[p].pc = "reading" /\ build[p].todo = {} /\ Chosen(build[p].key) \in Storable
      /\ UNCHANGED <<current, storeVars, floor, search>>
  BY <1>1 DEF Stage
<1> HIDE DEF b
<1> QED
  BY <1>2, <1>3, OnlyOne DEF Staged

LEMMA SearchingSeeks ==
  ASSUME TypeOK, NEW s \in Searchers, NEW from, NEW state \in Seeking,
         Searching(s, from, state)
  PROVE  /\ search[s].pc = from /\ search'[s] = state
         /\ \A r \in Searchers : r # s => search'[r] = search[r]
         /\ search' \in [Searchers -> Seeking]
         /\ UNCHANGED <<current, storeVars, build, floor>>
  BY DEF Searching, TypeOK, Seeking

LEMMA BuildsDoes ==
  ASSUME TypeOK, NEW p \in Builders, Builds(p)
  PROVE  \/ Began(p) \/ (\E c \in Collections : HasRead(p, c)) \/ Staged(p)
         \/ Quits(p) \/ Locks(p) \/ Reuses(p) \/ Seals(p) \/ Publishes(p)
         \/ Discards(p) \/ Removed(p) \/ Names(p)
<1>1. ASSUME NEW asked \in SUBSET Collections, Start(p, asked)
      PROVE  Began(p)
  BY <1>1, StartBegins
<1>2. ASSUME NEW c \in Collections, Read(p, c)
      PROVE  HasRead(p, c)
  BY <1>2, ReadReads
<1>3. ASSUME NEW t \in Trees, Stage(p, t)
      PROVE  Staged(p)
  BY <1>3, StageStages
<1>4. \/ \E c \in Collections : ReadFails(p, c)
      \/ StageFails(p) \/ Quarantine(p) \/ BuildFails(p) \/ Kill(p)
      => Quits(p)
  BY EndsIsOver DEF ReadFails, StageFails, Quarantine, BuildFails, Kill, Quits
<1>5. Lock(p) => Locks(p)
  BY GoesMoves DEF Lock, Locks, Stages
<1>6. Reuse(p) => Reuses(p)
  BY GoesMoves DEF Reuse, Reuses, Stages, Agrees, Shelved
<1>7. Seal(p) => Seals(p)
  BY GoesMoves DEF Seal, Seals, Stages
<1>8. Publish(p) => Publishes(p)
  BY GoesMoves DEF Publish, Publishes, Stages, Shelved
<1>9. Discard(p) => Discards(p)
  BY GoesMoves DEF Discard, Discards, Stages
<1>10. Discarded(p) => Removed(p)
  BY EndsIsOver DEF Discarded, Removed
<1>11. Name(p) => Names(p)
  BY EndsIsOver DEF Name, Names
<1> QED
  BY <1>1, <1>2, <1>3, <1>4, <1>5, <1>6, <1>7, <1>8, <1>9, <1>10, <1>11
     DEF Builds, Proceeds

\* A search that has found a catalogue never fails.
LEMMA SearchesSeeks ==
  ASSUME IInv, NEW s \in Searchers, Searches(s)
  PROVE  Sought(s)
<1>1. TypeOK /\ search[s] \in Seeking
  BY DEF IInv, TypeOK, Seeking
<1>2. CASE Look(s)
  <2> DEFINE state == [AtRest EXCEPT !.pc = "found", !.key = latest]
  <2>1. state \in Seeking /\ state.pc = "found" /\ state.key = latest
    BY <1>1, IdleTyped DEF Seeking, TypeOK
  <2>2. latest # NoKey /\ Searching(s, "idle", state)
    BY <1>2 DEF Look
  <2> HIDE DEF state
  <2> QED
    BY <1>1, <2>1, <2>2, SearchingSeeks DEF Sought
<1>3. ASSUME NEW g \in Found(s), NEW to \in {"checked", "answered"}, NEW from,
             Searching(s, from, [pc |-> to, key |-> g.key, tree |-> g.tree]),
             to = "checked" => from = "found"
      PROVE  Sought(s)
  <2> DEFINE state == [pc |-> to, key |-> g.key, tree |-> g.tree]
  <2>1. /\ g \in shelf /\ Intact(g) /\ g.key = search[s].key
        /\ g.key \in Keys /\ g.tree \in Trees
    BY <1>1, <1>3 DEF Found, Shelved, TypeOK
  <2>2. state \in Seeking /\ state.pc = to /\ state.key = g.key /\ state.tree = g.tree
    BY <2>1 DEF Seeking
  <2>3. Searching(s, from, state)
    BY <1>3
  <2> HIDE DEF state
  <2> QED
    BY <1>1, <1>3, <2>1, <2>2, <2>3, SearchingSeeks DEF Sought
<1>4. /\ Found(s) # {} \/ search[s].pc \notin {"found", "checked"}
      /\ Reachable(search[s].key) \/ search[s].pc # "checked"
  BY DEF IInv, SearchInv, ShelfInv, LinksResolve, Found, Shelved
<1>6. CASE Check(s)
  <2>1. PICK g \in Found(s) :
          Searching(s, "found", [pc |-> "checked", key |-> g.key, tree |-> g.tree])
    BY <1>4, <1>6 DEF Check, Outcomes, Searching
  <2> QED
    BY <1>3, <2>1
<1>7. CASE Answer(s)
  <2>1. PICK g \in Found(s) :
          Searching(s, "checked", [pc |-> "answered", key |-> g.key, tree |-> g.tree])
    BY <1>4, <1>7 DEF Answer, Outcomes, Searching
  <2> QED
    BY <1>3, <2>1
<1>5. CASE SearchEnds(s)
  BY <1>1, <1>5, IdleTyped, SearchingSeeks DEF SearchEnds, Sought
<1> QED
  BY <1>2, <1>5, <1>6, <1>7 DEF Searches

LEMMA NextDoes ==
  ASSUME IInv, [Next]_vars
  PROVE  \/ \E c \in Collections : Render(c)
         \/ \E p \in Builders :
              \/ Began(p) \/ (\E c \in Collections : HasRead(p, c)) \/ Staged(p)
              \/ Quits(p) \/ Locks(p) \/ Reuses(p) \/ Seals(p) \/ Publishes(p)
              \/ Discards(p) \/ Removed(p) \/ Names(p)
         \/ \E s \in Searchers : Sought(s)
         \/ UNCHANGED vars
<1>1. TypeOK
  BY DEF IInv
<1> QED
  BY <1>1, BuildsDoes, SearchesSeeks DEF Next

-----------------------------------------------------------------------------
(* Every step keeps the invariant *)

Generations == [key: Keys, tree: Trees, whole: BOOLEAN]

LEMMA CandidateTyped ==
  ASSUME TypeOK, NEW p \in Builders
  PROVE  /\ Candidate(p, TRUE) \in Generations
         /\ Candidate(p, TRUE).key = build[p].key
         /\ Candidate(p, TRUE).tree = build[p].tree
         /\ Candidate(p, TRUE).whole = TRUE
  BY DEF TypeOK, Candidate, Generations

\* What is being removed is broken, the others stay.
LEMMA BreakBreaks ==
  ASSUME TypeOK, NEW key
  PROVE  /\ Break(key) \subseteq Generations
         /\ \A g \in shelf : g.key # key => g \in Break(key)
         /\ \A h \in Break(key) : \E g \in shelf :
              /\ h.key = g.key /\ h.tree = g.tree
              /\ h.key # key => h = g
              /\ h.key = key => h = [key |-> key, tree |-> g.tree, whole |-> FALSE]
<1> DEFINE B(g) == [g EXCEPT !.whole = @ /\ g.key # key]
<1>1. ASSUME NEW g \in shelf
      PROVE  /\ B(g) \in Generations /\ B(g).key = g.key /\ B(g).tree = g.tree
             /\ g.key # key => B(g) = g
             /\ g.key = key => B(g) = [key |-> key, tree |-> g.tree, whole |-> FALSE]
  <2>1. g \in Generations
    BY DEF TypeOK, Generations
  <2>2. PICK t \in BOOLEAN : t = (g.whole /\ g.key # key)
    BY <2>1 DEF Generations
  <2>3. B(g) = [g EXCEPT !.whole = t]
    BY <2>2
  <2> HIDE DEF B
  <2>4. /\ B(g) \in Generations /\ B(g).key = g.key /\ B(g).tree = g.tree
        /\ B(g).whole = t
    BY <2>1, <2>3 DEF Generations
  <2>5. g.key # key => t = g.whole
    BY <2>1, <2>2 DEF Generations
  <2>6. g.key # key => B(g) = g
    BY <2>1, <2>4, <2>5 DEF Generations
  <2>7. g.key = key => t = FALSE
    BY <2>2
  <2>8. g.key = key => B(g) = [key |-> key, tree |-> g.tree, whole |-> FALSE]
    BY <2>4, <2>7 DEF Generations
  <2> QED
    BY <2>4, <2>6, <2>8
<1>2. Break(key) = {B(g) : g \in shelf}
  BY DEF Break
<1> HIDE DEF B
<1> QED
  BY <1>1, <1>2

\* Nobody else is past Lock.
LEMMA Alone ==
  ASSUME IInv, NEW p \in Builders, build[p].pc \in Critical
  PROVE  holder = p /\ \A q \in Builders : q # p => build[q].pc \notin Critical
  BY DEF IInv, LockInv

\* What was reachable stays so.
LEMMA StaysReachable ==
  ASSUME IInv, [Next]_vars, NEW key \in Keys, Reachable(key)
  PROVE  \A c \in Available(key) : key[c] <= current'[c]
<1>1. \A c \in Collections : current[c] \in Nat /\ current'[c] \in Nat
                             /\ current[c] <= current'[c]
  <2>1. \A c \in Collections : current[c] \in Nat
    BY MaxReaderAssumption DEF IInv, TypeOK
  <2>2. (\E c \in Collections : Render(c)) \/ current' = current
    BY NextDoes DEF Began, HasRead, Staged, Quits, Locks, Reuses, Seals, Publishes,
                    Discards, Removed, Names, Sought, vars
  <2> QED
    BY <2>1, <2>2 DEF Render, IInv, TypeOK
<1>2. \A c \in Available(key) : c \in Collections /\ key[c] \in Nat
  BY MaxReaderAssumption DEF Available, Asked, Keys
<1> QED
  BY <1>1, <1>2 DEF Reachable

LEMMA TypeStep ==
  ASSUME IInv, [Next]_vars
  PROVE  TypeOK'
<1> USE DEF IInv, Only, storeVars, TypeOK, Work, Stages, Seeking
<1>1. ASSUME NEW c \in Collections, Render(c)
      PROVE  TypeOK'
  BY <1>1, MaxReaderAssumption DEF Render
<1>2. ASSUME NEW p \in Builders, Began(p)
      PROVE  TypeOK'
  BY <1>2 DEF Began
<1>3. ASSUME NEW p \in Builders, NEW c \in Collections, HasRead(p, c)
      PROVE  TypeOK'
  BY <1>3 DEF HasRead
<1>4. ASSUME NEW p \in Builders, Staged(p)
      PROVE  TypeOK'
  BY <1>4 DEF Staged
<1>5. ASSUME NEW p \in Builders, Quits(p)
      PROVE  TypeOK'
  BY <1>5 DEF Quits, Over
<1>6. ASSUME NEW p \in Builders, Locks(p)
      PROVE  TypeOK'
  BY <1>6 DEF Locks, Moved
<1>7. ASSUME NEW p \in Builders, Reuses(p)
      PROVE  TypeOK'
  BY <1>7 DEF Reuses, Moved
<1>8. ASSUME NEW p \in Builders, Seals(p)
      PROVE  TypeOK'
  BY <1>8 DEF Seals, Moved
<1>9. ASSUME NEW p \in Builders, Publishes(p)
      PROVE  TypeOK'
  BY <1>9, CandidateTyped DEF Publishes, Moved, Generations
<1>10. ASSUME NEW p \in Builders, Discards(p)
      PROVE  TypeOK'
  BY <1>10, BreakBreaks DEF Discards, Moved, Generations
<1>11. ASSUME NEW p \in Builders, Removed(p)
      PROVE  TypeOK'
  BY <1>11 DEF Removed, Over
<1>12. ASSUME NEW p \in Builders, Names(p)
      PROVE  TypeOK'
  BY <1>12 DEF Names, Over
<1>13. ASSUME NEW s \in Searchers, Sought(s)
      PROVE  TypeOK'
  BY <1>13 DEF Sought
<1>14. CASE UNCHANGED vars
  BY <1>14 DEF vars
<1> QED
  BY NextDoes, <1>1, <1>2, <1>3, <1>4, <1>5, <1>6, <1>7,
     <1>8, <1>9, <1>10, <1>11, <1>12, <1>13, <1>14

LEMMA LockStep ==
  ASSUME IInv, [Next]_vars
  PROVE  LockInv'
<1> USE DEF IInv, Only, storeVars, LockInv, Critical
<1>1. ASSUME NEW c \in Collections, Render(c)
      PROVE  LockInv'
  BY <1>1 DEF Render
<1>2. ASSUME NEW p \in Builders, Began(p)
      PROVE  LockInv'
  BY <1>2 DEF Began
<1>3. ASSUME NEW p \in Builders, NEW c \in Collections, HasRead(p, c)
      PROVE  LockInv'
  BY <1>3 DEF HasRead
<1>4. ASSUME NEW p \in Builders, Staged(p)
      PROVE  LockInv'
  BY <1>4 DEF Staged
<1>5. ASSUME NEW p \in Builders, Quits(p)
      PROVE  LockInv'
  BY <1>5, NamesAssumption DEF Quits, Over
<1>6. ASSUME NEW p \in Builders, Locks(p)
      PROVE  LockInv'
  BY <1>6, NamesAssumption DEF Locks, Moved
<1>7. ASSUME NEW p \in Builders, Reuses(p)
      PROVE  LockInv'
  BY <1>7 DEF Reuses, Moved
<1>8. ASSUME NEW p \in Builders, Seals(p)
      PROVE  LockInv'
  BY <1>8 DEF Seals, Moved
<1>9. ASSUME NEW p \in Builders, Publishes(p)
      PROVE  LockInv'
  BY <1>9 DEF Publishes, Moved
<1>10. ASSUME NEW p \in Builders, Discards(p)
      PROVE  LockInv'
  BY <1>10 DEF Discards, Moved
<1>11. ASSUME NEW p \in Builders, Removed(p)
      PROVE  LockInv'
  BY <1>11, NamesAssumption DEF Removed, Over
<1>12. ASSUME NEW p \in Builders, Names(p)
      PROVE  LockInv'
  BY <1>12, NamesAssumption DEF Names, Over
<1>13. ASSUME NEW s \in Searchers, Sought(s)
      PROVE  LockInv'
  BY <1>13 DEF Sought
<1>14. CASE UNCHANGED vars
  BY <1>14 DEF vars
<1> QED
  BY NextDoes, <1>1, <1>2, <1>3, <1>4, <1>5, <1>6, <1>7,
     <1>8, <1>9, <1>10, <1>11, <1>12, <1>13, <1>14

LEMMA KeyStep ==
  ASSUME IInv, [Next]_vars
  PROVE  KeyInv'
<1> USE DEF IInv, Only, storeVars, KeyInv, Active, Critical, Reachable
<1>1. ASSUME NEW c \in Collections, Render(c)
      PROVE  KeyInv'
  <2>1. \A p \in Builders : build[p].key \in Keys
    BY DEF TypeOK
  <2> QED
    BY <1>1, <2>1, StaysReachable DEF Render
<1>2. ASSUME NEW p \in Builders, Began(p)
      PROVE  KeyInv'
  BY <1>2 DEF Began
<1>3. ASSUME NEW p \in Builders, NEW c \in Collections, HasRead(p, c)
      PROVE  KeyInv'
  <2>1. Reachable(build[p].key)
    BY <1>3 DEF HasRead
  <2>2. build'[p].key[c] # Out
    BY <1>3, MaxReaderAssumption, NamesAssumption DEF HasRead
  <2>3. Asked(build'[p].key) # {}
    BY <2>2 DEF Asked
  <2>4. \A d \in Available(build'[p].key) :
          /\ d = c => build'[p].key[d] = current[c] /\ <<d, build'[p].key[d]>> \in Valid
          /\ d # c => d \in Available(build[p].key) /\ build'[p].key[d] = build[p].key[d]
    BY <1>3, <2>2 DEF HasRead, Available, Asked
  <2>5. current[c] <= current[c]
    BY MaxReaderAssumption DEF TypeOK
  <2>6. Chosen(build'[p].key) \subseteq Valid
    BY <1>3, <2>4 DEF HasRead, Chosen
  <2>7. ASSUME NEW d \in Available(build'[p].key)
        PROVE  build'[p].key[d] <= current[d]
    <3>1. CASE d = c
      <4>1. build'[p].key[d] = current[c]
        BY <2>4, <3>1
      <4> QED
        BY <2>5, <3>1, <4>1
    <3>2. CASE d # c
      BY <2>1, <2>4, <3>2
    <3> QED
      BY <3>1, <3>2
  <2> QED
    BY <1>3, <2>3, <2>6, <2>7 DEF HasRead
<1>4. ASSUME NEW p \in Builders, Staged(p)
      PROVE  KeyInv'
  BY <1>4 DEF Staged
<1>5. ASSUME NEW p \in Builders, Quits(p)
      PROVE  KeyInv'
  BY <1>5 DEF Quits, Over
<1>6. ASSUME NEW p \in Builders, Locks(p)
      PROVE  KeyInv'
  BY <1>6 DEF Locks, Moved
<1>7. ASSUME NEW p \in Builders, Reuses(p)
      PROVE  KeyInv'
  BY <1>7 DEF Reuses, Moved
<1>8. ASSUME NEW p \in Builders, Seals(p)
      PROVE  KeyInv'
  BY <1>8 DEF Seals, Moved
<1>9. ASSUME NEW p \in Builders, Publishes(p)
      PROVE  KeyInv'
  BY <1>9 DEF Publishes, Moved
<1>10. ASSUME NEW p \in Builders, Discards(p)
      PROVE  KeyInv'
  BY <1>10 DEF Discards, Moved
<1>11. ASSUME NEW p \in Builders, Removed(p)
      PROVE  KeyInv'
  BY <1>11 DEF Removed, Over
<1>12. ASSUME NEW p \in Builders, Names(p)
      PROVE  KeyInv'
  BY <1>12 DEF Names, Over
<1>13. ASSUME NEW s \in Searchers, Sought(s)
      PROVE  KeyInv'
  BY <1>13 DEF Sought
<1>14. CASE UNCHANGED vars
  BY <1>14 DEF vars
<1> QED
  BY NextDoes, <1>1, <1>2, <1>3, <1>4, <1>5, <1>6, <1>7,
     <1>8, <1>9, <1>10, <1>11, <1>12, <1>13, <1>14

LEMMA FloorStep ==
  ASSUME IInv, [Next]_vars
  PROVE  FloorInv'
<1> USE DEF IInv, Only, storeVars, FloorInv, Active, Critical, Reachable, AtLeast
<1>1. ASSUME NEW c \in Collections, Render(c)
      PROVE  FloorInv'
  <2>1. \A p \in Builders : floor[p] \in Keys \union {NoKey}
    BY DEF TypeOK
  <2> QED
    BY <1>1, <2>1, StaysReachable DEF Render
<1>2. ASSUME NEW p \in Builders, Began(p)
      PROVE  FloorInv'
  <2>1. latest # NoKey => Reachable(latest)
    BY DEF LatestIsWhole, ShelfInv, LinksResolve, Shelved
  <2> QED
    BY <1>2, <2>1 DEF Began
<1>3. ASSUME NEW p \in Builders, NEW c \in Collections, HasRead(p, c)
      PROVE  FloorInv'
  <2>1. \A d \in Available(build'[p].key) :
          /\ d = c => build'[p].key[d] = current[d]
          /\ d # c => d \in Available(build[p].key) /\ build'[p].key[d] = build[p].key[d]
    BY <1>3 DEF HasRead, Available, Asked
  <2>2. \A d \in Collections : current[d] \in Nat
    BY MaxReaderAssumption DEF TypeOK
  <2>3. floor[p] # NoKey => \A d \in Available(floor[p]) : floor[p][d] \in Nat
    BY MaxReaderAssumption DEF TypeOK, Available, Asked, Keys
  <2>4. floor[p] # NoKey => AtLeast(build'[p].key, floor[p])
    BY <1>3, <2>1, <2>2, <2>3 DEF HasRead
  <2> QED
    BY <1>3, <2>4 DEF HasRead
<1>4. ASSUME NEW p \in Builders, Staged(p)
      PROVE  FloorInv'
  BY <1>4 DEF Staged
<1>5. ASSUME NEW p \in Builders, Quits(p)
      PROVE  FloorInv'
  BY <1>5 DEF Quits, Over
<1>6. ASSUME NEW p \in Builders, Locks(p)
      PROVE  FloorInv'
  BY <1>6 DEF Locks, Moved
<1>7. ASSUME NEW p \in Builders, Reuses(p)
      PROVE  FloorInv'
  BY <1>7 DEF Reuses, Moved
<1>8. ASSUME NEW p \in Builders, Seals(p)
      PROVE  FloorInv'
  BY <1>8 DEF Seals, Moved
<1>9. ASSUME NEW p \in Builders, Publishes(p)
      PROVE  FloorInv'
  BY <1>9 DEF Publishes, Moved
<1>10. ASSUME NEW p \in Builders, Discards(p)
      PROVE  FloorInv'
  BY <1>10 DEF Discards, Moved
<1>11. ASSUME NEW p \in Builders, Removed(p)
      PROVE  FloorInv'
  BY <1>11 DEF Removed, Over
<1>12. ASSUME NEW p \in Builders, Names(p)
      PROVE  FloorInv'
  BY <1>12 DEF Names, Over
<1>13. ASSUME NEW s \in Searchers, Sought(s)
      PROVE  FloorInv'
  BY <1>13 DEF Sought
<1>14. CASE UNCHANGED vars
  BY <1>14 DEF vars
<1> QED
  BY NextDoes, <1>1, <1>2, <1>3, <1>4, <1>5, <1>6, <1>7,
     <1>8, <1>9, <1>10, <1>11, <1>12, <1>13, <1>14

LEMMA ShelfStep ==
  ASSUME IInv, [Next]_vars
  PROVE  ShelfInv'
<1> USE DEF IInv, Only, storeVars, ShelfInv, LinksResolve, Reachable
<1>1. ASSUME NEW c \in Collections, Render(c)
      PROVE  ShelfInv'
  <2>1. \A g \in shelf : g.key \in Keys
    BY DEF TypeOK
  <2> QED
    BY <1>1, <2>1, StaysReachable DEF Render
<1>2. ASSUME NEW p \in Builders, Began(p)
      PROVE  ShelfInv'
  BY <1>2 DEF Began
<1>3. ASSUME NEW p \in Builders, NEW c \in Collections, HasRead(p, c)
      PROVE  ShelfInv'
  BY <1>3 DEF HasRead
<1>4. ASSUME NEW p \in Builders, Staged(p)
      PROVE  ShelfInv'
  BY <1>4 DEF Staged
<1>5. ASSUME NEW p \in Builders, Quits(p)
      PROVE  ShelfInv'
  BY <1>5 DEF Quits, Over
<1>6. ASSUME NEW p \in Builders, Locks(p)
      PROVE  ShelfInv'
  BY <1>6 DEF Locks, Moved
<1>7. ASSUME NEW p \in Builders, Reuses(p)
      PROVE  ShelfInv'
  BY <1>7 DEF Reuses, Moved
<1>8. ASSUME NEW p \in Builders, Seals(p)
      PROVE  ShelfInv'
  BY <1>8 DEF Seals, Moved
<1>9. ASSUME NEW p \in Builders, Publishes(p)
      PROVE  ShelfInv'
  <2>1. /\ Chosen(build[p].key) \in Storable /\ Chosen(build[p].key) \subseteq Valid
        /\ Reachable(build[p].key)
    BY <1>9 DEF Publishes, Moved, KeyInv, Active, Critical
  <2>2. \A g \in shelf' : g \in shelf \/ g = Candidate(p, TRUE)
    BY <1>9 DEF Publishes
  <2>3. \A g, h \in shelf' : g.key = h.key => g = h
    BY <1>9, <2>2, CandidateTyped DEF Publishes
  <2>4. ASSUME NEW g \in shelf'
        PROVE  /\ Chosen(g.key) \in Storable /\ Chosen(g.key) \subseteq Valid
               /\ Reachable(g.key)
    <3>1. CASE g \in shelf
      BY <3>1
    <3>2. CASE g.key = build[p].key
      BY <3>2, <2>1
    <3> QED
      BY <3>1, <3>2, <2>2, CandidateTyped
  <2> QED
    BY <1>9, <2>3, <2>4 DEF Publishes
<1>10. ASSUME NEW p \in Builders, Discards(p)
      PROVE  ShelfInv'
  <2>1. \A h \in shelf' : \E g \in shelf : g.key = h.key
    BY <1>10, BreakBreaks DEF Discards
  <2>2. ASSUME NEW g \in shelf', NEW h \in shelf', g.key = h.key
        PROVE  g = h
    <3>1. shelf' = Break(build[p].key)
      BY <1>10 DEF Discards
    <3>2. PICK m \in shelf, n \in shelf :
            /\ g.key = m.key /\ h.key = n.key
            /\ g.key # build[p].key => g = m /\ h = n
            /\ g.key = build[p].key =>
                 /\ g = [key |-> build[p].key, tree |-> m.tree, whole |-> FALSE]
                 /\ h = [key |-> build[p].key, tree |-> n.tree, whole |-> FALSE]
      BY <2>2, <3>1, BreakBreaks
    <3>3. m = n
      BY <2>2, <3>2
    <3> QED
      BY <3>2, <3>3
  <2> QED
    BY <1>10, <2>1, <2>2 DEF Discards
<1>11. ASSUME NEW p \in Builders, Removed(p)
      PROVE  ShelfInv'
  BY <1>11 DEF Removed, Over, Shelved
<1>12. ASSUME NEW p \in Builders, Names(p)
      PROVE  ShelfInv'
  BY <1>12 DEF Names, Over
<1>13. ASSUME NEW s \in Searchers, Sought(s)
      PROVE  ShelfInv'
  BY <1>13 DEF Sought
<1>14. CASE UNCHANGED vars
  BY <1>14 DEF vars
<1> QED
  BY NextDoes, <1>1, <1>2, <1>3, <1>4, <1>5, <1>6, <1>7,
     <1>8, <1>9, <1>10, <1>11, <1>12, <1>13, <1>14

LEMMA PublishStep ==
  ASSUME IInv, [Next]_vars
  PROVE  PublishInv'
<1> USE DEF IInv, Only, storeVars, PublishInv
<1>1. ASSUME NEW c \in Collections, Render(c)
      PROVE  PublishInv'
  BY <1>1 DEF Render, Candidate
<1>2. ASSUME NEW p \in Builders, Began(p)
      PROVE  PublishInv'
  BY <1>2 DEF Began, Candidate
<1>3. ASSUME NEW p \in Builders, NEW c \in Collections, HasRead(p, c)
      PROVE  PublishInv'
  BY <1>3 DEF HasRead, Candidate
<1>4. ASSUME NEW p \in Builders, Staged(p)
      PROVE  PublishInv'
  BY <1>4 DEF Staged, Candidate
<1>5. ASSUME NEW p \in Builders, Quits(p)
      PROVE  PublishInv'
  BY <1>5 DEF Quits, Over, Candidate
<1>6. ASSUME NEW p \in Builders, Locks(p)
      PROVE  PublishInv'
  BY <1>6 DEF Locks, Moved, Candidate
<1>7. ASSUME NEW p \in Builders, Reuses(p)
      PROVE  PublishInv'
  <2>1. Candidate(p, TRUE)' = Candidate(p, TRUE)
    BY <1>7 DEF Reuses, Moved, Candidate
  <2>2. \A q \in Builders : q # p => Candidate(q, TRUE)' = Candidate(q, TRUE)
    BY <1>7 DEF Reuses, Moved, Candidate
  <2>3. \A q \in Builders : q # p => build[q].pc \notin Critical
    BY <1>7, Alone DEF Reuses, Moved, Critical
  <2> QED
    BY <1>7, <2>1, <2>3 DEF Reuses, Moved, Critical
<1>8. ASSUME NEW p \in Builders, Seals(p)
      PROVE  PublishInv'
  BY <1>8 DEF Seals, Moved, Candidate
<1>9. ASSUME NEW p \in Builders, Publishes(p)
      PROVE  PublishInv'
  <2>1. Candidate(p, TRUE)' = Candidate(p, TRUE)
    BY <1>9 DEF Publishes, Moved, Candidate
  <2>2. \A q \in Builders : q # p => Candidate(q, TRUE)' = Candidate(q, TRUE)
    BY <1>9 DEF Publishes, Moved, Candidate
  <2>3. \A q \in Builders : q # p => build[q].pc \notin Critical
    BY <1>9, Alone DEF Publishes, Moved, Critical
  <2>4. latest # build[p].key
    <3>1. latest # NoKey => \E g \in shelf : g.key = latest
      BY DEF LatestIsWhole, Shelved
    <3>2. build[p].key # NoKey
      BY NamesAssumption DEF TypeOK
    <3> QED
      BY <1>9, <3>1, <3>2 DEF Publishes
  <2>5. \A s \in Searchers : search[s].pc \in {"found", "checked"} =>
                               search[s].key # build[p].key
    BY <1>9 DEF Publishes, SearchInv, Shelved
  <2> QED
    BY <1>9, <2>1, <2>3, <2>4, <2>5 DEF Publishes, Moved, Critical
<1>10. ASSUME NEW p \in Builders, Discards(p)
      PROVE  PublishInv'
  <2>1. \A q \in Builders : q # p => build'[q].pc \notin Critical
    BY <1>10, Alone DEF Discards, Moved, Critical
  <2> QED
    BY <1>10, <2>1 DEF Discards, Moved, Critical
<1>11. ASSUME NEW p \in Builders, Removed(p)
      PROVE  PublishInv'
  <2>1. \A q \in Builders : q # p => build'[q].pc \notin Critical
    BY <1>11, Alone DEF Removed, Over, Critical
  <2> QED
    BY <1>11, <2>1 DEF Removed, Over, Critical
<1>12. ASSUME NEW p \in Builders, Names(p)
      PROVE  PublishInv'
  <2>1. \A q \in Builders : q # p => build'[q].pc \notin Critical
    BY <1>12, Alone DEF Names, Over, Critical
  <2> QED
    BY <1>12, <2>1 DEF Names, Over, Critical
<1>13. ASSUME NEW s \in Searchers, Sought(s)
      PROVE  PublishInv'
  <2>1. \A p \in Builders : Candidate(p, TRUE)' = Candidate(p, TRUE)
    BY <1>13 DEF Sought, Candidate
  <2>2. \A r \in Searchers : search'[r].pc \in {"found", "checked"} =>
          \/ search'[r].key = latest
          \/ search[r].pc \in {"found", "checked"} /\ search'[r].key = search[r].key
    BY <1>13 DEF Sought
  <2>3. UNCHANGED <<shelf, latest, build>>
    BY <1>13 DEF Sought
  <2> QED
    BY <2>1, <2>2, <2>3
<1>14. CASE UNCHANGED vars
  BY <1>14 DEF vars, Candidate
<1> QED
  BY NextDoes, <1>1, <1>2, <1>3, <1>4, <1>5, <1>6, <1>7,
     <1>8, <1>9, <1>10, <1>11, <1>12, <1>13, <1>14

LEMMA LatestStep ==
  ASSUME IInv, [Next]_vars
  PROVE  LatestIsWhole'
<1> USE DEF IInv, Only, storeVars, LatestIsWhole, Shelved, Intact
<1>1. ASSUME NEW c \in Collections, Render(c)
      PROVE  LatestIsWhole'
  BY <1>1 DEF Render
<1>2. ASSUME NEW p \in Builders, Began(p)
      PROVE  LatestIsWhole'
  BY <1>2 DEF Began
<1>3. ASSUME NEW p \in Builders, NEW c \in Collections, HasRead(p, c)
      PROVE  LatestIsWhole'
  BY <1>3 DEF HasRead
<1>4. ASSUME NEW p \in Builders, Staged(p)
      PROVE  LatestIsWhole'
  BY <1>4 DEF Staged
<1>5. ASSUME NEW p \in Builders, Quits(p)
      PROVE  LatestIsWhole'
  BY <1>5 DEF Quits, Over
<1>6. ASSUME NEW p \in Builders, Locks(p)
      PROVE  LatestIsWhole'
  BY <1>6 DEF Locks, Moved
<1>7. ASSUME NEW p \in Builders, Reuses(p)
      PROVE  LatestIsWhole'
  BY <1>7 DEF Reuses, Moved
<1>8. ASSUME NEW p \in Builders, Seals(p)
      PROVE  LatestIsWhole'
  BY <1>8 DEF Seals, Moved
<1>9. ASSUME NEW p \in Builders, Publishes(p)
      PROVE  LatestIsWhole'
  BY <1>9 DEF Publishes, Moved
<1>10. ASSUME NEW p \in Builders, Discards(p)
      PROVE  LatestIsWhole'
  <2>1. latest # build[p].key
    BY <1>10 DEF Discards, Moved, PublishInv
  <2> QED
    BY <1>10, <2>1, BreakBreaks DEF Discards
<1>11. ASSUME NEW p \in Builders, Removed(p)
      PROVE  LatestIsWhole'
  <2>1. latest # build[p].key
    BY <1>11 DEF Removed, PublishInv
  <2> QED
    BY <1>11, <2>1 DEF Removed
<1>12. ASSUME NEW p \in Builders, Names(p)
      PROVE  LatestIsWhole'
  <2>1. Candidate(p, TRUE) \in shelf
    BY <1>12 DEF Names, PublishInv
  <2>2. Usable(build[p].key) => Available(build[p].key) # {}
    BY <1>12 DEF Names, KeyInv, Active, Critical, Usable, Status
  <2> QED
    BY <1>12, <2>1, <2>2, CandidateTyped DEF Names
<1>13. ASSUME NEW s \in Searchers, Sought(s)
      PROVE  LatestIsWhole'
  BY <1>13 DEF Sought
<1>14. CASE UNCHANGED vars
  BY <1>14 DEF vars
<1> QED
  BY NextDoes, <1>1, <1>2, <1>3, <1>4, <1>5, <1>6, <1>7,
     <1>8, <1>9, <1>10, <1>11, <1>12, <1>13, <1>14

LEMMA SearchStep ==
  ASSUME IInv, [Next]_vars
  PROVE  SearchInv'
<1> USE DEF IInv, Only, storeVars, SearchInv, Shelved, Intact
<1>1. ASSUME NEW c \in Collections, Render(c)
      PROVE  SearchInv'
  BY <1>1 DEF Render
<1>2. ASSUME NEW p \in Builders, Began(p)
      PROVE  SearchInv'
  BY <1>2 DEF Began
<1>3. ASSUME NEW p \in Builders, NEW c \in Collections, HasRead(p, c)
      PROVE  SearchInv'
  BY <1>3 DEF HasRead
<1>4. ASSUME NEW p \in Builders, Staged(p)
      PROVE  SearchInv'
  BY <1>4 DEF Staged
<1>5. ASSUME NEW p \in Builders, Quits(p)
      PROVE  SearchInv'
  BY <1>5 DEF Quits, Over
<1>6. ASSUME NEW p \in Builders, Locks(p)
      PROVE  SearchInv'
  BY <1>6 DEF Locks, Moved
<1>7. ASSUME NEW p \in Builders, Reuses(p)
      PROVE  SearchInv'
  BY <1>7 DEF Reuses, Moved
<1>8. ASSUME NEW p \in Builders, Seals(p)
      PROVE  SearchInv'
  BY <1>8 DEF Seals, Moved
<1>9. ASSUME NEW p \in Builders, Publishes(p)
      PROVE  SearchInv'
  <2>1. \A s \in Searchers : search[s].pc \in {"found", "checked"} =>
                               search[s].key # build[p].key
    BY <1>9 DEF Publishes
  <2>2. \A g \in shelf' : g.key # build[p].key => g \in shelf
    BY <1>9, CandidateTyped DEF Publishes
  <2>3. shelf \subseteq shelf' /\ search' = search
    BY <1>9 DEF Publishes
  <2> QED
    BY <2>1, <2>2, <2>3
<1>10. ASSUME NEW p \in Builders, Discards(p)
      PROVE  SearchInv'
  <2>1. \A s \in Searchers : search[s].pc \in {"found", "checked"} =>
                               search[s].key # build[p].key
    BY <1>10 DEF Discards, Moved, PublishInv
  <2> QED
    BY <1>10, <2>1, BreakBreaks DEF Discards
<1>11. ASSUME NEW p \in Builders, Removed(p)
      PROVE  SearchInv'
  <2>1. \A s \in Searchers : search[s].pc \in {"found", "checked"} =>
                               search[s].key # build[p].key
    BY <1>11 DEF Removed, PublishInv
  <2> QED
    BY <1>11, <2>1 DEF Removed
<1>12. ASSUME NEW p \in Builders, Names(p)
      PROVE  SearchInv'
  BY <1>12 DEF Names, Over
<1>13. ASSUME NEW s \in Searchers, Sought(s)
      PROVE  SearchInv'
  <2>1. ASSUME search'[s].pc = "found"
        PROVE  \E g \in shelf : g.key = search'[s].key /\ Intact(g)
    BY <1>13, <2>1 DEF Sought, LatestIsWhole
  <2>2. ASSUME search'[s].pc = "checked"
        PROVE  \E g \in shelf : /\ Intact(g) /\ g.key = search'[s].key
                                /\ g.tree = search'[s].tree
    BY <1>13, <2>2 DEF Sought
  <2>3. \A g, h \in shelf : g.key = h.key => g = h
    BY DEF ShelfInv
  <2>4. search'[s].pc # "failed" /\ shelf' = shelf
    BY <1>13 DEF Sought
  <2> QED
    BY <1>13, <2>1, <2>2, <2>3, <2>4 DEF Sought
<1>14. CASE UNCHANGED vars
  BY <1>14 DEF vars
<1> QED
  BY NextDoes, <1>1, <1>2, <1>3, <1>4, <1>5, <1>6, <1>7,
     <1>8, <1>9, <1>10, <1>11, <1>12, <1>13, <1>14

LEMMA InitHolds == Init => IInv
<1> SUFFICES ASSUME Init
             PROVE  IInv
  OBVIOUS
<1>1. \A p \in Builders : build[p] = Idle /\ floor[p] = NoKey
  BY DEF Init
<1>2. \A s \in Searchers : search[s] = AtRest
  BY DEF Init
<1>3. LockInv /\ KeyInv /\ FloorInv /\ PublishInv
  BY <1>1, IdleTyped, NamesAssumption
     DEF Init, LockInv, KeyInv, FloorInv, PublishInv, Active, Critical
<1>4. ShelfInv /\ LatestIsWhole /\ SearchInv
  BY <1>2, IdleTyped DEF Init, ShelfInv, LinksResolve, LatestIsWhole, SearchInv
<1> QED
  BY <1>3, <1>4, InitTyped DEF IInv

\* The lock, the store, the builds and the searches fit together at all times.
THEOREM Inductive == Spec => []IInv
<1>1. IInv /\ [Next]_vars => IInv'
  <2> SUFFICES ASSUME IInv, [Next]_vars
               PROVE  IInv'
    OBVIOUS
  <2>1. TypeOK' /\ LockInv' /\ KeyInv' /\ FloorInv'
    BY TypeStep, LockStep, KeyStep, FloorStep
  <2>2. ShelfInv' /\ PublishInv' /\ LatestIsWhole' /\ SearchInv'
    BY ShelfStep, PublishStep, LatestStep, SearchStep
  <2> QED
    BY <2>1, <2>2 DEF IInv
<1> QED
  BY <1>1, InitHolds, PTL DEF Spec

-----------------------------------------------------------------------------
(* The properties *)

\* LATEST-CATALOGUE names a generation that is there and whole
\* (_publish_catalogue, write_atomic of the pointer).
THEOREM LatestStaysWhole == Spec => []LatestIsWhole
<1>1. IInv => LatestIsWhole
  BY DEF IInv
<1> QED
  BY Inductive, <1>1, PTL

\* A search that holds no lock loses nothing it has found (search_catalogue).
THEOREM SearchesAreAnswered == Spec => []SearchIsAnswered
<1>1. IInv => SearchIsAnswered
  BY DEF IInv, SearchInv, SearchIsAnswered
<1> QED
  BY Inductive, <1>1, PTL

\* What is on the shelf is made of valid readers, which stay where the links
\* lead (_load_reader_input, _publish_catalogue).
THEOREM LinksAlwaysResolve == Spec => []LinksResolve
<1>1. IInv => LinksResolve
  BY DEF IInv, ShelfInv
<1> QED
  BY Inductive, <1>1, PTL

\* A key stands for one tree, for builds and searches alike
\* (_publish_catalogue's reuse of a generation).
THEOREM KeysStandForTrees == Spec => []OneTreePerKey
<1>1. IInv => OneTreePerKey
  BY DEF IInv, ShelfInv, PublishInv, SearchInv, OneTreePerKey
<1> QED
  BY Inductive, <1>1, PTL

\* No build puts an older reader in the place of what it found
\* (build_catalogue reads the readers before it takes the lock).
THEOREM CataloguesAdvance == Spec => NeverOlder
<1>1. IInv /\ [Next]_vars =>
        [\A p \in Builders :
           holder = p /\ latest' # latest => AtLeast(latest', floor[p])]_vars
  <2> SUFFICES ASSUME IInv, [Next]_vars, NEW p \in Builders, holder = p, latest' # latest
               PROVE  AtLeast(latest', floor[p])
    OBVIOUS
  <2>1. PICK q \in Builders : Names(q)
    BY NextDoes DEF Render, Began, HasRead, Staged, Quits, Locks, Reuses, Seals,
                    Publishes, Discards, Removed, Sought, vars, storeVars
  <2>2. q = p /\ latest' = build[p].key
    BY <2>1 DEF Names, IInv, LockInv, Critical
  <2>3. build[p].pc \in Active
    BY <2>1, <2>2 DEF Names, Active, Critical
  <2>4. floor[p] # NoKey => AtLeast(build[p].key, floor[p])
    BY <2>3 DEF IInv, FloorInv
  <2> QED
    BY <2>2, <2>4 DEF AtLeast
<1> QED
  BY Inductive, <1>1, PTL DEF Spec, NeverOlder

-----------------------------------------------------------------------------
(* What the database takes.                                                *)
(*                                                                         *)
(* reader_model.py registers every identifier of a graph once, of whatever *)
(* kind; so the keys and unique columns of the tables, which are of one    *)
(* kind each, or of two, can only meet across graphs.                      *)

Kinds == {"collection", "artifacts", "items", "representations", "segments"}

LEMMA JoinedAt ==
  ASSUME NEW fs
  PROVE  /\ \A k \in DOMAIN fs : \A n \in DOMAIN fs[k] :
              <<k, n>> \in DOMAIN Joined(fs) /\ Joined(fs)[<<k, n>>] = fs[k][n]
         /\ \A q \in DOMAIN Joined(fs) :
              \E k \in DOMAIN fs : \E n \in DOMAIN fs[k] : q = <<k, n>>
<1>1. ASSUME NEW k \in DOMAIN fs, NEW n \in DOMAIN fs[k]
      PROVE  <<k, n>> \in DOMAIN Joined(fs) /\ Joined(fs)[<<k, n>>] = fs[k][n]
  <2>1. <<k, n>> \in {k} \X DOMAIN fs[k]
    OBVIOUS
  <2>2. <<k, n>> \in UNION {{l} \X DOMAIN fs[l] : l \in DOMAIN fs}
    BY <2>1
  <2> QED
    BY <2>2 DEF Joined
<1>2. ASSUME NEW q \in DOMAIN Joined(fs)
      PROVE  \E k \in DOMAIN fs : \E n \in DOMAIN fs[k] : q = <<k, n>>
  <2>1. q \in UNION {{l} \X DOMAIN fs[l] : l \in DOMAIN fs}
    BY DEF Joined
  <2>2. PICK k \in DOMAIN fs : q \in {k} \X DOMAIN fs[k]
    BY <2>1
  <2> QED
    BY <2>2
<1> QED
  BY <1>1, <1>2

\* The objects of the graphs, each in its graph.
LEMMA InItsGraph ==
  ASSUME NEW graphs, NEW kind, NEW q \in DOMAIN OfKind(graphs, kind)
  PROVE  \E n \in DOMAIN graphs : \E p \in DOMAIN Objects(graphs[n])[kind] :
           q = <<n, p>> /\ OfKind(graphs, kind)[q] = Objects(graphs[n])[kind][p]
<1> DEFINE fs == [n \in DOMAIN graphs |-> Objects(graphs[n])[kind]]
<1>1. OfKind(graphs, kind) = Joined(fs)
  BY DEF OfKind
<1>2. PICK n \in DOMAIN fs : \E p \in DOMAIN fs[n] : q = <<n, p>>
  BY <1>1, JoinedAt
<1>3. PICK p \in DOMAIN fs[n] : q = <<n, p>>
  BY <1>2
<1>4. OfKind(graphs, kind)[q] = fs[n][p]
  BY <1>1, <1>3, JoinedAt
<1> QED
  BY <1>3, <1>4

LEMMA OfItsGraph ==
  ASSUME NEW graphs, NEW kind, NEW n \in DOMAIN graphs,
         NEW p \in DOMAIN Objects(graphs[n])[kind]
  PROVE  /\ <<n, p>> \in DOMAIN OfKind(graphs, kind)
         /\ OfKind(graphs, kind)[<<n, p>>] = Objects(graphs[n])[kind][p]
<1> DEFINE fs == [m \in DOMAIN graphs |-> Objects(graphs[m])[kind]]
<1>1. OfKind(graphs, kind) = Joined(fs) /\ n \in DOMAIN fs /\ p \in DOMAIN fs[n]
  BY DEF OfKind
<1>2. <<n, p>> \in DOMAIN Joined(fs) /\ Joined(fs)[<<n, p>>] = fs[n][p]
  BY <1>1, JoinedAt
<1> QED
  BY <1>1, <1>2

\* Whatever has an identifier has it registered, under its kind.
LEMMA Registered ==
  ASSUME NEW g, NEW kind \in Kinds, NEW p \in DOMAIN Objects(g)[kind]
  PROVE  /\ <<kind, p>> \in DOMAIN Ids(g)
         /\ Ids(g)[<<kind, p>>] = Objects(g)[kind][p].id
<1>1. kind \in DOMAIN Objects(g)
  BY DEF Objects, Kinds
<1>2. /\ <<kind, p>> \in DOMAIN Joined(Objects(g))
      /\ Joined(Objects(g))[<<kind, p>>] = Objects(g)[kind][p]
  BY <1>1, JoinedAt
<1> QED
  BY <1>2 DEF Ids, IdsOf

\* Among accepted graphs that are apart an identifier is of one object.
LEMMA OneIdentifier ==
  ASSUME NEW graphs, \A n \in DOMAIN graphs : Accepted(graphs[n]), Apart(graphs),
         NEW k1 \in Kinds, NEW k2 \in Kinds,
         NEW q1 \in DOMAIN OfKind(graphs, k1), NEW q2 \in DOMAIN OfKind(graphs, k2),
         OfKind(graphs, k1)[q1].id = OfKind(graphs, k2)[q2].id
  PROVE  k1 = k2 /\ q1 = q2
<1>1. PICK n1 \in DOMAIN graphs : \E p1 \in DOMAIN Objects(graphs[n1])[k1] :
        q1 = <<n1, p1>> /\ OfKind(graphs, k1)[q1] = Objects(graphs[n1])[k1][p1]
  BY InItsGraph
<1>2. PICK n2 \in DOMAIN graphs : \E p2 \in DOMAIN Objects(graphs[n2])[k2] :
        q2 = <<n2, p2>> /\ OfKind(graphs, k2)[q2] = Objects(graphs[n2])[k2][p2]
  BY InItsGraph
<1>3. PICK p1 \in DOMAIN Objects(graphs[n1])[k1] :
        q1 = <<n1, p1>> /\ OfKind(graphs, k1)[q1] = Objects(graphs[n1])[k1][p1]
  BY <1>1
<1>4. PICK p2 \in DOMAIN Objects(graphs[n2])[k2] :
        q2 = <<n2, p2>> /\ OfKind(graphs, k2)[q2] = Objects(graphs[n2])[k2][p2]
  BY <1>2
<1>5. /\ <<k1, p1>> \in DOMAIN Ids(graphs[n1]) /\ <<k2, p2>> \in DOMAIN Ids(graphs[n2])
      /\ Ids(graphs[n1])[<<k1, p1>>] = Ids(graphs[n2])[<<k2, p2>>]
  BY <1>3, <1>4, Registered
<1>6. n1 = n2
  BY <1>5 DEF Apart, Range
<1>7. IsInjective(Ids(graphs[n1]))
  BY DEF Accepted, ItemsAccepted
<1>8. <<k1, p1>> = <<k2, p2>>
  BY <1>5, <1>6, <1>7 DEF IsInjective
<1> QED
  BY <1>3, <1>4, <1>6, <1>8

\* What reader_model.py accepts of graphs that are apart, whose representations
\* name no artifact twice and are found in their pages once, is what the tables
\* of the database ask for (_build_database).
THEOREM AcceptedIsStored ==
  ASSUME NEW graphs, \A n \in DOMAIN graphs : Accepted(graphs[n]), Faultless(graphs)
  PROVE  Stores(graphs)
<1> USE DEF Faultless
<1>1. ASSUME NEW kind \in Tables
      PROVE  IsInjective(IdsOf(OfKind(graphs, kind)))
  <2>1. kind \in Kinds
    BY DEF Tables, Kinds
  <2>2. ASSUME NEW q1 \in DOMAIN OfKind(graphs, kind), NEW q2 \in DOMAIN OfKind(graphs, kind),
               OfKind(graphs, kind)[q1].id = OfKind(graphs, kind)[q2].id
        PROVE  q1 = q2
    BY <2>1, <2>2, OneIdentifier
  <2> QED
    BY <2>2 DEF IsInjective, IdsOf
<1>2. IsInjective(IdsOf(Owners(graphs)))
  <2> DEFINE kinds == <<"collection", "items">>
             fs    == <<OfKind(graphs, "collection"), OfKind(graphs, "items")>>
             all   == Joined(fs)
  <2>1. /\ DOMAIN fs = {1, 2}
        /\ \A k \in DOMAIN fs : kinds[k] \in Kinds /\ fs[k] = OfKind(graphs, kinds[k])
        /\ \A k, l \in DOMAIN fs : kinds[k] = kinds[l] => k = l
    BY DEF Kinds
  <2>2. ASSUME NEW q1 \in DOMAIN all, NEW q2 \in DOMAIN all, all[q1].id = all[q2].id
        PROVE  q1 = q2
    <3> HIDE DEF kinds, fs
    <3>1. PICK m1 \in DOMAIN fs : \E p \in DOMAIN fs[m1] : q1 = <<m1, p>>
      BY JoinedAt
    <3>2. PICK m2 \in DOMAIN fs : \E p \in DOMAIN fs[m2] : q2 = <<m2, p>>
      BY JoinedAt
    <3>3. PICK p1 \in DOMAIN fs[m1] : q1 = <<m1, p1>>
      BY <3>1
    <3>4. PICK p2 \in DOMAIN fs[m2] : q2 = <<m2, p2>>
      BY <3>2
    <3>5. all[q1] = fs[m1][p1] /\ all[q2] = fs[m2][p2]
      BY <3>3, <3>4, JoinedAt
    <3>6. /\ kinds[m1] \in Kinds /\ p1 \in DOMAIN OfKind(graphs, kinds[m1])
          /\ kinds[m2] \in Kinds /\ p2 \in DOMAIN OfKind(graphs, kinds[m2])
          /\ OfKind(graphs, kinds[m1])[p1].id = OfKind(graphs, kinds[m2])[p2].id
      BY <2>1, <2>2, <3>5
    <3>7. kinds[m1] = kinds[m2] /\ p1 = p2
      BY <3>6, OneIdentifier
    <3> QED
      BY <2>1, <3>3, <3>4, <3>7
  <2>3. /\ DOMAIN IdsOf(Owners(graphs)) \subseteq DOMAIN all
        /\ \A q \in DOMAIN IdsOf(Owners(graphs)) : IdsOf(Owners(graphs))[q] = all[q].id
    BY DEF Owners, Restrict, IdsOf
  <2> HIDE DEF all
  <2> QED
    BY <2>2, <2>3 DEF IsInjective
<1>3. ASSUME NEW rep \in Range(OfKind(graphs, "representations"))
      PROVE  /\ IsInjective(rep.artifacts)
             /\ Range(rep.artifacts) \subseteq Range(IdsOf(OfKind(graphs, "artifacts")))
  <2>1. PICK q \in DOMAIN OfKind(graphs, "representations") :
          rep = OfKind(graphs, "representations")[q]
    BY DEF Range
  <2>2. PICK n \in DOMAIN graphs : \E p \in DOMAIN Objects(graphs[n])["representations"] :
          rep = Objects(graphs[n])["representations"][p]
    BY <2>1, InItsGraph
  <2>3. rep \in Range(Representations(graphs[n])) /\ graphs[n] \in Range(graphs)
    BY <2>2 DEF Objects, Range
  <2>4. Range(rep.artifacts) \subseteq ArtifactIds(graphs[n])
    BY <2>3 DEF Accepted, ItemsAccepted, RepresentationAccepted
  <2>5. ASSUME NEW id \in ArtifactIds(graphs[n])
        PROVE  id \in Range(IdsOf(OfKind(graphs, "artifacts")))
    <3>1. PICK m \in DOMAIN Objects(graphs[n])["artifacts"] :
            id = Objects(graphs[n])["artifacts"][m].id
      BY DEF ArtifactIds, Range, IdsOf, Objects
    <3>2. /\ <<n, m>> \in DOMAIN OfKind(graphs, "artifacts")
          /\ OfKind(graphs, "artifacts")[<<n, m>>].id = id
      BY <3>1, OfItsGraph
    <3> QED
      BY <3>2 DEF Range, IdsOf
  <2> QED
    BY <2>3, <2>4, <2>5 DEF NamedOnce
<1> QED
  BY <1>1, <1>2, <1>3 DEF Stores, Constraints

\* A build that has read valid readers fails at none of the database's keys
\* (_load_reader_input and _build_database agree).
THEOREM AcceptedReadersAreTaken == Spec => []DatabaseTakesAccepted
<1>1. DraftsFit
  BY AcceptedIsStored DEF DraftsFit
<1>2. ASSUME IInv, NEW p \in Builders,
             build[p].pc = "reading", Faultless(GraphsOf(Chosen(build[p].key)))
      PROVE  Chosen(build[p].key) \in Storable
  <2> DEFINE rs == Chosen(build[p].key)
  <2>1. build[p].key \in Keys /\ rs \subseteq Valid
    BY <1>2 DEF IInv, TypeOK, KeyInv, Active
  <2>2. \A r \in rs : Accepted(Reader[r].graph)
    BY <2>1, GraphsAssumption DEF LoadsAs, Loads
  <2>3. Stores(GraphsOf(rs))
    <3> HIDE DEF rs
    <3>1. \A r \in DOMAIN GraphsOf(rs) : Accepted(GraphsOf(rs)[r])
      BY <2>2 DEF GraphsOf
    <3>2. Faultless(GraphsOf(rs))
      BY <1>2 DEF rs
    <3> QED
      BY <3>1, <3>2, AcceptedIsStored
  <2> QED
    BY <2>1, <2>3, GraphsAssumption
<1>3. IInv => DatabaseTakesAccepted
  BY <1>1, <1>2 DEF DatabaseTakesAccepted
<1> QED
  BY Inductive, <1>3, PTL
=============================================================================
