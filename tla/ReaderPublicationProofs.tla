---------------------- MODULE ReaderPublicationProofs ----------------------
(***************************************************************************)
(* ReaderPublication, for every set of invocations, lookups, captures,     *)
(* keys and builds, and whichever generations are damaged.                 *)
(***************************************************************************)
EXTENDS ReaderPublication, TLAPS

USE NamesAssumption

\* A step by which an invocation ends and moves no pointer.
Ending(p) == \/ Quarantine(p) \/ Return(p) \/ ReturnIncomplete(p)
             \/ RefuseCurrent(p) \/ RestoreFails(p) \/ Fail(p) \/ Stop(p)

\* Such a step frees the lock, if the invocation has it, and leaves what was
\* published alone.
LEMMA EndingChanges ==
  ASSUME TypeOK, BuildInv, NEW p \in Procs, Ending(p)
  PROVE  /\ pc[p] \in {"waiting"} \union Publishing
         /\ pc' = [pc EXCEPT ![p] = pc'[p]]
         /\ pc'[p] \in Ended
         /\ pc[p] = "half" => pc'[p] = "cut"
         /\ pc'[p] = "returned" => pc[p] \in {"linked", "switched"}
         /\ lock' = IF lock = p THEN Free ELSE lock
         /\ staging' \subseteq Procs
         /\ quarantine' \subseteq Builds
         /\ UNCHANGED <<build, previous, generation, captureReader, current,
                        canonical, lookup, seen>>
<1> USE DEF TypeOK, End, Publishing, Ended, lookupVars
<1>1. CASE Quarantine(p)
  BY <1>1 DEF Quarantine, BuildInv
<1>2. CASE Return(p) \/ ReturnIncomplete(p) \/ RefuseCurrent(p) \/ RestoreFails(p)
  BY <1>2 DEF Return, ReturnIncomplete, RefuseCurrent, RestoreFails, treeVars
<1>3. CASE Fail(p) \/ Stop(p)
  BY <1>3 DEF Fail, Stop
<1> QED
  BY <1>1, <1>2, <1>3 DEF Ending

\* The steps of the specification, the ending ones taken together.
LEMMA Cases ==
  ASSUME [Next]_vars
  PROVE  \/ \E p \in Procs : \/ Ending(p) \/ \E b \in Rendered : Build(p, b)
                             \/ Lock(p) \/ Rename(p) \/ Seal(p) \/ Reuse(p)
                             \/ LinkCapture(p) \/ SwitchCurrent(p)
                             \/ WriteCanonical(p) \/ SealFails(p)
                             \/ WriteCanonicalFails(p) \/ LinkFails(p)
         \/ \E k \in Keys : Damage(k)
         \/ \E r \in Readers : StartLookup(r) \/ FinishLookup(r)
         \/ UNCHANGED vars
  BY DEF Next, Step, Fault, Look, Ending

\* What an invocation that has rendered would publish.
LEMMA NewGeneration ==
  ASSUME TypeOK, BuildInv, NEW p \in Procs, pc[p] # "idle"
  PROVE  /\ Key(p) \in Keys
         /\ CaptureOf[Key(p)] \in Captures
         /\ [claim |-> build[p], tree |-> build[p].tree] \in Generation
         /\ [claim |-> build[p], tree |-> Damaged] \in Generation
  BY DEF TypeOK, BuildInv, Key, Builds, Generation

\* After the renaming.
LEMMA RenameChanges ==
  ASSUME TypeOK, BuildInv, NEW p \in Procs, Rename(p)
  PROVE  /\ generation[Key(p)] = Absent
         /\ generation'[Key(p)] # Absent
         /\ generation'[Key(p)].claim = build[p]
         /\ generation' \in [Keys -> Generation \union {Absent}]
         /\ \A k \in Keys : k # Key(p) => generation'[k] = generation[k]
<1>1. pc[p] = "locked"
  BY DEF Rename, Transition
<1>2. [claim |-> build[p], tree |-> build[p].tree] \in Generation /\ Key(p) \in Keys
  BY <1>1, NewGeneration
<1> QED
  BY <1>2 DEF Rename, TypeOK

\* Damage leaves a generation where it is, and its metadata as they are.
LEMMA DamageChanges ==
  ASSUME TypeOK, NEW k \in Keys, Damage(k)
  PROVE  /\ UNCHANGED <<pc, build, previous, lock, captureReader, current,
                        canonical, lookup, seen>>
         /\ generation' \in [Keys -> Generation \union {Absent}]
         /\ generation'[k] = [claim |-> generation[k].claim, tree |-> Damaged]
         /\ \A j \in Keys \ {k} : generation'[j] = generation[j]
         /\ \A j \in Keys : /\ generation[j] # Absent => generation'[j] # Absent
                            /\ generation'[j].claim = generation[j].claim
<1> DEFINE damaged == [claim |-> generation[k].claim, tree |-> Damaged]
<1>1. generation[k] \in Generation
  BY DEF Damage, TypeOK
<1>2. damaged \in Generation
  BY <1>1 DEF Generation
<1>3. damaged.claim = generation[k].claim
  OBVIOUS
<1>4. generation' = [generation EXCEPT ![k] = damaged]
  BY DEF Damage
<1> HIDE DEF damaged
<1>5. \A j \in Keys : /\ generation[j] # Absent => generation'[j] # Absent
                      /\ generation'[j].claim = generation[j].claim
  BY <1>2, <1>3, <1>4 DEF TypeOK
<1>6. generation' \in [Keys -> Generation \union {Absent}]
  BY <1>2, <1>4 DEF TypeOK
<1> QED
  BY <1>4, <1>5, <1>6 DEF Damage, TypeOK, lookupVars, damaged

\* Every step keeps every variable in its type.
LEMMA TypeStep ==
  ASSUME IInv, [Next]_vars
  PROVE  TypeOK'
<1> USE DEF IInv, TypeOK, treeVars, lookupVars, Transition, End,
            Unlocked, Publishing, Ended, KeyOrNone
<1>1. ASSUME NEW p \in Procs, Ending(p)
      PROVE  TypeOK'
  BY <1>1, EndingChanges
<1>2. ASSUME NEW p \in Procs, NEW b \in Rendered, Build(p, b)
      PROVE  TypeOK'
  BY <1>2 DEF Build
<1>3. ASSUME NEW p \in Procs, Lock(p) \/ Seal(p) \/ Reuse(p)
      PROVE  TypeOK'
  BY <1>3 DEF Lock, Seal, Reuse
<1>4. ASSUME NEW p \in Procs, Rename(p)
      PROVE  TypeOK'
  BY <1>4, RenameChanges DEF Rename
<1>5. ASSUME NEW p \in Procs, LinkCapture(p) \/ SwitchCurrent(p) \/ WriteCanonical(p)
      PROVE  TypeOK'
  <2>1. pc[p] # "idle"
    BY <1>5 DEF LinkCapture, SwitchCurrent, WriteCanonical
  <2>2. Key(p) \in Keys
    BY <2>1, NewGeneration
  <2> QED
    BY <1>5, <2>2 DEF LinkCapture, SwitchCurrent, WriteCanonical
<1>6. ASSUME NEW p \in Procs, SealFails(p) \/ WriteCanonicalFails(p) \/ LinkFails(p)
      PROVE  TypeOK'
  <2>1. pc[p] # "idle"
    BY <1>6 DEF SealFails, WriteCanonicalFails, LinkFails
  <2>2. /\ Key(p) \in Keys
        /\ [claim |-> build[p], tree |-> Damaged] \in Generation
    BY <2>1, NewGeneration
  <2> QED
    BY <1>6, <2>2 DEF SealFails, WriteCanonicalFails, LinkFails
<1>7. ASSUME NEW k \in Keys, Damage(k)
      PROVE  TypeOK'
  BY <1>7, DamageChanges DEF Damage
<1>8. ASSUME NEW r \in Readers, StartLookup(r) \/ FinishLookup(r)
      PROVE  TypeOK'
  BY <1>8 DEF StartLookup, FinishLookup, Accepted
<1>9. CASE UNCHANGED vars
  BY <1>9 DEF vars
<1> HIDE DEF IInv, TypeOK, treeVars, lookupVars, Transition, End,
            Unlocked, Publishing, Ended, KeyOrNone
<1> QED
  BY <1>1, <1>2, <1>3, <1>4, <1>5, <1>6, <1>7, <1>8, <1>9, Cases

\* Only the holder of the lock publishes.
LEMMA LockStep ==
  ASSUME IInv, TypeOK', [Next]_vars
  PROVE  LockInv'
<1> USE DEF IInv, TypeOK, treeVars, lookupVars, LockInv, Transition, End,
            Unlocked, Publishing, Ended
<1>1. ASSUME NEW p \in Procs, Ending(p)
      PROVE  LockInv'
  BY <1>1, EndingChanges
<1>2. ASSUME NEW p \in Procs, NEW b \in Rendered, Build(p, b)
      PROVE  LockInv'
  BY <1>2 DEF Build
<1>3. ASSUME NEW p \in Procs, Lock(p) \/ Rename(p) \/ Seal(p) \/ Reuse(p) \/ LinkCapture(p) \/ SwitchCurrent(p) \/ WriteCanonical(p)
      PROVE  LockInv'
  BY <1>3 DEF Lock, Rename, Seal, Reuse, LinkCapture, SwitchCurrent, WriteCanonical
<1>4. ASSUME NEW p \in Procs, SealFails(p) \/ WriteCanonicalFails(p) \/ LinkFails(p)
      PROVE  LockInv'
  BY <1>4 DEF SealFails, WriteCanonicalFails, LinkFails
<1>5. ASSUME NEW k \in Keys, Damage(k)
      PROVE  LockInv'
  BY <1>5, DamageChanges
<1>6. ASSUME NEW r \in Readers, StartLookup(r) \/ FinishLookup(r)
      PROVE  LockInv'
  BY <1>6 DEF StartLookup, FinishLookup, Accepted
<1>7. CASE UNCHANGED vars
  BY <1>7 DEF vars
<1> HIDE DEF IInv, TypeOK, treeVars, lookupVars, LockInv, Transition, End,
            Unlocked, Publishing, Ended
<1> QED
  BY <1>1, <1>2, <1>3, <1>4, <1>5, <1>6, <1>7, Cases

\* From the renaming on, an invocation finds its generation: only who has the
\* lock removes one, and no other invocation has published that.
LEMMA BuildStep ==
  ASSUME IInv, TypeOK', [Next]_vars
  PROVE  BuildInv'
<1> USE DEF IInv, TypeOK, treeVars, lookupVars, BuildInv, LockInv, UnsealedInv,
            Transition, End, Publishing, Ended, Key
<1>1. ASSUME NEW p \in Procs, Ending(p)
      PROVE  BuildInv'
  BY <1>1, EndingChanges
<1>2. ASSUME NEW p \in Procs, NEW b \in Rendered, Build(p, b)
      PROVE  BuildInv'
  BY <1>2 DEF Build
<1>3. ASSUME NEW p \in Procs, Lock(p) \/ Seal(p) \/ LinkCapture(p) \/ SwitchCurrent(p) \/ WriteCanonical(p) \/ WriteCanonicalFails(p) \/ LinkFails(p)
      PROVE  BuildInv'
  BY <1>3 DEF Lock, Seal, LinkCapture, SwitchCurrent, WriteCanonical, WriteCanonicalFails, LinkFails
<1>4. ASSUME NEW p \in Procs, Rename(p)
      PROVE  BuildInv'
  <2>1. /\ pc[p] = "locked" /\ pc' = [pc EXCEPT ![p] = "renamed"]
        /\ build' = build
    BY <1>4 DEF Rename
  <2>2. ASSUME NEW q \in Procs, q # p,
               pc[q] \in {"renamed", "linking", "linked", "half", "switched",
                         "returned"}
        PROVE  Key(q) # Key(p) /\ Key(q) \in Keys
    BY <1>4, <2>2, RenameChanges DEF Builds
  <2>3. ASSUME NEW q \in Procs, q # p,
               pc[q] \in {"renamed", "linking", "linked", "half", "switched",
                         "returned"}
        PROVE  generation'[build[q].key] = generation[build[q].key]
    BY <1>4, <2>2, <2>3, RenameChanges
  <2>4. generation'[build[p].key] # Absent /\ generation'[build[p].key].claim = build[p]
    BY <1>4, RenameChanges
  <2> QED
    BY <2>1, <2>3, <2>4
<1>5. ASSUME NEW p \in Procs, Reuse(p)
      PROVE  BuildInv'
  BY <1>5 DEF Reuse, Same, Intact
<1>6. ASSUME NEW p \in Procs, SealFails(p)
      PROVE  BuildInv'
  BY <1>6 DEF SealFails
<1>7. ASSUME NEW k \in Keys, Damage(k)
      PROVE  BuildInv'
  BY <1>7, DamageChanges DEF Builds
<1>8. ASSUME NEW r \in Readers, StartLookup(r) \/ FinishLookup(r)
      PROVE  BuildInv'
  BY <1>8 DEF StartLookup, FinishLookup, Accepted
<1>9. CASE UNCHANGED vars
  BY <1>9 DEF vars
<1> HIDE DEF IInv, TypeOK, treeVars, lookupVars, BuildInv, LockInv, UnsealedInv,
            Transition, End, Publishing, Ended, Key
<1> QED
  BY <1>1, <1>2, <1>3, <1>4, <1>5, <1>6, <1>7, <1>8, <1>9, Cases

\* What is not sealed is not named: what is named was there before the renaming.
LEMMA UnsealedStep ==
  ASSUME IInv, TypeOK', [Next]_vars
  PROVE  UnsealedInv'
<1> USE DEF IInv, TypeOK, treeVars, lookupVars, BuildInv, LockInv, UnsealedInv,
            SwitchInv, NamedIsPublished, Transition, End, Publishing, Ended, Key,
            Named, Current
<1>1. ASSUME NEW p \in Procs, Ending(p)
      PROVE  UnsealedInv'
  BY <1>1, EndingChanges
<1>2. ASSUME NEW p \in Procs, NEW b \in Rendered, Build(p, b)
      PROVE  UnsealedInv'
  BY <1>2 DEF Build
<1>3. ASSUME NEW p \in Procs, Lock(p) \/ Seal(p) \/ Reuse(p)
      PROVE  UnsealedInv'
  BY <1>3 DEF Lock, Seal, Reuse
<1>4. ASSUME NEW p \in Procs, Rename(p)
      PROVE  UnsealedInv'
  BY <1>4, RenameChanges DEF Rename
<1>5. ASSUME NEW p \in Procs, LinkCapture(p) \/ LinkFails(p)
      PROVE  UnsealedInv'
  BY <1>5 DEF LinkCapture, LinkFails
<1>6. ASSUME NEW p \in Procs, SwitchCurrent(p) \/ WriteCanonical(p)
      PROVE  UnsealedInv'
  BY <1>6 DEF SwitchCurrent, WriteCanonical
<1>7. ASSUME NEW p \in Procs, SealFails(p) \/ WriteCanonicalFails(p)
      PROVE  UnsealedInv'
  BY <1>7 DEF SealFails, WriteCanonicalFails
<1>8. ASSUME NEW k \in Keys, Damage(k)
      PROVE  UnsealedInv'
  BY <1>8, DamageChanges
<1>9. ASSUME NEW r \in Readers, StartLookup(r) \/ FinishLookup(r)
      PROVE  UnsealedInv'
  BY <1>9 DEF StartLookup, FinishLookup, Accepted
<1>10. CASE UNCHANGED vars
  BY <1>10 DEF vars
<1> HIDE DEF IInv, TypeOK, treeVars, lookupVars, BuildInv, LockInv, UnsealedInv,
            SwitchInv, NamedIsPublished, Transition, End, Publishing, Ended, Key,
            Named, Current
<1> QED
  BY <1>1, <1>2, <1>3, <1>4, <1>5, <1>6, <1>7, <1>8, <1>9, <1>10, Cases

\* Between the two replacements the old target is remembered.
LEMMA SwitchStep ==
  ASSUME IInv, TypeOK', [Next]_vars
  PROVE  SwitchInv'
<1> USE DEF IInv, TypeOK, treeVars, lookupVars, BuildInv, LockInv, UnsealedInv,
            SwitchInv, AgreeUnlessHalf, NamedIsPublished, Transition, End,
            Publishing, Ended, Key, Named, Current
<1>1. ASSUME NEW p \in Procs, Ending(p)
      PROVE  SwitchInv'
  BY <1>1, EndingChanges
<1>2. ASSUME NEW p \in Procs, NEW b \in Rendered, Build(p, b)
      PROVE  SwitchInv'
  BY <1>2 DEF Build
<1>3. ASSUME NEW p \in Procs, Lock(p) \/ Seal(p) \/ Reuse(p) \/ LinkCapture(p)
      PROVE  SwitchInv'
  BY <1>3 DEF Lock, Seal, Reuse, LinkCapture
<1>4. ASSUME NEW p \in Procs, Rename(p)
      PROVE  SwitchInv'
  BY <1>4, RenameChanges DEF Rename
<1>5. ASSUME NEW p \in Procs, SwitchCurrent(p)
      PROVE  SwitchInv'
  BY <1>5 DEF SwitchCurrent, CurrentOk, Intact
<1>6. ASSUME NEW p \in Procs, WriteCanonical(p) \/ SealFails(p)
      PROVE  SwitchInv'
  BY <1>6 DEF WriteCanonical, SealFails
<1>7. ASSUME NEW p \in Procs, WriteCanonicalFails(p) \/ LinkFails(p)
      PROVE  SwitchInv'
  BY <1>7 DEF WriteCanonicalFails, LinkFails
<1>8. ASSUME NEW k \in Keys, Damage(k)
      PROVE  SwitchInv'
  BY <1>8, DamageChanges DEF KeyOrNone
<1>9. ASSUME NEW r \in Readers, StartLookup(r) \/ FinishLookup(r)
      PROVE  SwitchInv'
  BY <1>9 DEF StartLookup, FinishLookup, Accepted
<1>10. CASE UNCHANGED vars
  BY <1>10 DEF vars
<1> HIDE DEF IInv, TypeOK, treeVars, lookupVars, BuildInv, LockInv, UnsealedInv,
            SwitchInv, AgreeUnlessHalf, NamedIsPublished, Transition, End,
            Publishing, Ended, Key, Named, Current
<1> QED
  BY <1>1, <1>2, <1>3, <1>4, <1>5, <1>6, <1>7, <1>8, <1>9, <1>10, Cases

\* What is named stays published, and what becomes named was published.
LEMMA NamedStep ==
  ASSUME IInv, TypeOK', [Next]_vars
  PROVE  NamedIsPublished'
<1> USE DEF IInv, TypeOK, treeVars, lookupVars, BuildInv, LockInv, UnsealedInv,
            SwitchInv, NamedIsPublished, Transition, End, Publishing, Ended, Key,
            Named, Current
<1>1. ASSUME NEW p \in Procs, Ending(p)
      PROVE  NamedIsPublished'
  BY <1>1, EndingChanges
<1>2. ASSUME NEW p \in Procs, NEW b \in Rendered, Build(p, b)
      PROVE  NamedIsPublished'
  BY <1>2 DEF Build
<1>3. ASSUME NEW p \in Procs, Lock(p) \/ Seal(p) \/ Reuse(p)
      PROVE  NamedIsPublished'
  BY <1>3 DEF Lock, Seal, Reuse
<1>4. ASSUME NEW p \in Procs, Rename(p)
      PROVE  NamedIsPublished'
  BY <1>4, RenameChanges DEF Rename
<1>5. ASSUME NEW p \in Procs, LinkCapture(p) \/ LinkFails(p)
      PROVE  NamedIsPublished'
  BY <1>5 DEF LinkCapture, LinkFails
<1>6. ASSUME NEW p \in Procs, SwitchCurrent(p) \/ WriteCanonical(p)
      PROVE  NamedIsPublished'
  BY <1>6 DEF SwitchCurrent, WriteCanonical
<1>7. ASSUME NEW p \in Procs, SealFails(p)
      PROVE  NamedIsPublished'
  BY <1>7 DEF SealFails
<1>8. ASSUME NEW p \in Procs, WriteCanonicalFails(p)
      PROVE  NamedIsPublished'
  BY <1>8 DEF WriteCanonicalFails
<1>9. ASSUME NEW k \in Keys, Damage(k)
      PROVE  NamedIsPublished'
  BY <1>9, DamageChanges DEF KeyOrNone
<1>10. ASSUME NEW r \in Readers, StartLookup(r) \/ FinishLookup(r)
      PROVE  NamedIsPublished'
  BY <1>10 DEF StartLookup, FinishLookup, Accepted
<1>11. CASE UNCHANGED vars
  BY <1>11 DEF vars
<1> HIDE DEF IInv, TypeOK, treeVars, lookupVars, BuildInv, LockInv, UnsealedInv,
            SwitchInv, NamedIsPublished, Transition, End, Publishing, Ended, Key,
            Named, Current
<1> QED
  BY <1>1, <1>2, <1>3, <1>4, <1>5, <1>6, <1>7, <1>8, <1>9, <1>10, <1>11, Cases

\* Who returns has its own generation, and switched both pointers to it.
LEMMA ReturnedStep ==
  ASSUME IInv, TypeOK', [Next]_vars
  PROVE  (OneBuildPerKey /\ SwitchedTogether)'
<1> USE DEF IInv, TypeOK, treeVars, lookupVars, BuildInv, LockInv, SwitchInv,
            OneBuildPerKey, SwitchedTogether, Transition, End, Publishing, Ended, Key
<1>1. ASSUME NEW p \in Procs, Ending(p)
      PROVE  (OneBuildPerKey /\ SwitchedTogether)'
  BY <1>1, EndingChanges
<1>2. ASSUME NEW p \in Procs, NEW b \in Rendered, Build(p, b)
      PROVE  (OneBuildPerKey /\ SwitchedTogether)'
  BY <1>2 DEF Build
<1>3. ASSUME NEW p \in Procs, Lock(p) \/ Rename(p) \/ Seal(p) \/ Reuse(p) \/ LinkCapture(p)
      PROVE  (OneBuildPerKey /\ SwitchedTogether)'
  BY <1>3 DEF Lock, Rename, Seal, Reuse, LinkCapture
<1>4. ASSUME NEW p \in Procs, SwitchCurrent(p) \/ WriteCanonical(p)
      PROVE  (OneBuildPerKey /\ SwitchedTogether)'
  BY <1>4 DEF SwitchCurrent, WriteCanonical
<1>5. ASSUME NEW p \in Procs, SealFails(p) \/ WriteCanonicalFails(p) \/ LinkFails(p)
      PROVE  (OneBuildPerKey /\ SwitchedTogether)'
  BY <1>5 DEF SealFails, WriteCanonicalFails, LinkFails
<1>6. ASSUME NEW k \in Keys, Damage(k)
      PROVE  (OneBuildPerKey /\ SwitchedTogether)'
  BY <1>6, DamageChanges
<1>7. ASSUME NEW r \in Readers, StartLookup(r) \/ FinishLookup(r)
      PROVE  (OneBuildPerKey /\ SwitchedTogether)'
  BY <1>7 DEF StartLookup, FinishLookup, Accepted
<1>8. CASE UNCHANGED vars
  BY <1>8 DEF vars
<1> HIDE DEF IInv, TypeOK, treeVars, lookupVars, BuildInv, LockInv, SwitchInv,
            OneBuildPerKey, SwitchedTogether, Transition, End, Publishing, Ended, Key
<1> QED
  BY <1>1, <1>2, <1>3, <1>4, <1>5, <1>6, <1>7, <1>8, Cases

\* Who moves the symlink is half way, writes LATEST-READER or restores the
\* symlink, unless it is cut off.
LEMMA AgreeStep ==
  ASSUME IInv, TypeOK', [Next]_vars
  PROVE  AgreeUnlessHalf'
<1> USE DEF IInv, TypeOK, treeVars, lookupVars, LockInv, SwitchInv, SwitchedTogether,
            AgreeUnlessHalf, Transition, End, Publishing, Ended, Key
<1>1. ASSUME NEW p \in Procs, Ending(p)
      PROVE  AgreeUnlessHalf'
  BY <1>1, EndingChanges
<1>2. ASSUME NEW p \in Procs, NEW b \in Rendered, Build(p, b)
      PROVE  AgreeUnlessHalf'
  BY <1>2 DEF Build
<1>3. ASSUME NEW p \in Procs, Lock(p) \/ Rename(p) \/ Seal(p) \/ Reuse(p) \/ LinkCapture(p)
      PROVE  AgreeUnlessHalf'
  BY <1>3 DEF Lock, Rename, Seal, Reuse, LinkCapture
<1>4. ASSUME NEW p \in Procs, SwitchCurrent(p) \/ WriteCanonical(p)
      PROVE  AgreeUnlessHalf'
  BY <1>4 DEF SwitchCurrent, WriteCanonical
<1>5. ASSUME NEW p \in Procs, SealFails(p) \/ WriteCanonicalFails(p) \/ LinkFails(p)
      PROVE  AgreeUnlessHalf'
  BY <1>5 DEF SealFails, WriteCanonicalFails, LinkFails
<1>6. ASSUME NEW k \in Keys, Damage(k)
      PROVE  AgreeUnlessHalf'
  BY <1>6, DamageChanges
<1>7. ASSUME NEW r \in Readers, StartLookup(r) \/ FinishLookup(r)
      PROVE  AgreeUnlessHalf'
  BY <1>7 DEF StartLookup, FinishLookup, Accepted
<1>8. CASE UNCHANGED vars
  BY <1>8 DEF vars
<1> HIDE DEF IInv, TypeOK, treeVars, lookupVars, LockInv, SwitchInv, SwitchedTogether,
            AgreeUnlessHalf, Transition, End, Publishing, Ended, Key
<1> QED
  BY <1>1, <1>2, <1>3, <1>4, <1>5, <1>6, <1>7, <1>8, Cases

\* The inductive invariant holds throughout.
THEOREM ReaderInductive == Spec => []IInv
<1>1. Init => IInv
  <2> SUFFICES ASSUME Init PROVE IInv
    OBVIOUS
  <2> USE DEF Init, KeyOrNone, Named, Current
  <2>1. generation \in [Keys -> Generation \union {Absent}]
        /\ captureReader \in [Captures -> KeyOrNone]
        /\ current \in KeyOrNone /\ canonical = current
    BY DEF InitPublished, Builds, Generation
  <2>2. NamedIsPublished
    BY DEF NamedIsPublished, InitPublished, Builds, Generation
  <2>3. TypeOK
    BY <2>1 DEF TypeOK, Unlocked
  <2> QED
    BY <2>1, <2>2, <2>3
       DEF IInv, LockInv, BuildInv, UnsealedInv, SwitchInv, OneBuildPerKey,
           SwitchedTogether, AgreeUnlessHalf, Publishing
<1>2. IInv /\ [Next]_vars => IInv'
  <2> SUFFICES ASSUME IInv, [Next]_vars PROVE IInv'
    OBVIOUS
  <2>1. TypeOK'
    BY TypeStep
  <2> QED
    BY <2>1, LockStep, BuildStep, UnsealedStep, SwitchStep, NamedStep,
       ReturnedStep, AgreeStep DEF IInv
<1> QED
  BY <1>1, <1>2, PTL DEF Spec

\* Every variable keeps its type.
THEOREM ReaderTyped == Spec => []TypeOK
<1>1. IInv => TypeOK
  BY DEF IInv
<1> QED
  BY <1>1, ReaderInductive, PTL

\* No pointer, and no answer of a lookup, names a generation that is not
\* there or, for the current reader, that is incomplete.
THEOREM PointersNamePublished == Spec => []NamedIsPublished
<1>1. IInv => NamedIsPublished
  BY DEF IInv
<1> QED
  BY <1>1, ReaderInductive, PTL

\* All builds of one key that were returned are the same.
THEOREM Reproducible == Spec => []OneBuildPerKey
<1>1. IInv => OneBuildPerKey
  BY DEF IInv
<1> QED
  BY <1>1, ReaderInductive, PTL

\* The two current pointers are moved together.
THEOREM MovedTogether == Spec => []SwitchedTogether
<1>1. IInv => SwitchedTogether
  BY DEF IInv
<1> QED
  BY <1>1, ReaderInductive, PTL

\* Unless a publication was cut off, the two pointers agree whenever nobody
\* holds the lock.
THEOREM PointersAgree == Spec => []AgreeUnlessCut
<1>1. IInv => AgreeUnlessCut
  BY DEF IInv, AgreeUnlessCut, AgreeUnlessHalf, LockInv, Publishing
<1> QED
  BY <1>1, ReaderInductive, PTL

\* The program never removes or rewrites a generation that is named.
THEOREM NamedImmutable == Spec => NamedStays
<1> DEFINE Stays ==
      \A k \in Named :
        \/ generation'[k] = generation[k]
        \/ /\ k \in Damageable
           /\ generation'[k] = [claim |-> generation[k].claim, tree |-> Damaged]
<1>1. IInv /\ [Next]_vars => Stays
  <2> SUFFICES ASSUME IInv, [Next]_vars PROVE Stays
    OBVIOUS
  <2>0. TypeOK /\ BuildInv /\ Named \subseteq Keys
    BY DEF IInv, TypeOK, Named, Current, KeyOrNone
  <2>1. ASSUME NEW p \in Procs, Rename(p)
        PROVE  Stays
    BY <2>0, <2>1, RenameChanges DEF IInv, NamedIsPublished
  <2>2. ASSUME NEW p \in Procs, SealFails(p)
        PROVE  Stays
    BY <2>0, <2>2 DEF IInv, UnsealedInv, SealFails, TypeOK
  <2>3. ASSUME NEW k \in Keys, Damage(k)
        PROVE  Stays
    BY <2>0, <2>3, DamageChanges DEF Damage
  <2>4. ASSUME NEW p \in Procs, Ending(p)
        PROVE  Stays
    BY <2>0, <2>4, EndingChanges
  <2> QED
    BY <2>1, <2>2, <2>3, <2>4, Cases
       DEF Build, Lock, Seal, Reuse, LinkCapture, SwitchCurrent, WriteCanonical,
           WriteCanonicalFails, LinkFails, StartLookup, FinishLookup, vars, treeVars
<1> QED
  BY <1>1, ReaderInductive, PTL DEF Spec, NamedStays

\* Pointers that disagree are not moved.
THEOREM DisagreementStays == Spec => RefusesDisagreement
<1> DEFINE Refuses ==
      canonical # NoKey /\ canonical # current
      /\ (\A p \in Procs : pc[p] # "half")
      => UNCHANGED <<canonical, current>>
<1>1. IInv /\ [Next]_vars => Refuses
  <2> SUFFICES ASSUME IInv, [Next]_vars PROVE Refuses
    OBVIOUS
  <2>0. TypeOK /\ BuildInv
    BY DEF IInv
  <2>1. ASSUME NEW p \in Procs, Ending(p)
        PROVE  Refuses
    BY <2>0, <2>1, EndingChanges
  <2>2. ASSUME NEW p \in Procs,
               SwitchCurrent(p) \/ WriteCanonical(p) \/ WriteCanonicalFails(p)
        PROVE  Refuses
    BY <2>2 DEF SwitchCurrent, WriteCanonical, WriteCanonicalFails, CurrentOk,
                Transition
  <2> QED
    BY <2>1, <2>2, Cases
       DEF Build, Lock, Rename, Seal, SealFails, Reuse, LinkCapture, LinkFails,
           Damage, StartLookup, FinishLookup, vars
<1> QED
  BY <1>1, ReaderInductive, PTL DEF Spec, RefusesDisagreement
=============================================================================
