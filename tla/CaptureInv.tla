---------------------------- MODULE CaptureInv ----------------------------
(***************************************************************************)
(* The inductive invariant of Capture.  The pointer properties are not     *)
(* inductive: that a pointer is moved to a sealed, verified capture of the *)
(* right kind depends on what the invocation that moves it has done since  *)
(* it took the lock, and on nobody else touching its directory.            *)
(***************************************************************************)
EXTENDS Capture

\* Who is past the lock holds it, and nobody else does.
LockInv == \A p \in Procs : pc[p] \in Locked <=> lock = p

\* A capture directory has one invocation that created it.
OwnerInv ==
  /\ \A p \in Procs : Owning(p) => status[cap[p]] # "absent"
  /\ \A p, q \in Procs : Owning(p) /\ Owning(q) /\ cap[p] = cap[q] => p = q

\* Nothing is reported before the capture is opened, and only a capture that
\* exists is sealed.
FreshInv ==
  \A c \in Ids :
    /\ status[c] \in {"absent", "empty"} => results[c] = NothingReported
    /\ status[c] = "absent" => ~ Sealed(c) /\ c \notin temporary

AskInv == \A p \in Procs : pc[p] # "idle" => ask[p] \in Requests

Finished  == {"sealing", "linked", "syncing", "verifying", "pointing",
              "replacing", "returned"}
AfterLink == Finished \ {"sealing"}
AfterSync == AfterLink \ {"linked"}

\* How far the directory of an invocation is, given how far the invocation is.
Stage(p) ==
  LET c == cap[p] IN
    /\ pc[p] = "opening" => status[c] = "empty"
    /\ pc[p] \in {"setup", "sources"} => status[c] = "running"
    /\ pc[p] \in {"opening", "setup", "sources", "sealing"} =>
         ~ Sealed(c) /\ c \notin temporary
    /\ pc[p] \in {"setup", "sources"} \union Finished =>
         /\ scope[c] = ask[p]
         /\ Reported(results[c]) \subseteq ask[p].selected
    /\ pc[p] \in Finished =>
         /\ Reported(results[c]) = ask[p].selected
         /\ status[c] = AggregateStatus(results[c], Required)
    /\ pc[p] \in AfterLink => manifest[c] = status[c]
    /\ pc[p] \in AfterSync => c \notin temporary

StageInv == \A p \in Procs : Stage(p)

\* What an invocation has decided about the pointers is still right.
Decided(p) ==
  /\ pc[p] \in {"pointing", "replacing"} => todo[p] \subseteq PointersToMove(p)
  /\ pc[p] = "replacing" => naming[p] \in todo[p]

TodoInv == \A p \in Procs : Decided(p)

\* An invocation that is here changes its capture directory no more.
Settled == {"pointing", "replacing", "returned", "stopped"}

\* A capture that a pointer names is sealed, is what the name stands for, and
\* is left alone by the invocation that made it.
PointerInv ==
  \A n \in Names :
    LET c == pointer[n] IN
      c # NoCapture =>
        /\ Sealed(c) /\ manifest[c] = status[c] /\ c \notin temporary
        /\ Fits(c, n)
        /\ n = Acquired => scope[c].full
        /\ \A p \in Procs :
             Owning(p) /\ cap[p] = c =>
               pc[p] \in Settled

\* The pointer that is about to be replaced may be replaced.
ChoiceInv ==
  \A p \in Procs : pc[p] = "replacing" => ~ Keeps(cap[p], naming[p])

\* A pointer that an invocation has considered names its capture, or one that
\* is not older; so does every pointer of an invocation that has returned.
Named(p) ==
  /\ pc[p] = "returned" => todo[p] = {}
  /\ damaged = {} =>
       \A n \in PointersToMove(p) \ todo[p] :
         pointer[n] # NoCapture /\ Stamp[pointer[n]] >= Stamp[cap[p]]

NamedInv ==
  \A p \in Procs : pc[p] \in {"pointing", "replacing", "returned"} => Named(p)

IInv == /\ TypeOK /\ LockInv /\ OwnerInv /\ FreshInv /\ AskInv
        /\ StageInv /\ TodoInv /\ PointerInv /\ ChoiceInv
=============================================================================
