-------------------------- MODULE PointerRegister --------------------------
(***************************************************************************)
(* What the capture pointers of one collection promise their readers.      *)
(*                                                                         *)
(* A register per pointer name holds the identifier of a capture.  A       *)
(* capture is granted a name once, when it is committed with the evidence  *)
(* the name stands for; it may later be lost (its bytes no longer match    *)
(* its manifest).  A register moves only to a capture that was granted its *)
(* name, and leaves an intact capture only for one that is not older.      *)
(***************************************************************************)
EXTENDS Naturals

CONSTANTS
  Names,      \* pointer names
  Ids,        \* capture identifiers
  Stamp,      \* the timestamp in a capture identifier
  NoCapture   \* the value of a pointer that does not exist

VARIABLES
  granted,    \* granted[n]: the captures that were committed as fit for n
  lost,       \* captures whose bytes no longer match their manifest
  latest      \* latest[n]: the capture the pointer n names

registerVars == <<granted, lost, latest>>

RegisterInit ==
  /\ granted = [n \in Names |-> {}]
  /\ lost = {}
  /\ latest = [n \in Names |-> NoCapture]

\* A capture is committed, fit for the names in N; it may be spoiled by the
\* very step that commits it.
Commit(c, N) ==
  /\ granted' = [n \in Names |-> IF n \in N THEN granted[n] \union {c}
                                            ELSE granted[n]]
  /\ lost' = lost \/ lost' = lost \union {c}
  /\ UNCHANGED latest

Lose(c) ==
  /\ lost' = lost \union {c}
  /\ UNCHANGED <<granted, latest>>

Advance(n, c) ==
  /\ c \in granted[n]
  /\ \/ latest[n] = NoCapture
     \/ latest[n] \in lost
     \/ Stamp[latest[n]] <= Stamp[c]
  /\ latest' = [latest EXCEPT ![n] = c]
  /\ UNCHANGED <<granted, lost>>

RegisterNext ==
  \E c \in Ids :
    \/ \E N \in SUBSET Names : Commit(c, N)
    \/ Lose(c)
    \/ \E n \in Names : Advance(n, c)

RegisterSpec == RegisterInit /\ [][RegisterNext]_registerVars
=============================================================================
