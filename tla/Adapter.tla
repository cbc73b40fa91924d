------------------------------- MODULE Adapter -------------------------------
(***************************************************************************)
(* invoke_adapter as validation and reader generation call it: a snapshot  *)
(* of the recipe (RecipeBundle), then the worker that runs it              *)
(* (AdapterProcess).                                                       *)
(***************************************************************************)
EXTENDS RecipeBundle, AdapterProcess

vars == <<bundleVars, processVars>>

Init == BundleInit /\ ProcessInit

\* _verified_source: the worker reads the adapter again, from the snapshot.
SourceVerified == copied[Adapter] = digest

\* The worker is started in the snapshot.  What the scans left behind is out
\* of scope from here on; of the snapshot the worker reads the adapter.
Launch ==
  /\ Move("launched", "run")
  /\ \/ \E r \in Requests : Spawn(r)
     \/ SpawnFails
  /\ copied' = [Nothing EXCEPT ![Adapter] = copied[Adapter]]
  /\ purpose' = "run" /\ origin' = "recipe" /\ selected' = FALSE
  /\ dir' = Nothing /\ edits' = 0
  /\ first' = Nothing /\ second' = Nothing
  /\ moment' = Nothing /\ seen' = Nothing
  /\ UNCHANGED <<ahead, listing, open, digest>>

Process == /\ stage = "run"
           /\ \/ Supervise \/ Interrupt \/ WorkerActs \/ Drain \/ Die \/ Tick
              \/ ReadRequest(SourceVerified)
           /\ UNCHANGED bundleVars

Next == \/ BundleNext /\ UNCHANGED processVars
        \/ Launch
        \/ Process

Spec == Init /\ [][Next]_vars

\* The program goes on, time passes, and the system ends a killed process; the
\* worker gets as far as reading its request.  Of the adapter nothing is
\* assumed.
FairSpec ==
  /\ Spec
  /\ WF_vars(Supervise /\ UNCHANGED bundleVars)
  /\ WF_vars(Tick /\ UNCHANGED bundleVars)
  /\ WF_vars(Die /\ UNCHANGED bundleVars)

\* An invocation comes to an end whatever the adapter does: it may run for
\* ever, ignore SIGTERM, flood its pipe or leave a process behind.
CallEnds == (pc = "sending") ~> (pc \in ProcessEnds)
=============================================================================
