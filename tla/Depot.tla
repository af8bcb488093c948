-------------------------------- MODULE Depot ---------------------------------
(***************************************************************************)
(* What the step directories promise the user: a depot of completed runs.  *)
(* A directory holds one at most; a spawn moves it aside before it starts, *)
(* a signalled teardown puts its own run in; neither is ever seen half     *)
(* done, and no run leaves unless the user takes its directory over or a   *)
(* spawn dies while it rewrites the config there.                          *)
(***************************************************************************)
CONSTANTS
  Steps,  \* those with directories a run is completed in
  Runs,
  None    \* no run

VARIABLES
  held,     \* the completed run each directory holds
  attic,    \* those moved aside
  promised  \* every run the user was told is complete

vars == <<held, attic, promised>>

Init == held = [s \in Steps |-> None] /\ attic = {} /\ promised = {}

\* A spawn of s begins.
Aside(s) ==
  /\ held[s] # None
  /\ held' = [held EXCEPT ![s] = None]
  /\ attic' = attic \cup {held[s]}
  /\ UNCHANGED promised

\* The teardown of r is completed.
Complete(s, r) ==
  /\ held[s] = None /\ r \notin promised
  /\ held' = [held EXCEPT ![s] = r]
  /\ promised' = promised \cup {r}
  /\ UNCHANGED attic

\* A bundle of r is unpacked where its directory was moved aside.
Restore(s, r) ==
  /\ held[s] = None /\ r \in attic
  /\ held' = [held EXCEPT ![s] = r]
  /\ UNCHANGED <<attic, promised>>

\* A helper command is run on a directory of r.
TakeOver(r) ==
  /\ r \in promised
  /\ promised' = promised \ {r}
  /\ attic' = attic \ {r}
  /\ held' = [s \in Steps |-> IF held[s] = r THEN None ELSE held[s]]

\* A spawn from s dies in the rewriting of its config.
Spoil(s) == held[s] # None /\ TakeOver(held[s])

\* The user goes on elsewhere.
Leave == held' = [s \in Steps |-> None] /\ attic' = {} /\ promised' = {}

Next ==
  \/ \E s \in Steps : Aside(s) \/ Spoil(s)
  \/ \E s \in Steps, r \in Runs : Complete(s, r) \/ Restore(s, r)
  \/ \E r \in Runs : TakeOver(r)
  \/ Leave

Spec == Init /\ [][Next]_vars

\* Nothing promised is lost.
AllKept == promised = attic \cup ({held[s] : s \in Steps} \ {None})

=============================================================================
