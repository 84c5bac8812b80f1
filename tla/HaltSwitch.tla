------------------------------ MODULE HaltSwitch ------------------------------
(***************************************************************************)
(* What a pause or stop of the execution promises, whoever asks for it and *)
(* however often the program ends: once it is in force, it stays in force  *)
(* until the user lifts it.                                                *)
(***************************************************************************)

VARIABLES
  up,      \* the program runs
  closed,  \* no agent may be started
  stored,  \* what the database says: "Running", "Paused" or "Stopped"
  held     \* the user's pause or stop is in force

vars == <<up, closed, stored, held>>

Init ==
  /\ up = FALSE /\ closed = FALSE
  /\ stored = "Running"
  /\ held = FALSE

\* Somebody closes the switch, in memory or in the database.
Close ==
  /\ \/ up /\ closed' = TRUE /\ UNCHANGED stored
     \/ stored' \in {"Paused", "Stopped"} /\ UNCHANGED closed
  /\ UNCHANGED <<up, held>>

\* The user's halt is in force: only once the switch is closed in both places.
Hold ==
  /\ up /\ closed /\ stored # "Running"
  /\ held' = TRUE
  /\ UNCHANGED <<up, closed, stored>>

\* The user lifts it, and only then may the switch be opened.
Lift == held' = FALSE /\ UNCHANGED <<up, closed, stored>>

Open ==
  /\ ~held
  /\ \/ closed' = FALSE /\ UNCHANGED stored
     \/ stored' = "Running" /\ UNCHANGED closed
  /\ UNCHANGED <<up, held>>

\* The program forgets what it has in memory and starts from the database.
Down == up' = FALSE /\ closed' = FALSE /\ UNCHANGED <<stored, held>>

Up ==
  /\ ~up /\ up' = TRUE
  /\ closed' = (stored # "Running")
  /\ UNCHANGED <<stored, held>>

Next == Close \/ Hold \/ Lift \/ Open \/ Down \/ Up

Spec == Init /\ [][Next]_vars
===============================================================================
