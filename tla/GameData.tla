------------------------------ MODULE GameData ------------------------------
(***************************************************************************)
(* GET /v1/game-data, for one section: the worlds.  The rows and the time  *)
(* of the section are read by two statements, and an app writes over its   *)
(* copy only when the time is another than that of its copy.               *)
(***************************************************************************)
EXTENDS Lists

CONSTANT MaxTime   \* bound: how often the section's time moves

VARIABLES
  updatedAt,   \* the section's row of game_data_sections
  reading,     \* what snapshot has read, or NoCall
  copy         \* the app's copy: [updatedAt, rows]

readerVars == <<reading, copy>>
others     == <<assets, mvpGrades, huntLoot, cashbook, faqs, files, crops>>
vars       == <<base, worlds, others, updatedAt, readerVars>>

Init ==
  /\ CatalogueInit /\ ListsInit
  /\ updatedAt = 0 /\ reading = NoCall /\ copy = [updatedAt |-> 0, rows |-> <<>>]

\* touchSection, in the transaction of the change.
Write ==
  /\ WorldsNext /\ UNCHANGED <<mvpGrades, huntLoot, cashbook, faqs, files, crops, readerVars>>
  /\ updatedAt' = IF "worlds" \in answer'.touched THEN updatedAt + 1 ELSE updatedAt
  /\ updatedAt' <= MaxTime

ReadRows ==
  /\ reading = NoCall /\ reading' = [rows |-> WorldsSection]
  /\ UNCHANGED <<base, worlds, others, updatedAt, copy>>

\* sectionUpdatedAt, and the answer.  A body the app has already (ETag, 304) changes nothing.
ReadTime ==
  /\ reading # NoCall /\ reading' = NoCall
  /\ copy' = IF updatedAt = copy.updatedAt THEN copy
             ELSE [updatedAt |-> updatedAt, rows |-> reading.rows]
  /\ UNCHANGED <<base, worlds, others, updatedAt>>

Next == Write \/ ReadRows \/ ReadTime
Spec == Init /\ [][Next]_vars

-----------------------------------------------------------------------------
\* What an administrator changed reaches an app at once: an app whose copy has the time of the
\* section has its rows.  Otherwise it never asks for them again.
CopyIsOfItsTime == copy.updatedAt = updatedAt => copy.rows = WorldsSection

=============================================================================
