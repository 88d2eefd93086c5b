----------------------------- MODULE ServedModel ----------------------------
(***************************************************************************)
(* What the weekly refresh promises whoever reads a rating.  The model     *)
(* that is served is one whole build, with a section for every tour whose  *)
(* matches were at hand, and as long as it is served it is the same one.   *)
(* The file is torn while a build is written; nobody is served from it.    *)
(***************************************************************************)
CONSTANTS
  Nil,       \* no file, no model
  Torn,      \* a file that is being written, or was left half-written
  Tours,
  Dates      \* of the newest match of a section; Nil without a section

VARIABLES
  known,     \* the tours that matches are at hand of; none is ever forgotten
  file,      \* the last build
  served     \* the model that is served

Builds == {model \in [Tours -> Dates] : \A t \in Tours : model[t] # Nil <=> t \in known}

Init ==
  /\ known \in SUBSET Tours
  /\ IF known = {} THEN file = Nil ELSE file \in Builds
  /\ served = Nil

Learn ==
  /\ known \subseteq known' /\ known' \in SUBSET Tours
  /\ UNCHANGED <<file, served>>

Open == known # {} /\ file' = Torn /\ UNCHANGED <<known, served>>

Write == file = Torn /\ file' \in Builds /\ UNCHANGED <<known, served>>

Start ==
  /\ served = Nil /\ file \notin {Nil, Torn}
  /\ served' = file
  /\ UNCHANGED <<known, file>>

Stop == served' = Nil /\ UNCHANGED <<known, file>>

Next == Learn \/ Open \/ Write \/ Start \/ Stop

Spec == Init /\ [][Next]_<<known, file, served>>
=============================================================================
