------------------------------- MODULE Reports -------------------------------
(***************************************************************************)
(* What a worker and the GCS promise about the results of tasks, without   *)
(* threads, channels or connections: a result is stored once and is from   *)
(* then on to be reported; its report is noted by the GCS or missed, one of*)
(* the two and once.  Nothing is reported that is not stored.              *)
(*                                                                         *)
(* Worker is shown to implement this module.                               *)
(***************************************************************************)
CONSTANT Results         \* what tasks may come to

VARIABLES stored,        \* the results in the worker's storage
          underWay,      \* those whose report is neither noted nor missed yet
          known,         \* those the GCS has a location for
          missed         \* those whose report never reaches the GCS's map

reportsVars == <<stored, underWay, known, missed>>

ReportsInit == stored = {} /\ underWay = {} /\ known = {} /\ missed = {}

Store ==
    \E o \in Results \ stored :
        /\ stored' = stored \cup {o}
        /\ underWay' = underWay \cup {o}
        /\ UNCHANGED <<known, missed>>

Note ==
    \E o \in underWay :
        /\ underWay' = underWay \ {o}
        /\ known' = known \cup {o}
        /\ UNCHANGED <<stored, missed>>

\* A connection that closes takes all reports with it that are on it.
Miss ==
    \E S \in SUBSET underWay :
        /\ underWay' = underWay \ S
        /\ missed' = missed \cup S
        /\ UNCHANGED <<stored, known>>

ReportsNext == Store \/ Note \/ Miss

ReportsSpec == ReportsInit /\ [][ReportsNext]_reportsVars

\* Each stored result is in exactly one of the three places.
OnePlace ==
    /\ stored = underWay \cup known \cup missed
    /\ underWay \cap known = {} /\ underWay \cap missed = {} /\ known \cap missed = {}

=============================================================================
