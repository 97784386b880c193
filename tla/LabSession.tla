------------------------------ MODULE LabSession ------------------------------
(* What `kates lab` promises its user, whatever the order in which the      *)
(* answers of its background requests come in: one measurement at a time,   *)
(* never of a run that was given up, and an end to every one.               *)
VARIABLES
    busy,       \* is a measurement, or a series of them, under way
    measured,   \* the runs whose results the lab holds
    givenUp     \* the runs it has asked the API to cancel

session == <<busy, measured, givenUp>>

SessionInit ==
    /\ ~busy
    /\ measured = {}
    /\ givenUp = {}

Start ==
    /\ ~busy /\ busy'
    /\ measured' \subseteq measured
    /\ UNCHANGED givenUp

\* A result comes in: of one run, and of one that was not given up.
Record ==
    /\ busy
    /\ \E r \in measured' \ measured :
          /\ r \notin givenUp
          /\ measured' \subseteq measured \cup {r}
    /\ busy' \in BOOLEAN
    /\ UNCHANGED givenUp

\* The measurement ends, with an error or with the median of what it has.
End ==
    /\ busy /\ ~busy'
    /\ measured' \subseteq measured
    /\ UNCHANGED givenUp

\* The user cancels or quits, or a run turns out to be no longer wanted.
GiveUp ==
    /\ givenUp \subseteq givenUp'
    /\ measured' \subseteq measured
    /\ busy' => busy

SessionNext == Start \/ Record \/ End \/ GiveUp

EveryMeasurementEnds == busy ~> ~busy

InTurn == SessionInit /\ [][SessionNext]_session

Session == InTurn /\ EveryMeasurementEnds
===============================================================================
