----------------------------- MODULE JobPromise -----------------------------
(***************************************************************************)
(* What the worker promises about one job, seen from outside: the status a *)
(* client reads and whether the job's process lives.  Goroutines, copies   *)
(* of the record, signals and timeouts are not visible here.               *)
(*                                                                         *)
(* It is the promise the code keeps: a launch that was given up may still  *)
(* start a process, and a final status may be replaced by another one.     *)
(***************************************************************************)
EXTENDS JobDomain

VARIABLES
    status,  \* "none" before the job is accepted, then its JobStatus
    process  \* "none", "live" or "over"

vars == <<status, process>>

Init == status = "none" /\ process = "none"

Accept ==
    /\ status = "none"
    /\ status' = Initializing
    /\ UNCHANGED process

\* One process per job, of an accepted job, at most once.
Launch ==
    /\ process = "none"
    /\ status \in {Initializing, Failed}
    /\ process' = "live"
    /\ UNCHANGED status

Exit ==
    /\ process = "live"
    /\ process' = "over"
    /\ UNCHANGED status

\* RUNNING is never shown before there is a process.
Run ==
    /\ status = Initializing
    /\ process # "none"
    /\ status' = Running
    /\ UNCHANGED process

GiveUp ==
    /\ status = Initializing
    /\ status' = Failed
    /\ UNCHANGED process

\* COMPLETED and STOPPED are recorded only once the process has ended; FAILED
\* may be recorded while it is being killed.
Conclude ==
    /\ status \in {Running} \cup FinalStatus
    /\ status' \in FinalStatus
    /\ status' # Failed => process = "over"
    /\ UNCHANGED process

Next == Accept \/ Launch \/ Exit \/ Run \/ GiveUp \/ Conclude

Safe == Init /\ [][Next]_vars

\* A start comes to an end, and so does the record of a process that has ended.
Live ==
    /\ status = Initializing ~> status # Initializing
    /\ process = "over" ~> status \in FinalStatus

Spec == Safe /\ Live
=============================================================================
