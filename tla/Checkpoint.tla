----------------------------- MODULE Checkpoint -----------------------------
(***************************************************************************)
(* What the discovery database promises to whoever opens it next, with no  *)
(* word on transactions, retries or caches: a set of found domains that    *)
(* grows, and a set of files that are done, each only once everything in   *)
(* it has been found, and for good.  Only a fresh start, or a machine that *)
(* loses power, takes anything back, and even then a file that is still    *)
(* done has all its domains.                                               *)
(***************************************************************************)
CONSTANTS Domain,       \* the domain names
          File,         \* the index files
          Contents,     \* the domains of each file
          MayLose       \* whether the machine may lose power

VARIABLES found, done

Init == found = {} /\ done = {}

Find == /\ \E more \in SUBSET Domain : found' = found \cup more
        /\ UNCHANGED done

Complete == /\ \E f \in File \ done : /\ Contents[f] \subseteq found
                                      /\ done' = done \cup {f}
            /\ UNCHANGED found

StartFresh == found' = {} /\ done' = {}

Lose ==
    /\ MayLose
    /\ found' \in SUBSET found
    /\ done' \in SUBSET done
    /\ \A f \in done' : Contents[f] \subseteq found'

Next == Find \/ Complete \/ StartFresh \/ Lose

Spec == Init /\ [][Next]_<<found, done>>
=============================================================================
