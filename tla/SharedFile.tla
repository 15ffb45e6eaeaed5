----------------------------- MODULE SharedFile -----------------------------
(***************************************************************************)
(* What processes that share a cache directory may count on for one file   *)
(* of it: it appears complete, in one step, under its name; and a process  *)
(* that has opened it reads what it opened, whatever becomes of the name.  *)
(***************************************************************************)
CONSTANTS Proc,     \* the processes
          Complete, \* what a finished download may hold
          Absent    \* there is no file

VARIABLES file,     \* what is behind the name
          view      \* what each process reads

vars == <<file, view>>

Init ==
    /\ file \in Complete \cup {Absent}
    /\ view = [p \in Proc |-> Absent]

Publish == file' \in Complete /\ UNCHANGED view

Unlink == file' = Absent /\ UNCHANGED view

Read(p) ==
    /\ file # Absent
    /\ view' = [view EXCEPT ![p] = file]
    /\ UNCHANGED file

Close(p) == view' = [view EXCEPT ![p] = Absent] /\ UNCHANGED file

Next == Publish \/ Unlink \/ \E p \in Proc : Read(p) \/ Close(p)

Spec == Init /\ [][Next]_vars
=============================================================================
