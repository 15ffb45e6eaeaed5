--------------------------- MODULE CDXCacheProofs ---------------------------
(***************************************************************************)
(* For any number of processes and any combination of troubles, the cache  *)
(* directory keeps the promise of SharedFile.  The type invariant is not   *)
(* enough: that what is renamed onto the final name is complete follows    *)
(* from what a process has downloaded, step by step on the way there.      *)
(***************************************************************************)
EXTENDS CDXCache, TLAPS

\* What a process is about to move is complete, and so is what it is about to
\* publish under a name that is its own.
OnTheWay ==
    \A p \in Proc :
        /\ pc[p] \in {"clear", "move", "copy"} => fetched[p] \in Complete
        /\ pc[p] = "publish" => tmp[p] \in Complete

\* A process at work is in its first or its second attempt.
TwoAttempts ==
    \A p \in Proc : pc[p] \notin {"ready", "done", "failed"} => attempt[p] \in 1..2

CacheInv == CacheTypeOK /\ OnTheWay /\ TwoAttempts

-----------------------------------------------------------------------------

LEMMA CacheInit == Init => CacheInv
  BY DEF Init, CacheInv, CacheTypeOK, OnTheWay, TwoAttempts, Complete, Content, None

\* The types of what a process has of its own, after one of its steps.
LEMMA UseTypes ==
    ASSUME CacheInv, NEW p \in Proc, Start(p) \/ Use(p) \/ Crash(p), UNCHANGED setting
    PROVE  CacheTypeOK'
  <1> USE DEF CacheInv, CacheTypeOK, Goto, Leaves, SetTmp, TmpOf, Content, None, setting
  <1>1. CASE Look(p) \/ OpenFileFails(p)
    BY <1>1 DEF Look, OpenFileFails
  <1>8. CASE OpenFile(p)
    <2>1. (pc[p] = "open") \in BOOLEAN
      OBVIOUS
    <2>2. found' \in [Proc -> BOOLEAN]
      BY <1>8, <2>1, Zenon DEF OpenFile
    <2> QED BY <1>8, <2>2 DEF OpenFile
  <1>2. CASE Fetch(p) \/ FetchFails(p)
    BY <1>2 DEF Fetch, FetchFails, Complete
  <1>3. CASE Clear(p) \/ MoveRename(p) \/ CopyBegins(p) \/ CopyEnds(p) \/ MoveFails(p)
    BY <1>3 DEF Clear, MoveRename, CopyBegins, CopyEnds, MoveFails, DropTmp
  <1>4. CASE Publish(p) \/ PublishFails(p)
    BY <1>4 DEF Publish, PublishFails, DropTmp, OnTheWay
  <1>5. CASE Scan(p) \/ ScanFails(p)
    BY <1>5 DEF Scan, ScanFails
  <1>6. CASE Remove(p)
    BY <1>6 DEF Remove, RemoveCached, TwoAttempts
  <1>7. CASE Start(p) \/ Crash(p)
    BY <1>7 DEF Start, Crash
  <1> QED BY <1>1, <1>2, <1>3, <1>4, <1>5, <1>6, <1>7, <1>8 DEF Use, Download, Local

LEMMA UseOnTheWay ==
    ASSUME CacheInv, NEW p \in Proc, Start(p) \/ Use(p) \/ Crash(p)
    PROVE  OnTheWay'
  <1> USE DEF CacheInv, CacheTypeOK, OnTheWay, Goto, Leaves, SetTmp, TmpOf, Complete, None
  <1>1. CASE Look(p) \/ OpenFile(p) \/ OpenFileFails(p)
    BY <1>1 DEF Look, OpenFile, OpenFileFails
  <1>2. CASE Fetch(p) \/ FetchFails(p)
    BY <1>2 DEF Fetch, FetchFails
  <1>3. CASE Clear(p) \/ MoveRename(p) \/ CopyBegins(p) \/ CopyEnds(p) \/ MoveFails(p)
    BY <1>3 DEF Clear, MoveRename, CopyBegins, CopyEnds, MoveFails, DropTmp
  <1>4. CASE Publish(p) \/ PublishFails(p) \/ Scan(p) \/ ScanFails(p)
    BY <1>4 DEF Publish, PublishFails, DropTmp, Scan, ScanFails
  <1>5. CASE Remove(p) \/ Start(p) \/ Crash(p)
    BY <1>5 DEF Remove, Start, Crash
  <1> QED BY <1>1, <1>2, <1>3, <1>4, <1>5 DEF Use, Download, Local

LEMMA UseAttempts ==
    ASSUME CacheInv, NEW p \in Proc, Start(p) \/ Use(p) \/ Crash(p)
    PROVE  TwoAttempts'
  <1> USE DEF CacheInv, CacheTypeOK, TwoAttempts, Goto, Leaves
  <1>1. CASE Look(p) \/ OpenFile(p) \/ OpenFileFails(p)
    BY <1>1 DEF Look, OpenFile, OpenFileFails
  <1>2. CASE Fetch(p) \/ FetchFails(p)
    BY <1>2 DEF Fetch, FetchFails
  <1>3. CASE Clear(p) \/ MoveRename(p) \/ CopyBegins(p) \/ CopyEnds(p) \/ MoveFails(p)
    BY <1>3 DEF Clear, MoveRename, CopyBegins, CopyEnds, MoveFails, DropTmp
  <1>4. CASE Publish(p) \/ PublishFails(p) \/ Scan(p) \/ ScanFails(p)
    BY <1>4 DEF Publish, PublishFails, DropTmp, Scan, ScanFails
  <1>5. CASE Remove(p)
    BY <1>5 DEF Remove
  <1>6. CASE Start(p) \/ Crash(p)
    BY <1>6 DEF Start, Crash
  <1> QED BY <1>1, <1>2, <1>3, <1>4, <1>5, <1>6 DEF Use, Download, Local

LEMMA CacheStep == CacheInv /\ [Next]_vars => CacheInv'
  <1> SUFFICES ASSUME CacheInv, [Next]_vars PROVE CacheInv'
    OBVIOUS
  <1>1. CASE Next
    BY <1>1, UseTypes, UseOnTheWay, UseAttempts DEF Next, CacheInv
  <1>2. CASE UNCHANGED vars
    BY <1>2 DEF vars, setting, CacheInv, CacheTypeOK, OnTheWay, TwoAttempts
  <1> QED BY <1>1, <1>2

\* The invariant of the cache: types, complete files on their way, two attempts.
THEOREM CacheInvariant == Spec => []CacheInv
  BY CacheInit, CacheStep, PTL DEF Spec

\* Type correctness: nothing but complete downloads is ever under the final name,
\* and a process is never in a third attempt.
THEOREM CacheTypeCorrect == Spec => []CacheTypeOK
  <1>1. CacheInv => CacheTypeOK
    BY DEF CacheInv
  <1> QED BY <1>1, CacheInvariant, PTL

-----------------------------------------------------------------------------
(* The cache implements SharedFile. *)

\* A step of a process is a step of SharedFile, or changes nothing there.
LEMMA UseIsShared ==
    ASSUME CacheInv, NEW p \in Proc, Start(p) \/ Use(p) \/ Crash(p)
    PROVE  Shared!Next \/ UNCHANGED <<cached, held>>
  <1> USE DEF CacheInv, CacheTypeOK, Goto, Leaves, SetTmp, TmpOf
  <1>1. CASE Look(p) \/ Fetch(p) \/ Clear(p) \/ MoveRename(p) \/ CopyBegins(p) \/ CopyEnds(p) \/ Start(p)
    BY <1>1 DEF Look, Fetch, Clear, MoveRename, CopyBegins, CopyEnds, Start
  <1>2. CASE OpenFile(p)
    <2>1. Shared!Read(p)
      BY <1>2 DEF OpenFile, Shared!Read
    <2> QED BY <2>1 DEF Shared!Next
  <1>3. CASE OpenFileFails(p) \/ FetchFails(p) \/ MoveFails(p) \/ PublishFails(p)
             \/ Scan(p) \/ ScanFails(p) \/ Crash(p)
    <2>1. Shared!Close(p)
      BY <1>3 DEF OpenFileFails, FetchFails, MoveFails, PublishFails, Scan, ScanFails, Crash, Shared!Close
    <2> QED BY <2>1 DEF Shared!Next
  <1>4. CASE Publish(p)
    <2>1. Shared!Publish
      BY <1>4 DEF Publish, OnTheWay, Shared!Publish
    <2> QED BY <2>1 DEF Shared!Next
  <1>5. CASE Remove(p)
    <2>1. Shared!Unlink \/ UNCHANGED <<cached, held>>
      BY <1>5 DEF Remove, RemoveCached, Shared!Unlink
    <2> QED BY <2>1 DEF Shared!Next
  <1> QED BY <1>1, <1>2, <1>3, <1>4, <1>5 DEF Use, Download, Local

\* No copy in progress is ever under the final name nor read by anybody, for any
\* number of processes that crash, fail and delete each other's copies at will.
THEOREM CacheKeepsShared == Spec => KeepsShared
  <1>1. Init => Shared!Init
    BY DEF Init, Shared!Init, Complete, None
  <1>2. CacheInv /\ [Next]_vars => [Shared!Next]_(Shared!vars)
    <2> SUFFICES ASSUME CacheInv, [Next]_vars PROVE [Shared!Next]_(Shared!vars)
      OBVIOUS
    <2>1. CASE Next
      BY <2>1, UseIsShared DEF Next, Shared!vars
    <2>2. CASE UNCHANGED vars
      BY <2>2 DEF vars, Shared!vars
    <2> QED BY <2>1, <2>2
  <1> QED BY <1>1, <1>2, CacheInvariant, PTL DEF Spec, KeepsShared, Shared!Spec

-----------------------------------------------------------------------------
(* Somebody scans the file. *)

\* Nothing goes wrong but the overlap of the processes.
Quiet == trouble \subseteq {"devices"}

\* Every download is whole, and a process moves it onto a name it has cleared.
WholeDownloads ==
    \A p \in Proc :
        /\ fetched[p] \in {None, "whole"}
        /\ pc[p] = "move" => tmp[p] = None
        /\ pc[p] = "publish" => tmp[p] = "whole"

\* A damaged copy was there from the beginning: who holds it found it and is about to
\* delete it, and until somebody does nobody gets further.
DamagedFromStart ==
    /\ cached # "empty"
    /\ \A p \in Proc :
         /\ pc[p] = "ready" => attempt[p] = 1
         /\ held[p] # None <=> pc[p] = "scan"
         /\ held[p] # "empty"
         /\ cached = "damaged" => held[p] # "whole"
         /\ held[p] = "damaged" => found[p]
         /\ cached = "damaged" => pc[p] \in {"ready", "look", "open", "scan", "remove", "failed"}

\* On Unix the first attempt is enough to delete it.
FirstAttempts ==
    platform = "unix" =>
        \A p \in Proc :
            /\ held[p] = "damaged" \/ pc[p] = "remove" => attempt[p] = 1
            /\ cached = "damaged" => attempt[p] = 1

Others(p) == Proc \ {p}

\* On Windows what is open is what is cached.  A process still about to delete it when
\* it is gone comes after one that has deleted it; and a process comes to a second
\* attempt at it only beside another one that held it, and will count an attempt too.
HeldOpen ==
    platform = "windows" =>
        \A p \in Proc :
            /\ held[p] # None => held[p] = cached
            /\ pc[p] = "remove" /\ cached # "damaged" => \E q \in Others(p) : attempt[q] > 1
            /\ attempt[p] > 1 /\ cached = "damaged" =>
                  \E q \in Others(p) : attempt[q] > 1 \/ pc[q] = "remove" \/ held[q] = "damaged"

\* The process will publish a copy before it can fail, if none is there when it looks.
WillPublish(p) ==
    \/ pc[p] \in {"look", "fetch", "clear", "move", "copy", "publish"}
    \/ attempt[p] = 1 /\ (pc[p] = "remove" \/ (pc[p] = "scan" /\ held[p] = "damaged"))

\* While there is no copy somebody will publish one, unless two have held up each other;
\* while there is one somebody has not failed, and will not fail unless it is deleted.
SomebodyGoesOn ==
    (\E p \in Proc : pc[p] # "ready") =>
        /\ cached = None => HeldUp \/ \E p \in Proc : WillPublish(p)
        /\ cached # None => \E p \in Proc : pc[p] \notin {"ready", "failed"}

QuietInv ==
    Quiet => /\ WholeDownloads
             /\ DamagedFromStart
             /\ FirstAttempts
             /\ HeldOpen
             /\ SomebodyGoesOn

LEMMA QuietInit == Init => QuietInv
  BY CacheAssumption
     DEF Init, QuietInv, WholeDownloads, DamagedFromStart, FirstAttempts, HeldOpen,
         SomebodyGoesOn, WillPublish, None

LEMMA QuietUse ==
    ASSUME CacheInv, Quiet, WholeDownloads, DamagedFromStart, FirstAttempts,
           platform \in {"unix", "windows"}, UNCHANGED setting,
           NEW p \in Proc, Start(p) \/ Use(p) \/ Crash(p)
    PROVE  WholeDownloads' /\ DamagedFromStart' /\ FirstAttempts'
  <1> USE DEF CacheInv, CacheTypeOK, Goto, Leaves, SetTmp, TmpOf, May, Quiet, None, Complete,
              OnTheWay, WholeDownloads, DamagedFromStart, FirstAttempts, setting
  <1>1. CASE Look(p) \/ OpenFileFails(p)
    BY <1>1 DEF Look, OpenFileFails
  <1>0. CASE OpenFile(p)
    <2>1. held'[p] = cached /\ pc'[p] = "scan" /\ (pc[p] = "open" => found'[p])
      BY <1>0, ZenonT(40) DEF OpenFile
    <2>2. \A q \in Proc : q # p => /\ held'[q] = held[q] /\ pc'[q] = pc[q]
                                  /\ (found[q] => found'[q])
      BY <1>0 DEF OpenFile
    <2>3. UNCHANGED <<cached, tmp, fetched, attempt, platform>>
      BY <1>0 DEF OpenFile
    <2>4. cached = "damaged" => pc[p] = "open"
      BY <1>0 DEF OpenFile
    <2> QED BY <1>0, <2>1, <2>2, <2>3, <2>4 DEF OpenFile
  <1>2. CASE Fetch(p) \/ FetchFails(p)
    BY <1>2 DEF Fetch, FetchFails
  <1>3. CASE Clear(p) \/ MoveRename(p)
    BY <1>3 DEF Clear, MoveRename, DropTmp
  <1>4. CASE CopyBegins(p) \/ CopyEnds(p)
    BY <1>4 DEF CopyBegins, CopyEnds
  <1>5. CASE MoveFails(p)
    BY <1>5 DEF MoveFails, DropTmp
  <1>6. CASE Publish(p)
    BY <1>6 DEF Publish
  <1>11. CASE PublishFails(p)
    BY <1>11 DEF PublishFails, DropTmp
  <1>7. CASE Scan(p)
    BY <1>7 DEF Scan
  <1>10. CASE ScanFails(p)
    BY <1>10 DEF ScanFails
  <1>8. CASE Remove(p)
    BY <1>8 DEF Remove, RemoveCached, Pinned
  <1>9. CASE Start(p) \/ Crash(p)
    BY <1>9 DEF Start, Crash
  <1> QED
    BY <1>0, <1>1, <1>2, <1>3, <1>4, <1>5, <1>6, <1>7, <1>8, <1>9, <1>10, <1>11
       DEF Use, Download, Local

\* What a step makes of the attempts and of the copy.
LEMMA QuietEffect ==
    ASSUME CacheInv, Quiet, WholeDownloads, DamagedFromStart,
           NEW p \in Proc, Start(p) \/ Use(p) \/ Crash(p)
    PROVE  /\ \A q \in Others(p) : pc'[q] = pc[q] /\ held'[q] = held[q] /\ attempt'[q] = attempt[q]
           /\ attempt'[p] = IF pc[p] = "remove" THEN attempt[p] + 1 ELSE attempt[p]
           /\ held'[p] # None => held'[p] = cached /\ cached' = cached
           /\ pc'[p] = "remove" => pc[p] = "scan" /\ held[p] = "damaged" /\ cached' = cached
           /\ cached' = cached \/ (pc[p] = "publish" /\ ~Pinned) \/ (pc[p] = "remove" /\ ~Pinned)
  <1> USE DEF CacheInv, CacheTypeOK, Goto, Leaves, SetTmp, TmpOf, May, Quiet, None, Complete,
              OnTheWay, TwoAttempts, WholeDownloads, DamagedFromStart, Others
  <1>1. CASE Look(p)
    BY <1>1 DEF Look
  <1>7. CASE OpenFile(p)
    <2>1. held' = [held EXCEPT ![p] = cached] /\ pc' = [pc EXCEPT ![p] = "scan"]
      BY <1>7 DEF OpenFile
    <2>2. attempt' = attempt /\ cached' = cached /\ pc[p] # "remove"
      BY <1>7 DEF OpenFile
    <2> QED BY <2>1, <2>2
  <1>8. CASE OpenFileFails(p) \/ Fetch(p) \/ FetchFails(p)
    BY <1>8 DEF OpenFileFails, Fetch, FetchFails
  <1>2. CASE Clear(p) \/ MoveRename(p) \/ CopyBegins(p) \/ CopyEnds(p) \/ MoveFails(p)
    BY <1>2 DEF Clear, MoveRename, CopyBegins, CopyEnds, MoveFails, DropTmp
  <1>3. CASE Publish(p) \/ PublishFails(p)
    BY <1>3 DEF Publish, PublishFails, DropTmp
  <1>4. CASE Scan(p) \/ ScanFails(p)
    BY <1>4 DEF Scan, ScanFails
  <1>5. CASE Remove(p)
    BY <1>5 DEF Remove, RemoveCached
  <1>6. CASE Start(p) \/ Crash(p)
    BY <1>6 DEF Start, Crash
  <1> QED BY <1>1, <1>2, <1>3, <1>4, <1>5, <1>6, <1>7, <1>8 DEF Use, Download, Local

LEMMA QuietHeldOpen ==
    ASSUME CacheInv, Quiet, WholeDownloads, DamagedFromStart, HeldOpen, UNCHANGED setting,
           NEW p \in Proc, Start(p) \/ Use(p) \/ Crash(p)
    PROVE  HeldOpen'
  <1> SUFFICES ASSUME platform = "windows", NEW r \in Proc
               PROVE  /\ held'[r] # None => held'[r] = cached'
                      /\ pc'[r] = "remove" /\ cached' # "damaged" =>
                            \E q \in Others(r) : attempt'[q] > 1
                      /\ attempt'[r] > 1 /\ cached' = "damaged" =>
                            \E q \in Others(r) :
                                attempt'[q] > 1 \/ pc'[q] = "remove" \/ held'[q] = "damaged"
    BY DEF HeldOpen, Others, setting
  <1> DEFINE Attempts == \A q \in Proc : attempt[q] \in 1..3 /\ attempt'[q] \in 1..3 /\ attempt'[q] >= attempt[q]
  <1> USE DEF Others, None
  <1>1. CacheTypeOK /\ TwoAttempts
    BY DEF CacheInv
  <1>2. Attempts
    BY <1>1, QuietEffect DEF CacheTypeOK, TwoAttempts
  <1>3. Pinned <=> \E q \in Proc : held[q] # None
    BY DEF Pinned
  <1>4. held'[r] # None => held'[r] = cached'
    BY <1>3, QuietEffect DEF HeldOpen, DamagedFromStart
  <1>5. ASSUME pc'[r] = "remove", cached' # "damaged"
        PROVE  \E q \in Others(r) : attempt'[q] > 1
    <2>1. CASE r = p
      <3>1. held[p] = "damaged" /\ cached' = cached
        BY <1>5, <2>1, QuietEffect
      <3> QED BY <1>5, <3>1 DEF HeldOpen
    <2>2. CASE r # p /\ cached = "damaged"
      <3>1. pc[p] = "remove"
        BY <1>5, <2>2, QuietEffect DEF DamagedFromStart
      <3>2. attempt'[p] > 1
        BY <1>1, <3>1, QuietEffect DEF CacheTypeOK
      <3> QED BY <2>2, <3>2
    <2>3. CASE r # p /\ cached # "damaged"
      <3>1. PICK q \in Others(r) : attempt[q] > 1
        BY <1>5, <2>3, QuietEffect DEF HeldOpen
      <3>2. attempt'[q] > 1
        BY <1>2, <3>1
      <3> QED BY <3>2
    <2> QED BY <2>1, <2>2, <2>3
  <1>6. ASSUME attempt'[r] > 1, cached' = "damaged"
        PROVE  \E q \in Others(r) : attempt'[q] > 1 \/ pc'[q] = "remove" \/ held'[q] = "damaged"
    <2>1. cached = "damaged"
      <3>1. Publish(p) => cached' # "damaged"
        BY DEF Publish, WholeDownloads, SetTmp, TmpOf
      <3>2. cached' = cached \/ Publish(p) \/ cached' = None
        BY DEF Use, Download, Local, Look, OpenFile, OpenFileFails, Fetch, FetchFails, Clear,
               MoveRename, CopyBegins, CopyEnds, MoveFails, PublishFails, Scan, ScanFails,
               Remove, RemoveCached, Start, Crash
      <3> QED BY <1>6, <3>1, <3>2
    <2>2. CASE attempt[r] > 1
      <3>1. PICK q \in Others(r) : attempt[q] > 1 \/ pc[q] = "remove" \/ held[q] = "damaged"
        BY <2>1, <2>2 DEF HeldOpen
      <3>2. CASE q # p
        BY <1>2, <3>1, <3>2, QuietEffect
      <3>3. CASE q = p
        <4>1. CASE attempt[p] > 1
          BY <1>2, <3>3, <4>1
        <4>2. CASE pc[p] = "remove"
          <5>1. attempt'[p] > 1
            BY <1>1, <4>2, QuietEffect DEF CacheTypeOK
          <5> QED BY <3>3, <5>1
        <4>3. CASE held[p] = "damaged"
          <5>1. held'[p] = "damaged" \/ pc'[p] = "remove"
            BY <4>3 DEF DamagedFromStart, Use, Download, Local, Look, OpenFile, OpenFileFails,
               Fetch, FetchFails, Clear, MoveRename, CopyBegins, CopyEnds, MoveFails, Publish,
               PublishFails, Scan, ScanFails, Remove, Start, Crash, Leaves, Goto, May, Quiet,
               CacheInv, CacheTypeOK
          <5> QED BY <3>3, <5>1
        <4> QED BY <3>1, <3>3, <4>1, <4>2, <4>3
      <3> QED BY <3>2, <3>3
    <2>3. CASE ~(attempt[r] > 1)
      <3>1. r = p /\ Remove(p) /\ pc[p] = "remove"
        BY <1>1, <1>6, <2>3, QuietEffect
           DEF CacheTypeOK, Use, Download, Local, Look, OpenFile, OpenFileFails, Fetch, FetchFails,
               Clear, MoveRename, CopyBegins, CopyEnds, MoveFails, Publish, PublishFails, Scan,
               ScanFails, Start, Crash
      <3>2. PICK q \in Proc : held[q] # None
        BY <1>3, <1>6, <3>1 DEF Remove, RemoveCached, May, Quiet
      <3>3. held[q] = "damaged" /\ q # p
        BY <2>1, <3>1, <3>2 DEF HeldOpen, DamagedFromStart
      <3> QED BY <3>1, <3>3, QuietEffect
    <2> QED BY <2>2, <2>3
  <1> QED BY <1>4, <1>5, <1>6

\* A process that fails leaves one behind that goes on, or had held it up.
LEMMA QuietSomebody ==
    ASSUME CacheInv, Quiet, WholeDownloads, DamagedFromStart, FirstAttempts, HeldOpen,
           SomebodyGoesOn, platform \in {"unix", "windows"}, UNCHANGED setting,
           NEW p \in Proc, Start(p) \/ Use(p) \/ Crash(p)
    PROVE  SomebodyGoesOn'
  <1> USE DEF Others, None
  <1>1. \A q \in Others(p) : pc'[q] = pc[q] /\ held'[q] = held[q] /\ attempt'[q] = attempt[q]
    BY QuietEffect
  <1>2. \A q \in Proc : attempt[q] \in 1..3 /\ attempt'[q] \in 1..3 /\ attempt'[q] >= attempt[q]
    BY QuietEffect DEF CacheInv, CacheTypeOK, TwoAttempts
  <1>3. ASSUME HeldUp PROVE HeldUp'
    BY <1>2, <1>3 DEF HeldUp, setting
  <1>4. pc[p] = "remove" => attempt[p] \in 1..2 /\ attempt'[p] = attempt[p] + 1
    BY QuietEffect DEF CacheInv, TwoAttempts
  <1>5. Pinned => \E q \in Proc : pc[q] = "scan" /\ cached # None
    BY DEF Pinned, HeldOpen, DamagedFromStart
  <1>6. /\ pc'[p] # "ready"
        /\ pc'[p] = "failed" => (cached = None /\ cached' = None) \/ (Pinned /\ pc[p] # "scan") \/ cached' = None
    BY DEF Use, Download, Local, Look, OpenFile, OpenFileFails, Fetch, FetchFails, Clear, MoveRename,
           CopyBegins, CopyEnds, MoveFails, Publish, PublishFails, Scan, ScanFails, Remove,
           RemoveCached, Start, Crash, CacheInv, CacheTypeOK, Goto, Leaves, SetTmp, TmpOf, May, Quiet,
           Complete, OnTheWay, WholeDownloads, DamagedFromStart
  <1>7. cached' = None /\ cached # None => pc[p] = "remove" /\ ~Pinned /\ (attempt[p] = 1 => pc'[p] = "look")
    BY DEF Use, Download, Local, Look, OpenFile, OpenFileFails, Fetch, FetchFails, Clear, MoveRename,
           CopyBegins, CopyEnds, MoveFails, Publish, PublishFails, Scan, ScanFails, Remove,
           RemoveCached, Start, Crash, CacheInv, CacheTypeOK, Goto, May, Quiet
  <1>8. cached' = None /\ (pc[p] = "ready" \/ WillPublish(p)) => WillPublish(p)'
    BY <1>5 DEF WillPublish, Use, Download, Local, Look, OpenFile, OpenFileFails, Fetch, FetchFails,
           Clear, MoveRename, CopyBegins, CopyEnds, MoveFails, Publish, PublishFails, Scan, ScanFails,
           Remove, RemoveCached, Start, Crash, CacheInv, CacheTypeOK, Goto, Leaves, SetTmp, TmpOf,
           May, Quiet, Complete, OnTheWay, WholeDownloads, DamagedFromStart
  <1>9. ASSUME cached' # None PROVE \E q \in Proc : pc'[q] \notin {"ready", "failed"}
    <2>1. CASE pc'[p] = "failed"
      <3>1. Pinned /\ pc[p] # "scan" BY <1>6, <1>9, <2>1
      <3>2. PICK q \in Proc : pc[q] = "scan" BY <1>5, <3>1
      <3> QED BY <1>1, <3>1, <3>2
    <2>2. CASE pc'[p] # "failed"
      BY <1>6, <2>2
    <2> QED BY <2>1, <2>2
  <1>10. ASSUME cached' = None PROVE HeldUp' \/ \E q \in Proc : WillPublish(q)'
    <2>1. CASE cached # None /\ attempt[p] = 1
      BY <1>7, <1>10, <2>1 DEF WillPublish
    <2>2. CASE cached # None /\ attempt[p] # 1
      <3>1. /\ pc[p] = "remove" /\ attempt[p] = 2 /\ attempt'[p] = 3
            /\ platform = "windows" /\ \A q \in Proc : held[q] = None
        <4>1. pc[p] = "remove" /\ ~Pinned BY <1>7, <1>10, <2>2
        <4>2. attempt[p] = 2 /\ attempt'[p] = 3 BY <1>4, <2>2, <4>1
        <4>3. platform = "windows" BY <2>2, <4>1 DEF FirstAttempts
        <4> QED BY <4>1, <4>2, <4>3 DEF Pinned
      <3>2. ASSUME NEW q \in Others(p), attempt[q] > 1 PROVE HeldUp'
        BY <1>2, <3>1, <3>2 DEF HeldUp, setting
      <3>3. PICK q \in Others(p) : attempt[q] > 1 \/ (cached = "damaged" /\ pc[q] = "remove")
        <4>1. CASE cached = "damaged"
          BY <3>1, <4>1 DEF HeldOpen
        <4>2. CASE cached # "damaged"
          BY <3>1, <4>2 DEF HeldOpen
        <4> QED BY <4>1, <4>2
      <3>4. CASE attempt[q] > 1
        BY <3>2, <3>4
      <3>5. CASE ~(attempt[q] > 1)
        <4>1. pc'[q] = "remove" /\ attempt'[q] = 1
          BY <1>1, <1>2, <3>3, <3>5
        <4> QED BY <4>1 DEF WillPublish
      <3> QED BY <3>4, <3>5
    <2>3. CASE pc[p] = "ready"
      BY <1>8, <1>10, <2>3
    <2>4. CASE cached = None /\ pc[p] # "ready"
      <3>1. HeldUp \/ \E q \in Proc : WillPublish(q)
        BY <2>4 DEF SomebodyGoesOn
      <3>2. ASSUME NEW q \in Proc, WillPublish(q) PROVE WillPublish(q)'
        BY <1>1, <1>8, <1>10, <3>2 DEF WillPublish
      <3> QED BY <1>3, <3>1, <3>2
    <2> QED BY <2>1, <2>2, <2>3, <2>4
  <1> QED BY <1>9, <1>10 DEF SomebodyGoesOn

LEMMA QuietStep == CacheInv /\ QuietInv /\ [Next]_vars => QuietInv'
  <1> SUFFICES ASSUME CacheInv, QuietInv, [Next]_vars PROVE QuietInv'
    OBVIOUS
  <1>1. Quiet' => Quiet
    BY DEF Next, vars, setting, Quiet
  <1>2. CASE Next
    <2>1. platform \in {"unix", "windows"}
      BY CacheAssumption DEF CacheInv, CacheTypeOK
    <2>2. UNCHANGED setting
      BY <1>2 DEF Next
    <2>3. PICK p \in Proc : Start(p) \/ Use(p) \/ Crash(p)
      BY <1>2 DEF Next
    <2> QED BY <1>1, <2>1, <2>2, <2>3, QuietUse, QuietHeldOpen, QuietSomebody DEF QuietInv
  <1>3. CASE UNCHANGED vars
    BY <1>3 DEF vars, setting, QuietInv, Quiet, WholeDownloads, DamagedFromStart, FirstAttempts,
                HeldOpen, Others, SomebodyGoesOn, HeldUp, WillPublish
  <1> QED BY <1>2, <1>3

\* If nothing but their overlap goes wrong, one of the processes that have come to the
\* file has scanned it when all are at rest, and a whole copy is in the cache, for any
\* number of processes and however they delete the copies of each other.  Only on
\* Windows, where they keep each other from that, can all fail: then a damaged copy is
\* gone, after two of them have tried to delete it, one of them twice.
THEOREM SomebodyAlwaysScans == Spec => []SomebodyScans
  <1>1. CacheInv /\ QuietInv => SomebodyScans
    <2> SUFFICES ASSUME CacheInv, QuietInv, Quiet, AtRest, \E p \in Proc : pc[p] # "ready"
                 PROVE  \/ cached = "whole" /\ \E p \in Proc : pc[p] = "done"
                        \/ cached = None /\ HeldUp
      BY DEF SomebodyScans, Quiet
    <2>1. CASE cached = None
      <3>1. ~ \E p \in Proc : WillPublish(p)
        BY DEF WillPublish, AtRest
      <3> QED BY <2>1, <3>1 DEF QuietInv, SomebodyGoesOn
    <2>2. CASE cached # None
      <3>1. PICK p \in Proc : pc[p] = "done"
        BY <2>2 DEF QuietInv, SomebodyGoesOn, AtRest
      <3>2. cached = "whole"
        BY <2>2, <3>1 DEF QuietInv, DamagedFromStart, CacheInv, CacheTypeOK, Complete
      <3> QED BY <3>1, <3>2
    <2> QED BY <2>1, <2>2
  <1> QED BY <1>1, QuietInit, QuietStep, CacheInvariant, PTL DEF Spec

=============================================================================
