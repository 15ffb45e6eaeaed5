--------------------------- MODULE OutFileProofs ---------------------------
(***************************************************************************)
(* Proofs about OutFile: how the text file of --out and the database keep  *)
(* up with each other over any sequence of runs, for every set of domains, *)
(* every batch size and every kind of fault.                               *)
(***************************************************************************)
EXTENDS OutFile, StoreProofs

\* Rows the connection sees, and domains on their way into the file.
Known == rows \cup txRows
Listed == Printed(text) \cup Printed(buffer)

\* No run, no transaction; and bufio's buffer dies with the run.
AtRest == pc \in {"idle", "truncate", "append"} => txRows = {} /\ buffer = NoLines

\* A fresh run opens the text file when its database is still empty.
NothingKnown == pc = "truncate" => Known = {}

\* While no commit and no run is lost, what is printed has been inserted, but for the
\* moment between the deletion of a database and the truncation of the file: a domain
\* that is new to the store is new to the file, and PrintedOnce follows.
PrintedIsKnown ==
    faults \cap {"open", "commit", "crash"} = {} /\ pc # "truncate" => Listed \subseteq Known

\* While the file can be written and no run is killed, what is inserted has been
\* printed, and sink.Close leaves nothing in the buffer.
KnownIsPrinted ==
    faults \cap {"disk", "crash"} = {} =>
        /\ ~broken
        /\ Known \subseteq Listed
        /\ pc = "closed" => buffer = NoLines

OutInv ==
    /\ OutTypeOK
    /\ LossWindow
    /\ AtRest
    /\ NothingKnown
    /\ PrintedOnce
    /\ PrintedIsKnown
    /\ KnownIsPrinted

----------------------------------------------------------------------------
(* The store under the sink *)

\* Every step of OutFile is a step of the Store or leaves it alone.
LEMMA OutIsStoreStep ==
    ASSUME Next
    PROVE  [StoreNext]_storeVars
<1>1. ASSUME StoreFlush PROVE StoreNext
  BY <1>1 DEF StoreFlush, StoreNext
<1>2. CASE Start
  BY <1>2 DEF Start, OpenStore, OpenStoreFails, StoreNext
<1>11. CASE OpenText \/ OpenTextFails
  BY <1>11 DEF OpenText, OpenTextFails
<1>3. CASE AddSome
  BY <1>3 DEF AddSome, Add, StoreNext
<1>4. CASE AddFails
  BY <1>4 DEF AddFails, StoreNext
<1>5. CASE Track
  BY <1>1, <1>5 DEF Track
<1>6. CASE FlushSink
  BY <1>1, <1>6 DEF FlushSink, SinkFlush
<1>7. CASE CountRows
  BY <1>1, <1>7 DEF CountRows
<1>8. CASE CloseSink
  BY <1>1, <1>8 DEF CloseSink, SinkFlush
<1>9. CASE CloseStore
  BY <1>1, <1>9 DEF CloseStore
<1>10. CASE Crash
  <2>1. Open(FALSE) BY <1>10 DEF Crash
  <2>2. \E fresh \in BOOLEAN : Open(fresh) BY <2>1
  <2> QED BY <2>2 DEF StoreNext
<1> QED
  BY <1>2, <1>3, <1>4, <1>5, <1>6, <1>7, <1>8, <1>9, <1>10, <1>11 DEF Next, Run

\* An insert adds its domain, whether or not it fills the batch.
LEMMA AddDomainKnown ==
    ASSUME NEW d \in Domain, AddDomain(d)
    PROVE  Known' = Known \cup {d}
<1> DEFINE batch == txRows \cup ({d} \ rows)
<1>1. CASE Batched + 1 >= BatchSize
  <2>1. rows' = rows \cup batch /\ txRows' = {}
    BY <1>1 DEF AddDomain, DropTx
  <2> QED BY <2>1 DEF Known
<1>2. CASE ~(Batched + 1 >= BatchSize)
  <2>1. rows' = rows /\ txRows' = batch
    BY <1>2 DEF AddDomain
  <2> QED BY <2>1 DEF Known
<1> QED
  BY <1>1, <1>2

\* A flush ends the transaction and loses its rows only if the commit fails.
LEMMA StoreFlushKnown ==
    ASSUME StoreFlush
    PROVE  /\ txRows' = {}
           /\ Known' \subseteq Known
           /\ "commit" \notin faults => Known' = Known
<1>1. CASE FlushCommits
  BY <1>1 DEF FlushCommits, Known
<1>2. CASE Fault("commit") /\ FlushFails
  BY <1>2 DEF FlushFails, Fault, Known
<1> QED
  BY <1>1, <1>2 DEF StoreFlush

\* So does a failing insert.
LEMMA AddFailsKnown ==
    ASSUME AddFails
    PROVE  /\ Known' \subseteq Known
           /\ "commit" \notin faults => Known' = Known
<1>1. CASE BeginFails
  BY <1>1 DEF BeginFails, storeVars, txVars, Known
<1>2. CASE InsertFails
  BY <1>2 DEF InsertFails, Known
<1>3. CASE Fault("commit") /\ BatchCommitFails
  BY <1>3 DEF BatchCommitFails, Fault, Known
<1> QED
  BY <1>1, <1>2, <1>3 DEF AddFails

LEMMA OpenKnown ==
    ASSUME NEW fresh \in BOOLEAN, Open(fresh)
    PROVE  /\ txRows' = {}
           /\ fresh => Known' = {}
           /\ ~fresh => Known' = rows
<1>1. CASE fresh
  BY <1>1 DEF Open, DropTx, Known
<1>2. CASE ~fresh
  BY <1>2 DEF Open, DropTx, Known
<1> QED
  BY <1>1, <1>2

----------------------------------------------------------------------------
(* The file and its buffer *)

LEMMA CappedType ==
    ASSUME NEW n \in Nat
    PROVE  /\ Capped(n) \in Copies
           /\ n <= 2 => Capped(n) = n
           /\ Capped(n) > 0 <=> n > 0
BY DEF Capped, Copies

\* No lines, no domains.
LEMMA NoLinesType ==
    /\ NoLines \in [Domain -> Copies]
    /\ Printed(NoLines) = {}
BY DEF NoLines, Copies, Printed

\* Writing the buffer out keeps every line, up to the cap.
LEMMA TogetherType ==
    ASSUME OutTypeOK
    PROVE  /\ Together \in [Domain -> Copies]
           /\ Printed(Together) = Listed
           /\ \A d \in Domain : text[d] + buffer[d] <= 2 => Together[d] = text[d] + buffer[d]
<1>1. \A d \in Domain : text[d] \in Copies /\ buffer[d] \in Copies
  BY DEF OutTypeOK
<1>2. \A d \in Domain : text[d] + buffer[d] \in Nat
  BY <1>1 DEF Copies
<1>3. \A d \in Domain : Together[d] = Capped(text[d] + buffer[d])
  BY DEF Together
<1>4. Together \in [Domain -> Copies]
  BY <1>2, CappedType DEF Together
<1>5. \A d \in Domain : Together[d] > 0 <=> text[d] > 0 \/ buffer[d] > 0
  <2> TAKE d \in Domain
  <2>1. Together[d] > 0 <=> text[d] + buffer[d] > 0
    BY <1>2, <1>3, CappedType
  <2>2. text[d] + buffer[d] > 0 <=> text[d] > 0 \/ buffer[d] > 0
    BY <1>1 DEF Copies
  <2> QED BY <2>1, <2>2
<1>6. Printed(Together) = Listed
  BY <1>5 DEF Printed, Listed
<1> QED
  BY <1>2, <1>3, <1>4, <1>6, CappedType

Once == \A d \in Domain : text[d] + buffer[d] <= 1

\* What the three outcomes of writing a line make of the file and the buffer.
LEMMA PrintLineEffect ==
    ASSUME OutTypeOK, NEW d \in Domain, PrintLine(d)
    PROVE  /\ text' \in [Domain -> Copies]
           /\ buffer' \in [Domain -> Copies]
           /\ broken' \in BOOLEAN
           /\ Listed' \subseteq Listed \cup {d}
           /\ ~broken /\ ~Fault("disk") => ~broken' /\ Listed' = Listed \cup {d}
           /\ Once /\ d \notin Listed => Once'
<1>1. /\ text \in [Domain -> Copies] /\ buffer \in [Domain -> Copies]
      /\ \A e \in Domain : text[e] \in 0..2 /\ buffer[e] \in 0..2
  BY DEF OutTypeOK, Copies
<1>2. broken \in BOOLEAN
  BY DEF OutTypeOK
<1>3. CASE /\ buffer' = [buffer EXCEPT ![d] = Capped(@ + 1)]
           /\ UNCHANGED <<text, broken>>
  <2>1. Capped(buffer[d] + 1) \in Copies /\ Capped(buffer[d] + 1) > 0
    BY <1>1 DEF Capped, Copies
  <2>2. buffer' \in [Domain -> Copies]
    BY <1>1, <1>3, <2>1
  <2>3. /\ buffer'[d] > 0 /\ \A e \in Domain \ {d} : buffer'[e] = buffer[e]
        /\ text' = text /\ broken' = broken
    BY <1>1, <1>3, <2>1
  <2>4. Listed' = Listed \cup {d}
    <3>1. Printed(buffer)' = Printed(buffer) \cup {d} BY <2>3 DEF Printed
    <3>2. Printed(text)' = Printed(text) BY <2>3 DEF Printed
    <3> QED BY <3>1, <3>2 DEF Listed
  <2>5. ASSUME Once, d \notin Listed PROVE Once'
    <3>1. text[d] = 0 /\ buffer[d] = 0
      BY <1>1, <2>5 DEF Listed, Printed
    <3>2. buffer'[d] = 1
      BY <1>1, <1>3, <3>1 DEF Capped
    <3> QED BY <1>1, <2>3, <2>5, <3>1, <3>2 DEF Once
  <2> QED BY <1>1, <1>2, <2>2, <2>3, <2>4, <2>5
<1>4. CASE /\ ~broken
           /\ text' = Together
           /\ buffer' = [NoLines EXCEPT ![d] = 1]
           /\ UNCHANGED broken
  <2>1. buffer' \in [Domain -> Copies]
    BY <1>4, NoLinesType DEF Copies
  <2>2. buffer'[d] = 1 /\ \A e \in Domain \ {d} : buffer'[e] = 0
    BY <1>4 DEF NoLines
  <2>3. Listed' = Listed \cup {d}
    <3>1. Printed(buffer)' = {d} BY <2>2 DEF Printed
    <3>2. Printed(text)' = Listed
      <4>1. Printed(text)' = Printed(Together) BY <1>4 DEF Printed
      <4> QED BY <4>1, TogetherType
    <3> QED BY <3>1, <3>2 DEF Listed
  <2>4. ASSUME Once, d \notin Listed PROVE Once'
    <3>1. text[d] = 0 /\ buffer[d] = 0
      BY <1>1, <2>4 DEF Listed, Printed
    <3>2. \A e \in Domain : text[e] + buffer[e] <= 1 /\ text[e] + buffer[e] <= 2
      BY <1>1, <2>4 DEF Once
    <3>3. \A e \in Domain : text'[e] = text[e] + buffer[e]
      BY <1>4, <3>2, TogetherType
    <3>4. text'[d] = 0
      BY <3>1, <3>3
    <3> QED BY <1>1, <2>2, <3>2, <3>3, <3>4 DEF Once
  <2> QED BY <1>2, <1>4, <2>1, <2>3, <2>4, TogetherType
<1>5. CASE /\ broken \/ Fault("disk")
           /\ broken' = TRUE
           /\ UNCHANGED <<text, buffer>>
  <2>1. Listed' = Listed BY <1>5 DEF Listed, Printed
  <2>2. Once => Once' BY <1>5 DEF Once
  <2>3. ~(~broken /\ ~Fault("disk")) BY <1>5
  <2> QED BY <1>1, <1>5, <2>1, <2>2, <2>3
<1> QED
  BY <1>3, <1>4, <1>5 DEF PrintLine

\* A flush of bufio's buffer.
LEMMA WriteOutEffect ==
    ASSUME OutTypeOK, WriteOut
    PROVE  /\ text' \in [Domain -> Copies]
           /\ buffer' = NoLines
           /\ ~broken' /\ ~broken
           /\ Listed' = Listed
           /\ Once => Once'
<1>1. text' = Together /\ buffer' = NoLines
  BY DEF WriteOut
<1>2. ~broken' /\ ~broken
  BY DEF WriteOut
<1>3. Listed' = Listed
  <2>1. Printed(text)' = Printed(Together) BY <1>1 DEF Printed
  <2>2. Printed(buffer)' = Printed(NoLines) BY <1>1 DEF Printed
  <2> QED BY <2>1, <2>2, TogetherType, NoLinesType DEF Listed
<1>4. ASSUME Once PROVE Once'
  <2>1. \A e \in Domain : text[e] \in 0..2 /\ buffer[e] \in 0..2
    BY DEF OutTypeOK, Copies
  <2>2. \A e \in Domain : text[e] + buffer[e] <= 1 /\ text[e] + buffer[e] <= 2
    BY <1>4, <2>1 DEF Once
  <2>3. \A e \in Domain : text'[e] = text[e] + buffer[e] /\ buffer'[e] = 0
    BY <1>1, <2>2, TogetherType DEF NoLines
  <2> QED BY <2>1, <2>2, <2>3 DEF Once
<1> QED
  BY <1>1, <1>2, <1>3, <1>4, TogetherType

\* What optionalTXTSink.Flush makes of both, whichever part of it fails.
LEMMA SinkFlushEffect ==
    ASSUME OutTypeOK, SinkFlush
    PROVE  /\ text' \in [Domain -> Copies]
           /\ buffer' \in [Domain -> Copies]
           /\ broken' \in BOOLEAN
           /\ Listed' = Listed
           /\ Once => Once'
           /\ Known' \subseteq Known
           /\ "commit" \notin faults => Known' = Known
           /\ ~broken /\ ~Fault("disk") => ~broken' /\ buffer' = NoLines
<1>1. CASE WriteOut /\ StoreFlush
  <2>1. broken' \in BOOLEAN BY <1>1 DEF WriteOut, OutTypeOK
  <2> QED BY <1>1, <2>1, WriteOutEffect, StoreFlushKnown, NoLinesType
<1>2. CASE /\ broken \/ (Fault("disk") /\ buffer # NoLines)
           /\ broken' = TRUE
           /\ UNCHANGED <<storeVars, text, buffer>>
  <2>1. Listed' = Listed BY <1>2 DEF Listed, Printed
  <2>2. Once => Once' BY <1>2 DEF Once
  <2>3. ~(~broken /\ ~Fault("disk")) BY <1>2
  <2>4. Known' = Known BY <1>2 DEF Known, storeVars, txVars
  <2>5. text \in [Domain -> Copies] /\ buffer \in [Domain -> Copies]
    BY DEF OutTypeOK
  <2> QED BY <1>2, <2>1, <2>2, <2>3, <2>4, <2>5
<1> QED
  BY <1>1, <1>2 DEF SinkFlush

----------------------------------------------------------------------------
(* The inductive invariant *)

LEMMA OutInvInit == Init => OutInv
<1> SUFFICES ASSUME Init PROVE OutInv
  OBVIOUS
<1>1. StoreInv
  BY StoreInvInit DEF Init
<1>2. OutTypeOK
  <2>1. broken \in BOOLEAN BY DEF Init
  <2> QED BY <1>1, <2>1, NoLinesType DEF Init, OutTypeOK, StoreInv
<1>3. text = NoLines /\ buffer = NoLines /\ pc = "idle" /\ rows = {} /\ txRows = {}
  BY DEF Init, StoreInit
<1>4. ~broken
  BY DEF Init
<1>5. Listed = {} /\ Known = {}
  BY <1>3, NoLinesType DEF Listed, Known
<1>6. PrintedOnce
  BY <1>3 DEF PrintedOnce, NoLines
<1> QED
  BY <1>1, <1>2, <1>3, <1>4, <1>5, <1>6
     DEF OutInv, StoreInv, AtRest, NothingKnown, PrintedIsKnown, KnownIsPrinted

\* One step keeps the invariant, and what RowsKept says of it.
LEMMA OutInvNext ==
    ASSUME OutInv, Next
    PROVE  /\ OutInv'
           /\ \/ Fault("commit")
              \/ Known \subseteq Known'
              \/ Crash
              \/ OpenStore(TRUE)
              \/ OpenStoreFails(TRUE)
<1> DEFINE Kept == \/ Fault("commit") \/ Known \subseteq Known' \/ Crash
                   \/ OpenStore(TRUE) \/ OpenStoreFails(TRUE)
           Labels == {"idle", "truncate", "append", "running", "count", "close", "closed"}
           Lossless == faults \cap {"open", "commit", "crash"} = {}
           Whole == faults \cap {"disk", "crash"} = {}
\* The store's part of the invariant comes from StoreProofs.
<1>1. StoreTypeOK' /\ LossWindow'
  <2>1. StoreInv BY DEF OutInv, OutTypeOK, StoreInv
  <2> QED BY <2>1, OutIsStoreStep, StoreTypeStep, LossWindowStep
<1>2. faults' = faults /\ faults \in FaultSets /\ faults' \in FaultSets
  BY DEF Next, OutInv, OutTypeOK
<1>3. OutTypeOK /\ (Lossless => Once) /\ (Lossless /\ pc # "truncate" => Listed \subseteq Known)
  BY DEF OutInv, PrintedOnce, Once, PrintedIsKnown
<1>4. Whole => ~broken /\ ~Fault("disk") /\ Known \subseteq Listed
  BY DEF OutInv, KnownIsPrinted, Fault
<1>5. Lossless => ~Fault("commit") /\ ~Fault("crash") /\ ~Fault("open") /\ "commit" \notin faults
  BY DEF Fault
<1>6. (Fault("commit") <=> "commit" \in faults) /\ (Whole => ~Fault("crash"))
  BY DEF Fault
\* What is left to show of a step.
<1>7. ASSUME /\ pc' \in Labels
             /\ text' \in [Domain -> Copies] /\ buffer' \in [Domain -> Copies]
             /\ broken' \in BOOLEAN
             /\ pc' \in {"idle", "truncate", "append"} => txRows' = {} /\ buffer' = NoLines
             /\ pc' = "truncate" => Known' = {}
             /\ Lossless => Once'
             /\ Lossless /\ pc' # "truncate" => Listed' \subseteq Known'
             /\ Whole => ~broken' /\ Known' \subseteq Listed'
             /\ Whole /\ pc' = "closed" => buffer' = NoLines
             /\ Kept
      PROVE  OutInv' /\ Kept
  <2>1. OutTypeOK' BY <1>1, <1>2, <1>7 DEF OutTypeOK, Labels
  <2>2. AtRest' /\ NothingKnown' BY <1>7 DEF AtRest, NothingKnown
  <2>3. PrintedOnce' BY <1>2, <1>7 DEF PrintedOnce, Once
  <2>4. PrintedIsKnown' BY <1>2, <1>7 DEF PrintedIsKnown
  <2>5. KnownIsPrinted' BY <1>2, <1>7 DEF KnownIsPrinted
  <2> QED BY <1>1, <1>7, <2>1, <2>2, <2>3, <2>4, <2>5 DEF OutInv
<1> SUFFICES OutInv' /\ Kept
  OBVIOUS
<1> HIDE DEF Kept, Lossless, Whole, Labels
\* The steps that leave the file alone and flush the store.
<1>8. ASSUME UNCHANGED fileVars
      PROVE  /\ text' \in [Domain -> Copies] /\ buffer' \in [Domain -> Copies]
             /\ broken' \in BOOLEAN /\ broken' = broken
             /\ Listed' = Listed /\ (Once => Once')
  <2>1. text' = text /\ buffer' = buffer /\ broken' = broken
    BY <1>8 DEF fileVars
  <2> QED BY <1>3, <2>1 DEF OutTypeOK, Listed, Printed, Once
<1>9. CASE Start
  <2>1. PICK fresh \in BOOLEAN : OpenStore(fresh) \/ OpenStoreFails(fresh)
    BY <1>9 DEF Start
  <2>2. /\ pc = "idle" /\ Open(fresh) /\ UNCHANGED fileVars
        /\ pc' \in {"idle", "truncate", "append"}
        /\ pc' # "truncate" /\ ~Fault("open") => ~fresh
        /\ pc' = "truncate" => fresh
    BY <2>1 DEF OpenStore, OpenStoreFails
  <2>3. txRows = {} /\ buffer = NoLines /\ Known = rows
    BY <2>2 DEF OutInv, AtRest, Known
  <2>4. txRows' = {} /\ buffer' = NoLines /\ (fresh => Known' = {}) /\ (~fresh => Known' = Known)
    BY <2>2, <2>3, OpenKnown DEF fileVars
  <2>5. Kept
    BY <2>1, <2>4 DEF Kept
  <2>6. (Lossless => Once') /\ (Whole => ~broken' /\ Known' \subseteq Listed')
    BY <1>3, <1>4, <1>8, <2>2, <2>4
  <2>7. Lossless /\ pc' # "truncate" => Listed' \subseteq Known'
    <3> SUFFICES ASSUME Lossless, pc' # "truncate" PROVE Listed' \subseteq Known'
      OBVIOUS
    <3>1. ~fresh BY <1>5, <2>2
    <3>2. Listed \subseteq Known BY <1>3, <2>2
    <3> QED BY <1>8, <2>2, <2>4, <3>1, <3>2
  <2>8. pc' \in Labels /\ pc' # "closed" /\ (pc' = "truncate" => Known' = {})
    BY <2>2, <2>4 DEF Labels
  <2> QED BY <1>7, <1>8, <2>2, <2>4, <2>5, <2>6, <2>7, <2>8
<1>17. CASE OpenText
  <2>1. /\ pc \in {"truncate", "append"} /\ pc' = "running" /\ buffer' = NoLines
        /\ text' = IF pc = "truncate" THEN NoLines ELSE text
        /\ UNCHANGED storeVars
    BY <1>17 DEF OpenText
  <2>2. broken' = FALSE
    BY <1>17 DEF OpenText
  <2>3. buffer = NoLines /\ Known' = Known /\ txRows = {}
    BY <2>1 DEF OutInv, AtRest, Known, storeVars, txVars
  <2>4. Printed(buffer)' = {} /\ Listed = Printed(text)
    BY <2>1, <2>3, NoLinesType DEF Printed, Listed
  <2>5. Kept
    BY <2>3 DEF Kept
  <2>6. pc' \in Labels /\ pc' \notin {"idle", "truncate", "append", "closed"}
    BY <2>1 DEF Labels
  <2>7. broken' \in BOOLEAN /\ ~broken'
    BY <2>2
  <2>8. CASE pc = "truncate"
    <3>1. text' = NoLines BY <2>1, <2>8
    <3>2. Listed' = {}
      <4>1. Printed(text)' = {} BY <3>1, NoLinesType DEF Printed
      <4> QED BY <2>4, <4>1 DEF Listed
    <3>3. Once' BY <2>1, <3>1 DEF Once, NoLines
    <3>4. Known' = {}
      BY <2>3, <2>8 DEF OutInv, NothingKnown
    <3>5. text' \in [Domain -> Copies] /\ buffer' \in [Domain -> Copies]
      BY <2>1, <3>1, NoLinesType
    <3> QED BY <1>7, <2>5, <2>6, <2>7, <3>2, <3>3, <3>4, <3>5
  <2>9. CASE pc # "truncate"
    <3>1. text' = text BY <2>1, <2>9
    <3>2. Listed' = Listed
      <4>1. Printed(text)' = Printed(text) BY <3>1 DEF Printed
      <4> QED BY <2>4, <4>1 DEF Listed
    <3>3. Once => Once' BY <2>1, <2>3, <3>1 DEF Once
    <3>4. text' \in [Domain -> Copies] /\ buffer' \in [Domain -> Copies]
      BY <1>3, <2>1, <3>1, NoLinesType DEF OutTypeOK
    <3> QED BY <1>3, <1>4, <1>7, <2>3, <2>5, <2>6, <2>7, <2>9, <3>2, <3>3, <3>4
  <2> QED BY <2>8, <2>9
<1>18. CASE OpenTextFails
  <2>1. /\ pc \in {"truncate", "append"} /\ pc' = "closed" /\ Fault("open")
        /\ UNCHANGED <<storeVars, fileVars>>
    BY <1>18 DEF OpenTextFails
  <2>2. Known' = Known /\ txRows' = txRows /\ buffer' = buffer
    BY <2>1 DEF Known, storeVars, txVars, fileVars
  <2>3. buffer = NoLines
    BY <2>1 DEF OutInv, AtRest
  <2>4. Kept
    BY <2>2 DEF Kept
  <2>5. ~Lossless /\ (Whole => ~broken')
    BY <1>4, <1>5, <1>8, <2>1
  <2>6. Whole => Known' \subseteq Listed'
    BY <1>4, <1>8, <2>1, <2>2
  <2>7. pc' \in Labels /\ pc' \notin {"idle", "truncate", "append"}
    BY <2>1 DEF Labels
  <2> QED BY <1>7, <1>8, <2>1, <2>2, <2>3, <2>4, <2>5, <2>6, <2>7
<1>10. CASE AddSome
  <2>1. PICK d \in Domain : Add(d)
    BY <1>10 DEF AddSome
  <2>2. AddDomain(d) /\ pc' = "running" /\ pc' = pc
    BY <2>1 DEF Add
  <2>3. Known' = Known \cup {d}
    BY <2>2, AddDomainKnown
  <2>4. Kept
    BY <2>3 DEF Kept
  <2>5. CASE Inserted(d)
    <3>1. PrintLine(d) BY <2>1, <2>5 DEF Add
    <3>2. d \notin Known BY <2>5 DEF Inserted, Known
    <3> QED BY <1>3, <1>4, <1>7, <2>2, <2>3, <2>4, <3>1, <3>2, PrintLineEffect DEF Labels
  <2>6. CASE ~Inserted(d)
    <3>1. UNCHANGED fileVars BY <2>1, <2>6 DEF Add
    <3>2. Known' = Known BY <2>3, <2>6 DEF Inserted, Known
    <3>3. Whole => ~broken' BY <1>4, <1>8, <3>1
    <3> QED BY <1>3, <1>4, <1>7, <1>8, <2>2, <2>4, <3>1, <3>2, <3>3 DEF Labels
  <2> QED BY <2>5, <2>6
<1>11. CASE AddFails
  <2>1. pc' = "running" /\ pc' = pc /\ UNCHANGED fileVars
    BY <1>11 DEF AddFails
  <2>2. Known' \subseteq Known /\ (~Fault("commit") => Known' = Known)
    BY <1>6, <1>11, AddFailsKnown
  <2>3. Kept BY <2>2 DEF Kept
  <2>4. Whole => ~broken' BY <1>4, <1>8, <2>1
  <2> QED BY <1>3, <1>4, <1>5, <1>7, <1>8, <2>1, <2>2, <2>3, <2>4 DEF Labels
<1>12. CASE Track
  <2>1. pc = "running" /\ pc' = "running" /\ UNCHANGED fileVars
    BY <1>12 DEF Track
  <2>2. Known' \subseteq Known /\ (~Fault("commit") => Known' = Known)
    BY <1>6, <1>12, StoreFlushKnown DEF Track
  <2>3. Kept BY <2>2 DEF Kept
  <2>4. Whole => ~broken' BY <1>4, <1>8, <2>1
  <2> QED BY <1>3, <1>4, <1>5, <1>7, <1>8, <2>1, <2>2, <2>3, <2>4 DEF Labels
<1>13. CASE FlushSink \/ CloseSink
  <2>1. SinkFlush /\ pc' \in {"count", "closed"} /\ pc # "truncate"
    BY <1>13 DEF FlushSink, CloseSink
  <2>2. Kept BY <1>6, <1>3, <2>1, SinkFlushEffect DEF Kept
  <2>3. Whole => ~broken' /\ buffer' = NoLines
    BY <1>3, <1>4, <2>1, SinkFlushEffect
  <2>4. /\ text' \in [Domain -> Copies] /\ buffer' \in [Domain -> Copies]
        /\ broken' \in BOOLEAN /\ Listed' = Listed /\ Known' \subseteq Known
    BY <1>3, <2>1, SinkFlushEffect
  <2>5. Lossless => Once' /\ Listed' \subseteq Known'
    BY <1>3, <1>5, <2>1, SinkFlushEffect
  <2>6. Whole => Known' \subseteq Listed'
    BY <1>4, <2>4
  <2>7. pc' \in Labels /\ pc' \notin {"idle", "truncate", "append"}
    BY <2>1 DEF Labels
  <2> QED BY <1>7, <2>2, <2>3, <2>4, <2>5, <2>6, <2>7
<1>14. CASE CountRows
  <2>1. pc = "count" /\ pc' = "close" /\ UNCHANGED fileVars
    BY <1>14 DEF CountRows
  <2>2. Known' \subseteq Known /\ (~Fault("commit") => Known' = Known)
    BY <1>6, <1>14, StoreFlushKnown DEF CountRows
  <2>3. Kept BY <2>2 DEF Kept
  <2>4. Whole => ~broken' BY <1>4, <1>8, <2>1
  <2> QED BY <1>3, <1>4, <1>5, <1>7, <1>8, <2>1, <2>2, <2>3, <2>4 DEF Labels
<1>15. CASE CloseStore
  <2>1. pc = "closed" /\ pc' = "idle" /\ buffer' = NoLines /\ text' = text
    BY <1>15 DEF CloseStore
  <2>2. broken' = broken
    BY <1>15 DEF CloseStore
  <2>3. /\ txRows' = {} /\ Known' \subseteq Known
        /\ ~Fault("commit") => Known' = Known
    BY <1>6, <1>15, StoreFlushKnown DEF CloseStore
  <2>4. Kept BY <2>3 DEF Kept
  <2>5. Listed' \subseteq Listed /\ (Once => Once')
    <3>1. Printed(text)' = Printed(text) BY <2>1 DEF Printed
    <3>2. Printed(buffer)' = {} BY <2>1, NoLinesType DEF Printed
    <3>3. Once => Once'
      <4>1. \A e \in Domain : text[e] \in 0..2 /\ buffer[e] \in 0..2
        BY <1>3 DEF OutTypeOK, Copies
      <4> QED BY <2>1, <4>1 DEF Once, NoLines
    <3> QED BY <3>1, <3>2, <3>3 DEF Listed
  <2>6. Whole => Listed' = Listed
    <3> SUFFICES ASSUME Whole PROVE Listed' = Listed
      OBVIOUS
    <3>1. buffer = NoLines BY <2>1 DEF OutInv, KnownIsPrinted, Whole
    <3> QED BY <2>1, <3>1 DEF Listed, Printed
  <2>7. text' \in [Domain -> Copies] /\ buffer' \in [Domain -> Copies]
    BY <1>3, <2>1, NoLinesType DEF OutTypeOK
  <2>8. broken' \in BOOLEAN /\ (Whole => ~broken')
    BY <1>3, <1>4, <2>2 DEF OutTypeOK
  <2> QED BY <1>3, <1>4, <1>5, <1>7, <2>1, <2>3, <2>4, <2>5, <2>6, <2>7, <2>8 DEF Labels
<1>16. CASE Crash
  <2>1. /\ Fault("crash") /\ Open(FALSE) /\ pc' = "idle"
        /\ buffer' = NoLines /\ text' = text
    BY <1>16 DEF Crash
  <2>2. broken' = broken
    BY <1>16 DEF Crash
  <2>3. ~Whole /\ ~Lossless /\ Kept
    BY <1>5, <1>6, <1>16, <2>1 DEF Kept
  <2>4. txRows' = {} BY <2>1, OpenKnown
  <2>5. text' \in [Domain -> Copies] /\ buffer' \in [Domain -> Copies]
    BY <1>3, <2>1, NoLinesType DEF OutTypeOK
  <2>6. broken' \in BOOLEAN BY <1>3, <2>2 DEF OutTypeOK
  <2>7. ~Lossless /\ ~Whole /\ pc' \in Labels
    BY <2>1, <2>3 DEF Labels
  <2> QED BY <1>7, <2>1, <2>3, <2>4, <2>5, <2>6, <2>7
<1> QED
  BY <1>9, <1>10, <1>11, <1>12, <1>13, <1>14, <1>15, <1>16, <1>17, <1>18
     DEF Next, Run

LEMMA OutInvStutter ==
    ASSUME OutInv, UNCHANGED vars
    PROVE  OutInv'
BY DEF OutInv, OutTypeOK, StoreTypeOK, LossWindow, AtRest, NothingKnown, PrintedOnce,
       PrintedIsKnown, KnownIsPrinted, Listed, Known, Printed, vars, storeVars, txVars, fileVars

THEOREM OutInvariant == Spec => []OutInv
<1>1. OutInv /\ [Next]_vars => OutInv'
  BY OutInvNext, OutInvStutter
<1> QED
  BY <1>1, OutInvInit, PTL DEF Spec

----------------------------------------------------------------------------
(* The theorems *)

\* Every variable has its type, in every run after any other.
THEOREM OutTypeCorrect == Spec => []OutTypeOK
<1>1. OutInv => OutTypeOK BY DEF OutInv
<1> QED BY <1>1, OutInvariant, PTL

\* Between runs the file of --out lists only rows of the database, unless a commit
\* failed, a run was killed or one could not open its files.
THEOREM FileListsOnlyRows == Spec => []OnlyInsertedUnlessLost
<1>1. OutInv => OnlyInsertedUnlessLost
  BY DEF OutInv, OnlyInsertedUnlessLost, OnlyInserted, PrintedIsKnown, AtRest, Listed, Known
<1> QED BY <1>1, OutInvariant, PTL

\* No domain is printed twice, though the buffer is never looked at and what is in
\* the file is never read, unless a commit failed, a run was killed or one could not
\* open its files.
THEOREM FilePrintsOnce == Spec => []PrintedOnce
<1>1. OutInv => PrintedOnce BY DEF OutInv
<1> QED BY <1>1, OutInvariant, PTL

\* Between runs every row of the database is in the file, unless the file could not
\* be written or a run was killed.
THEOREM FileMissesNoRow == Spec => []NoneMissing
<1>1. OutInv => NoneMissing
  <2> SUFFICES ASSUME OutInv, pc = "idle", faults \cap {"disk", "crash"} = {}
               PROVE  rows \subseteq Printed(text)
    BY DEF NoneMissing
  <2>1. buffer = NoLines BY DEF OutInv, AtRest
  <2>2. Printed(buffer) = {} BY <2>1, NoLinesType
  <2> QED BY <2>2 DEF OutInv, KnownIsPrinted, Listed, Known
<1> QED BY <1>1, OutInvariant, PTL

\* No step but a kill, a failing commit or a fresh start costs an inserted row,
\* though a sink whose file is broken never flushes the store.
THEOREM SinkKeepsRows == Spec => RowsKept
<1> DEFINE Step == \/ Fault("commit")
                   \/ rows \cup txRows \subseteq rows' \cup txRows'
                   \/ Crash
                   \/ OpenStore(TRUE)
                   \/ OpenStoreFails(TRUE)
<1>1. OutInv /\ [Next]_vars => [Step]_vars
  <2> SUFFICES ASSUME OutInv, Next PROVE Step
    BY DEF Step
  <2> QED BY OutInvNext DEF Known
<1> QED
  BY <1>1, OutInvariant, PTL DEF Spec, RowsKept
=============================================================================
