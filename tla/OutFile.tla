------------------------------ MODULE OutFile ------------------------------
(***************************************************************************)
(* discover --out: optionalTXTSink puts a buffered text file in front of   *)
(* the Store.  A domain is printed when the store says it was inserted,    *)
(* which is before the insert is committed and long before the line leaves *)
(* the buffer; the checkpoints flush the store without the sink.           *)
(*                                                                         *)
(* Every run here is given the same --out; what Discovery asks of the sink *)
(* and of the store in between is any sequence of their operations.        *)
(***************************************************************************)
EXTENDS Store

CONSTANT FaultSets  \* the kinds of fault that can happen together

FaultKind == {"open", "store", "commit", "disk", "crash"}

ASSUME FaultsAssumption == FaultSets \subseteq SUBSET FaultKind

VARIABLES
    faults,     \* the kinds of fault of this history of runs
    pc,         \* "idle" when no process runs
    text,       \* how often each domain stands in the file
    buffer,     \* how often each domain stands in bufio's buffer
    broken      \* a write failed: bufio.Writer fails from then on

fileVars == <<text, buffer, broken>>
vars == <<storeVars, faults, pc, fileVars>>

Fault(kind) == kind \in faults

\* Counts stop at 2, which stands for more than once.
Copies == 0..2
Capped(n) == IF n > 2 THEN 2 ELSE n
NoLines == [d \in Domain |-> 0]
Printed(lines) == {d \in Domain : lines[d] > 0}
Together == [d \in Domain |-> Capped(text[d] + buffer[d])]

----------------------------------------------------------------------------

\* storage.Open comes first, and with it the deletion of a fresh run's database.
\* pc keeps how the text file is to be opened then.
OpenStore(fresh) ==
    /\ pc = "idle"
    /\ pc' = IF fresh THEN "truncate" ELSE "append"
    /\ Open(fresh)
    /\ UNCHANGED fileVars

\* The database cannot be opened; that of a fresh run has been deleted by then.
OpenStoreFails(fresh) ==
    /\ pc = "idle" /\ Fault("open")
    /\ Open(fresh)
    /\ UNCHANGED <<pc, fileVars>>

\* Mutant: a fresh run appends to the file.
OpenTextAppends ==
    /\ pc \in {"truncate", "append"}
    /\ pc' = "running"
    /\ buffer' = NoLines
    /\ broken' = FALSE
    /\ UNCHANGED <<storeVars, text>>

\* newOptionalTXTSink truncates the file of a fresh run and appends otherwise.
OpenText ==
    /\ pc \in {"truncate", "append"}
    /\ pc' = "running"
    /\ text' = IF pc = "truncate" THEN NoLines ELSE text
    /\ buffer' = NoLines
    /\ broken' = FALSE
    /\ UNCHANGED storeVars

\* The file cannot be opened: of the deferred calls only store.Close is there.
OpenTextFails ==
    /\ pc \in {"truncate", "append"} /\ Fault("open")
    /\ pc' = "closed"
    /\ UNCHANGED <<storeVars, fileVars>>

\* A full buffer is written out, all of it, before the line is added.
PrintLine(d) ==
    \/ /\ buffer' = [buffer EXCEPT ![d] = Capped(@ + 1)]
       /\ UNCHANGED <<text, broken>>
    \/ /\ ~broken
       /\ text' = Together
       /\ buffer' = [NoLines EXCEPT ![d] = 1]
       /\ UNCHANGED broken
    \/ /\ broken \/ Fault("disk")
       /\ broken' = TRUE
       /\ UNCHANGED <<text, buffer>>

\* Mutant: a domain is printed whenever it is found.
AddPrintsAll(d) ==
    /\ pc = "running"
    /\ AddDomain(d)
    /\ PrintLine(d)
    /\ UNCHANGED pc

Add(d) ==
    /\ pc = "running"
    /\ AddDomain(d)
    /\ IF Inserted(d) THEN PrintLine(d) ELSE UNCHANGED fileVars
    /\ UNCHANGED pc

\* The store returns an error, and so does the sink.
AddFails ==
    /\ pc = "running"
    /\ \/ Fault("store") /\ (BeginFails \/ InsertFails)
       \/ Fault("commit") /\ BatchCommitFails
    /\ UNCHANGED <<pc, fileVars>>

\* Store.Flush in any of the calls that begin with it.
StoreFlush ==
    /\ FlushCommits \/ (Fault("commit") /\ FlushFails)
    /\ UNCHANGED marks

\* sink.Count, and the block tracker, which is the store itself.
Track ==
    /\ pc = "running"
    /\ StoreFlush
    /\ UNCHANGED <<pc, fileVars>>

\* Mutant: the buffer is not written out.
WriteOutForgets == ~broken /\ UNCHANGED fileVars

WriteOut ==
    /\ ~broken
    /\ text' = Together
    /\ buffer' = NoLines
    /\ UNCHANGED broken

\* optionalTXTSink.Flush: if the file cannot be written the store is not flushed.
SinkFlush ==
    \/ WriteOut /\ StoreFlush
    \/ /\ broken \/ (Fault("disk") /\ buffer # NoLines)
       /\ broken' = TRUE
       /\ UNCHANGED <<storeVars, text, buffer>>

\* DiscoverTo has returned; then, whatever fails, come store.Count and the
\* deferred sink.Close and store.Close.
FlushSink == pc = "running" /\ SinkFlush /\ pc' = "count"

CountRows ==
    /\ pc = "count"
    /\ StoreFlush
    /\ pc' = "close"
    /\ UNCHANGED fileVars

CloseSink == pc = "close" /\ SinkFlush /\ pc' = "closed"

CloseStore ==
    /\ pc = "closed"
    /\ StoreFlush
    /\ pc' = "idle"
    /\ buffer' = NoLines
    /\ UNCHANGED <<text, broken>>

Crash ==
    /\ pc # "idle" /\ Fault("crash")
    /\ Open(FALSE)
    /\ pc' = "idle"
    /\ buffer' = NoLines
    /\ UNCHANGED <<text, broken>>

----------------------------------------------------------------------------

Init ==
    /\ StoreInit
    /\ faults \in FaultSets
    /\ pc = "idle"
    /\ text = NoLines
    /\ buffer = NoLines
    /\ broken = FALSE

Start == \E fresh \in BOOLEAN : OpenStore(fresh) \/ OpenStoreFails(fresh)
AddSome == \E d \in Domain : Add(d)

Run == Start \/ OpenText \/ OpenTextFails \/ AddSome \/ AddFails \/ Track
       \/ FlushSink \/ CountRows \/ CloseSink \/ CloseStore

Next == (Run \/ Crash) /\ UNCHANGED faults

Spec == Init /\ [][Next]_vars

----------------------------------------------------------------------------
(* Properties *)

\* Every variable has its type.
OutTypeOK ==
    /\ StoreTypeOK
    /\ faults \in FaultSets
    /\ pc \in {"idle", "truncate", "append", "running", "count", "close", "closed"}
    /\ text \in [Domain -> Copies]
    /\ buffer \in [Domain -> Copies]
    /\ broken \in BOOLEAN

\* README: "--out ... writes only newly inserted domains".  Between runs the file
\* lists no domain that the database does not have.
OnlyInserted == pc = "idle" => Printed(text) \subseteq rows

\* It is so unless a commit fails, a process is killed or a run cannot open its files
\* (then a fresh one leaves the old text beside an empty database), however often
\* --out appends to the file, the inserts fail or what is printed cannot be written.
OnlyInsertedUnlessLost == faults \cap {"open", "commit", "crash"} = {} => OnlyInserted

\* "... one per line": then no domain stands in the file twice either.
PrintedOnce ==
    faults \cap {"open", "commit", "crash"} = {} =>
        \A d \in Domain : text[d] + buffer[d] <= 1

\* Between runs every row of the database is in the file, also after runs in which
\* inserts and commits failed or files could not be opened, if what was printed could be
\* written and nothing was killed.
NoneMissing ==
    pc = "idle" /\ faults \cap {"disk", "crash"} = {} => rows \subseteq Printed(text)

\* A text file that cannot be written does not cost the database anything, though
\* the sink then never flushes the store: what was inserted, committed or not, is
\* kept to the end of the run, where store.Close commits it, unless a commit fails.
\* Only a fresh run takes rows away, be it that it comes to nothing.
RowsKept ==
    [][\/ Fault("commit")
       \/ rows \cup txRows \subseteq rows' \cup txRows'
       \/ Crash
       \/ OpenStore(TRUE)
       \/ OpenStoreFails(TRUE)]_vars
=============================================================================
