------------------------------- MODULE Store -------------------------------
(***************************************************************************)
(* The SQLite store of internal/storage/sqlite.go: the table of domains,   *)
(* the table of crawl_blocks checkpoints, and the insert transaction that  *)
(* Store.AddDomain keeps open across calls and commits every BatchSize     *)
(* inserts (2000 in the code) or at the next Flush.                        *)
(*                                                                         *)
(* The operations are stated as operators over the store's variables, one  *)
(* per outcome, so that a client module composes them with its own state;  *)
(* StoreSpec at the end is the store under an arbitrary client.            *)
(*                                                                         *)
(* An operator commented "Mutant" is not part of the specification: it is  *)
(* the definition that follows it with a plausible mistake, against which  *)
(* the properties are tried.                                               *)
(***************************************************************************)
EXTENDS Naturals, FiniteSets

CONSTANTS Domain,       \* the domain names that can be inserted
          File,         \* the (crawl, index file) keys of crawl_blocks
          BatchSize     \* inserts per transaction

ASSUME BatchSizeAssumption == BatchSize \in Nat \ {0}
ASSUME DomainsFinite == IsFiniteSet(Domain)

VARIABLES rows,         \* committed rows of table domains
          marks,        \* committed status of each file in crawl_blocks
          txOpen,       \* s.tx # nil
          txRows,       \* rows inserted by the open transaction
          pending,      \* s.pending
          disk          \* what a power loss leaves of rows and marks

txVars == <<txOpen, txRows, pending>>
storeVars == <<rows, marks, txOpen, txRows, pending, disk>>

\* No row in crawl_blocks is "absent".
Status == {"absent", "running", "completed", "failed"}
NoMarks == [f \in File |-> "absent"]

----------------------------------------------------------------------------
(* Opening, closing and losing the database *)

StoreInit ==
    /\ rows = {}
    /\ marks = NoMarks
    /\ txOpen = FALSE
    /\ txRows = {}
    /\ pending = 0
    /\ disk = [rows |-> {}, marks |-> NoMarks]

\* The process goes away: SQLite rolls the open transaction back.
DropTx == txOpen' = FALSE /\ txRows' = {} /\ pending' = 0

\* Open: a fresh run removes the database file, its -wal and its -shm first.
Open(fresh) ==
    /\ DropTx
    /\ IF fresh THEN /\ rows' = {}
                     /\ marks' = NoMarks
                     /\ disk' = [rows |-> {}, marks |-> NoMarks]
                ELSE UNCHANGED <<rows, marks, disk>>

\* Mutant: checkpoints are synced before the rows committed ahead of them.
WalSyncMarksFirst ==
    /\ disk' = [disk EXCEPT !.marks = marks]
    /\ UNCHANGED <<rows, marks, txVars>>

\* journal_mode=WAL with synchronous=NORMAL: commits reach the disk in order,
\* but later than they return.
WalSync ==
    /\ disk' = [rows |-> rows, marks |-> marks]
    /\ UNCHANGED <<rows, marks, txVars>>

\* A power loss keeps the commits that were synced.
LosePower ==
    /\ DropTx
    /\ rows' = disk.rows
    /\ marks' = disk.marks
    /\ UNCHANGED disk

----------------------------------------------------------------------------
(* The insert transaction *)

\* flushLocked with its commit; no transaction, nothing to do.
FlushCommits ==
    /\ rows' = rows \cup txRows
    /\ txOpen' = FALSE
    /\ txRows' = {}
    /\ pending' = IF txOpen THEN 0 ELSE pending
    /\ UNCHANGED disk

\* flushLocked when closing the statement or committing fails: the batch is
\* dropped and s.pending keeps its value.
FlushFails ==
    /\ txOpen
    /\ txOpen' = FALSE
    /\ txRows' = {}
    /\ UNCHANGED <<rows, pending, disk>>

\* INSERT OR IGNORE affects a row only for a domain the connection cannot see.
Inserted(d) == d \notin rows \cup txRows

\* s.pending after ensureInsertTx.
Batched == IF txOpen THEN pending ELSE 0

\* Mutant: the batch is committed one insert late.
AddDomainLate(d) ==
    LET batch == txRows \cup ({d} \ rows)
        n == Batched + 1
    IN  /\ IF n > BatchSize
             THEN rows' = rows \cup batch /\ DropTx
             ELSE rows' = rows /\ txOpen' = TRUE /\ txRows' = batch /\ pending' = n
        /\ UNCHANGED <<marks, disk>>
AddDomain(d) ==
    LET batch == txRows \cup ({d} \ rows)
        n == Batched + 1
    IN  /\ IF n >= BatchSize
             THEN /\ rows' = rows \cup batch
                  /\ DropTx
             ELSE /\ rows' = rows
                  /\ txOpen' = TRUE
                  /\ txRows' = batch
                  /\ pending' = n
        /\ UNCHANGED <<marks, disk>>

\* ensureInsertTx fails: no transaction is begun.
BeginFails == ~txOpen /\ UNCHANGED storeVars

\* Mutant: s.pending is incremented before the error is looked at.
InsertFailsCounted ==
    /\ txOpen' = TRUE
    /\ pending' = Batched + 1
    /\ UNCHANGED <<rows, marks, txRows, disk>>

\* Mutant: a failed insert rolls the batch back.
InsertFailsRollsBack == DropTx /\ UNCHANGED <<rows, marks, disk>>

\* The insert statement fails: the transaction stays open for the next call.
InsertFails ==
    /\ txOpen' = TRUE
    /\ pending' = Batched
    /\ UNCHANGED <<rows, marks, txRows, disk>>

\* The insert that fills the batch succeeds and its commit fails.
BatchCommitFails ==
    /\ Batched + 1 >= BatchSize
    /\ txOpen' = FALSE
    /\ txRows' = {}
    /\ pending' = Batched + 1
    /\ UNCHANGED <<rows, marks, disk>>

----------------------------------------------------------------------------
(* Statements outside the transaction, each preceded by a Flush *)

\* The upserts of MarkBlockStarted, MarkBlockCompleted and MarkBlockFailed.
Mark(f, status) == marks' = [marks EXCEPT ![f] = status]

BlockComplete(f) == marks[f] = "completed"

----------------------------------------------------------------------------
(* The store under any client *)

StoreNext ==
    \/ \E d \in Domain : AddDomain(d)
    \/ BeginFails
    \/ InsertFails
    \/ BatchCommitFails
    \/ FlushCommits /\ UNCHANGED marks
    \/ FlushFails /\ UNCHANGED marks
    \/ \E f \in File, s \in Status \ {"absent"} :
         Mark(f, s) /\ (FlushCommits \/ UNCHANGED <<rows, txVars, disk>>)
    \/ \E fresh \in BOOLEAN : Open(fresh)
    \/ WalSync
    \/ LosePower

StoreSpec == StoreInit /\ [][StoreNext]_storeVars

----------------------------------------------------------------------------
(* Properties *)

\* Every variable has its type; s.pending never passes the batch size, also
\* when a failed commit leaves it where it was.
StoreTypeOK ==
    /\ rows \subseteq Domain
    /\ marks \in [File -> Status]
    /\ txOpen \in BOOLEAN
    /\ txRows \subseteq Domain
    /\ pending \in 0..BatchSize
    /\ disk \in [rows : SUBSET Domain, marks : [File -> Status]]

\* What a crash can lose is bounded: an open transaction holds only rows that
\* are not committed yet, never more of them than s.pending counts, and s.pending
\* stays below the batch size (AddDomain commits the insert that reaches it).
LossWindow ==
    /\ txRows \cap rows = {}
    /\ txOpen => pending < BatchSize /\ Cardinality(txRows) <= pending
    /\ ~txOpen => txRows = {}
=============================================================================
