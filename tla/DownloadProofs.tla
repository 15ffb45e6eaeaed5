--------------------------- MODULE DownloadProofs ---------------------------
(***************************************************************************)
(* For objects of any size, any threshold and limit of cooldowns, and any  *)
(* combination of troubles, the temporary file is a prefix of the object,  *)
(* and a download that succeeds has all of it.  What has to be added to    *)
(* make that inductive is how the body of the current response, the count  *)
(* of the code and the end of the object relate.                           *)
(***************************************************************************)
EXTENDS Download, TLAPS

\* While a body is copied it continues where the file ends, and ends where the
\* object does unless the server cut the range; io.EOF was returned at its end.
BodyFollowsFile ==
    /\ pc \in Copying => body = downloaded /\ body <= last
    /\ pc \in Copying /\ ~May("cut") => last = Size
    /\ pc \in {"clear", "rearm"} /\ eof => body = last
    /\ pc = "done" /\ ~May("cut") => downloaded = Size

\* A request fails for good when the server, the connection or the disk does, when
\* the timer's callback lost its flag, or when there is nothing left to ask for.
ErrorHasCause ==
    /\ pc = "failed" => err # "none"
    /\ pc = "failed" /\ err = "permanent" /\ trouble \cap Permanent = {} => downloaded = Size

\* TypeOK in two parts, for the provers' sake: Booleans, and the rest.
Flags ==
    /\ eof \in BOOLEAN
    /\ armed \in BOOLEAN
    /\ stalled \in BOOLEAN
    /\ cancelled \in BOOLEAN

Counts ==
    /\ pc \in Copying \cup {"request", "failed", "done", "error"}
    /\ file \in Seq(1..Size)
    /\ downloaded \in 0..Size
    /\ body \in 0..Size
    /\ last \in 0..Size
    /\ callback \in {"none", "started", "stored"}
    /\ err \in Transient \cup {"none", "permanent", "canceled"}
    /\ failures \in 0..(FailThreshold - 1)
    /\ cooldowns \in 0..maxCooldowns
    /\ maxCooldowns \in CooldownLimits

CountsInv ==
    /\ Counts
    /\ FileIsPrefix
    /\ BodyFollowsFile
    /\ ErrorHasCause

DownloadInv == Flags /\ CountsInv

-----------------------------------------------------------------------------
(* Prefixes *)

\* The first d bytes and the n after them are the first d + n bytes.
LEMMA PrefixGrows ==
    ASSUME NEW d \in Nat, NEW n \in Nat
    PROVE  [i \in 1..d |-> i] \o [i \in 1..n |-> d + i] = [i \in 1..(d + n) |-> i]
  OBVIOUS

LEMMA PrefixIsSeq ==
    ASSUME NEW d \in 0..Size
    PROVE  [i \in 1..d |-> i] \in Seq(1..Size)
  BY DownloadAssumption DEF DownloadAssumption

LEMMA EmptyPrefix == <<>> = [i \in 1..0 |-> i]
  OBVIOUS

-----------------------------------------------------------------------------
(* Initial states and steps *)

LEMMA DownloadInit == Init => DownloadInv
  <1> SUFFICES ASSUME Init PROVE DownloadInv
    OBVIOUS
  <1> USE DownloadAssumption DEF DownloadAssumption
  <1>1. FileIsPrefix
    BY EmptyPrefix DEF Init, FileIsPrefix
  <1>2. Counts
    <2>1. file \in Seq(1..Size)
      BY DEF Init
    <2> QED BY <2>1 DEF Init, Counts, Copying, Transient
  <1>3. BodyFollowsFile /\ ErrorHasCause
    BY DEF Init, BodyFollowsFile, ErrorHasCause, Copying
  <1>4. Flags
    BY DEF Init, Flags
  <1> QED BY <1>1, <1>2, <1>3, <1>4 DEF DownloadInv, CountsInv

\* The flags stay Booleans.
LEMMA FlagsStep ==
    ASSUME Flags, [Next]_vars
    PROVE  Flags'
  <1> USE DEF Flags, Fails, NoRequest, request, retries, setting
  <1>1. CASE Request
    BY <1>1 DEF Request, Connect, Restart, RequestFails
  <1>2. CASE \E n \in 1..Size : ReadData(n)
    <2>1. PICK n \in 1..Size : ReadData(n)
      BY <1>2
    <2>2. eof' \in BOOLEAN
      BY <2>1 DEF ReadData
    <2> QED BY <2>1, <2>2 DEF ReadData
  <1>3. CASE WriteFails \/ ReadEOF \/ ReadFails
    BY <1>3 DEF WriteFails, ReadEOF, ReadFails
  <1>4. CASE ClearStalled \/ ReadCancelled
    BY <1>4 DEF ClearStalled, ReadCancelled
  <1>5. CASE Rearm
    BY <1>5 DEF Rearm
  <1>6. CASE CheckContext
    BY <1>6 DEF CheckContext
  <1>7. CASE Timer
    BY <1>7 DEF Timer, Expire, StoreStalled, Cancel
  <1>8. CASE AfterFailure
    BY <1>8 DEF AfterFailure, FailForGood, RetrySoon, CoolDown, GiveUp
  <1>9. CASE Finished \/ UNCHANGED vars
    BY <1>9 DEF Finished, vars
  <1> QED BY <1>1, <1>2, <1>3, <1>4, <1>5, <1>6, <1>7, <1>8, <1>9 DEF Next, Arrive, Copy

\* The steps that leave the file, or empty it.
LEMMA FileStep ==
    ASSUME DownloadInv,
           \/ UNCHANGED <<file, downloaded>>
           \/ file' = <<>> /\ downloaded' = 0
    PROVE  FileIsPrefix' /\ downloaded' \in 0..Size /\ file' \in Seq(1..Size)
  <1> USE DownloadAssumption DEF DownloadAssumption, DownloadInv, CountsInv, Counts, FileIsPrefix
  <1>1. CASE UNCHANGED <<file, downloaded>>
    BY <1>1
  <1>2. CASE file' = <<>> /\ downloaded' = 0
    BY <1>2, EmptyPrefix
  <1> QED BY <1>1, <1>2

\* The step that appends to it.
LEMMA ReadDataStep ==
    ASSUME DownloadInv, NEW n \in 1..Size, ReadData(n)
    PROVE  CountsInv'
  <1> USE DownloadAssumption DEF DownloadAssumption, DownloadInv, CountsInv
  <1>1. /\ body = downloaded /\ body + n <= last /\ last <= Size
        /\ downloaded \in Nat /\ body \in Nat /\ last \in Nat
    BY DEF ReadData, BodyFollowsFile, Copying, Counts
  <1>2. file' = [i \in 1..downloaded' |-> i]
    BY <1>1, PrefixGrows DEF ReadData, FileIsPrefix
  <1>3. downloaded' \in 0..Size /\ body' \in 0..Size
    BY <1>1 DEF ReadData
  <1>4. file' \in Seq(1..Size)
    BY <1>2, <1>3, PrefixIsSeq
  <1>5. eof' => body' = last'
    <2>1. body' < last' => ~eof'
      <3> SUFFICES ASSUME body' < last' PROVE ~eof'
        OBVIOUS
      <3>1. eof' \in {FALSE}
        BY Zenon DEF ReadData
      <3> QED BY <3>1
    <2>2. body' <= last'
      BY <1>1 DEF ReadData
    <2>3. body' \in Nat /\ last' \in Nat
      BY <1>1, <1>3 DEF ReadData
    <2> QED BY <2>1, <2>2, <2>3
  <1>6. Counts'
    BY <1>3, <1>4, <1>5 DEF ReadData, Counts, Copying, retries, setting
  <1>7. BodyFollowsFile'
    BY <1>1, <1>5 DEF ReadData, BodyFollowsFile, Copying, setting, May
  <1>8. ErrorHasCause'
    BY DEF ReadData, ErrorHasCause, setting
  <1> QED BY <1>2, <1>6, <1>7, <1>8 DEF FileIsPrefix

\* Every other step of the download.
LEMMA RequestStep ==
    ASSUME DownloadInv, Request
    PROVE  CountsInv'
  <1> USE DownloadAssumption DEF DownloadAssumption, setting, retries
  <1>1. FileIsPrefix' /\ downloaded' \in 0..Size /\ file' \in Seq(1..Size)
    <2>1. \/ UNCHANGED <<file, downloaded>>
          \/ file' = <<>> /\ downloaded' = 0
      BY DEF Request, Connect, Restart, RequestFails
    <2> QED BY <2>1, FileStep
  <1> USE DEF DownloadInv, CountsInv
  <1>2. CASE Connect
    <2>1. last' \in (downloaded + 1)..Size \/ last' = Size
      BY <1>2 DEF Connect
    <2>2. downloaded \in 0..Size /\ downloaded < Size
      BY <1>2 DEF Connect, Counts
    <2>3. Counts'
      BY <1>1, <1>2, <2>1, <2>2 DEF Connect, Counts, Copying
    <2>4. BodyFollowsFile'
      BY <1>2, <2>1, <2>2 DEF Connect, BodyFollowsFile, Copying, May
    <2>5. ErrorHasCause'
      BY <1>2 DEF Connect, ErrorHasCause
    <2> QED BY <1>1, <1>2, <2>3, <2>4, <2>5 DEF Connect
  <1>3. CASE Restart
    <2>1. Counts'
      BY <1>1, <1>3 DEF Restart, Counts, Copying
    <2>2. BodyFollowsFile' /\ ErrorHasCause'
      BY <1>3 DEF Restart, BodyFollowsFile, ErrorHasCause, Copying, May
    <2> QED BY <1>1, <1>3, <2>1, <2>2 DEF Restart
  <1>4. CASE RequestFails
    <2>1. Counts'
      BY <1>1, <1>4 DEF RequestFails, Fails, NoRequest, Counts, Transient
    <2>2. BodyFollowsFile' /\ ErrorHasCause'
      BY <1>4 DEF RequestFails, Fails, BodyFollowsFile, ErrorHasCause, Copying, May, Permanent
    <2> QED BY <1>1, <1>4, <2>1, <2>2 DEF RequestFails
  <1> QED BY <1>2, <1>3, <1>4 DEF Request

LEMMA CopyStep ==
    ASSUME DownloadInv, Copy \/ WriteFails \/ ReadEOF \/ ReadFails
    PROVE  CountsInv'
  <1> USE DownloadAssumption DEF DownloadAssumption, setting, retries, request
  <1>1. FileIsPrefix' /\ downloaded' \in 0..Size /\ file' \in Seq(1..Size)
    <2>1. UNCHANGED <<file, downloaded>>
      BY DEF Copy, ClearStalled, Rearm, CheckContext, ReadCancelled, WriteFails, ReadEOF, ReadFails
    <2> QED BY <2>1, FileStep
  <1> USE DEF DownloadInv, CountsInv
  <1>2. CASE ClearStalled \/ Rearm \/ ReadEOF
    <2>1. Counts'
      BY <1>1, <1>2 DEF ClearStalled, Rearm, ReadEOF, NoRequest, Counts, Copying
    <2>2. BodyFollowsFile' /\ ErrorHasCause'
      BY <1>2 DEF ClearStalled, Rearm, ReadEOF, BodyFollowsFile, ErrorHasCause, Copying, May
    <2> QED BY <1>1, <1>2, <2>1, <2>2 DEF ClearStalled, Rearm, ReadEOF
  <1>3. CASE CheckContext
    <2>1. Counts'
      BY <1>1, <1>3 DEF CheckContext, Fails, NoRequest, Counts, Copying, Transient
    <2>2. BodyFollowsFile' /\ ErrorHasCause'
      BY <1>3 DEF CheckContext, Fails, BodyFollowsFile, ErrorHasCause, Copying, May
    <2> QED BY <1>1, <1>3, <2>1, <2>2 DEF CheckContext
  <1>4. CASE ReadCancelled \/ WriteFails
    <2>1. Counts'
      BY <1>1, <1>4 DEF ReadCancelled, WriteFails, Fails, NoRequest, Counts, Transient
    <2>2. BodyFollowsFile' /\ ErrorHasCause'
      BY <1>4 DEF ReadCancelled, WriteFails, Fails, BodyFollowsFile, ErrorHasCause, Copying, May, Permanent
    <2> QED BY <1>1, <1>4, <2>1, <2>2 DEF ReadCancelled, WriteFails
  <1>5. CASE ReadFails
    <2>1. PICK error \in {"transient", "permanent"} :
             /\ May(IF error = "transient" THEN "drop" ELSE "reset")
             /\ Fails(IF stalled \/ cancelled THEN "stalled" ELSE error)
      BY <1>5 DEF ReadFails
    <2>2. Counts'
      BY <1>1, <1>5, <2>1 DEF ReadFails, Fails, NoRequest, Counts, Transient
    <2>3. BodyFollowsFile' /\ ErrorHasCause'
      BY <1>5, <2>1 DEF ReadFails, Fails, BodyFollowsFile, ErrorHasCause, Copying, May, Permanent
    <2> QED BY <1>1, <1>5, <2>2, <2>3 DEF ReadFails
  <1> QED BY <1>2, <1>3, <1>4, <1>5 DEF Copy

LEMMA TimerStep ==
    ASSUME DownloadInv, Timer \/ Finished \/ UNCHANGED vars
    PROVE  CountsInv'
  <1> USE DEF setting, retries, request, Timer, Expire, StoreStalled, Cancel, Finished, vars, DownloadInv, CountsInv
  <1>1. FileIsPrefix'
    BY DEF FileIsPrefix
  <1>2. Counts'
    BY DEF Counts
  <1>3. BodyFollowsFile' /\ ErrorHasCause'
    BY DEF BodyFollowsFile, ErrorHasCause, May
  <1> QED BY <1>1, <1>2, <1>3

LEMMA FailureStep ==
    ASSUME DownloadInv, AfterFailure
    PROVE  CountsInv'
  <1> USE DownloadAssumption DEF DownloadAssumption, setting, request, retries
  <1>1. FileIsPrefix' /\ downloaded' \in 0..Size /\ file' \in Seq(1..Size)
    <2>1. \/ UNCHANGED <<file, downloaded>>
          \/ file' = <<>> /\ downloaded' = 0
      BY DEF AfterFailure, FailForGood, RetrySoon, CoolDown, GiveUp
    <2> QED BY <2>1, FileStep
  <1> USE DEF DownloadInv, CountsInv
  <1>2. pc' \in {"error", "request"} /\ UNCHANGED <<request, err, setting>>
    BY DEF AfterFailure, FailForGood, RetrySoon, CoolDown, GiveUp
  <1>3. failures' \in 0..(FailThreshold - 1)
    BY DEF AfterFailure, FailForGood, RetrySoon, CoolDown, Counts
  <1>4. cooldowns' \in 0..maxCooldowns
    BY DEF AfterFailure, FailForGood, RetrySoon, CoolDown, GiveUp, OutOfCooldowns, Counts
  <1>5. Counts'
    BY <1>1, <1>2, <1>3, <1>4 DEF Counts
  <1>6. BodyFollowsFile' /\ ErrorHasCause'
    BY <1>2 DEF BodyFollowsFile, ErrorHasCause, Copying
  <1> QED BY <1>1, <1>5, <1>6

LEMMA DownloadStep == DownloadInv /\ [Next]_vars => DownloadInv'
  <1> SUFFICES ASSUME DownloadInv, [Next]_vars PROVE DownloadInv'
    OBVIOUS
  <1>0. Flags'
    BY FlagsStep DEF DownloadInv
  <1>1. CASE \E n \in 1..Size : ReadData(n)
    BY <1>0, <1>1, ReadDataStep DEF DownloadInv
  <1>2. CASE Request \/ Copy \/ WriteFails \/ ReadEOF \/ ReadFails
    BY <1>0, <1>2, RequestStep, CopyStep DEF DownloadInv
  <1>3. CASE Timer \/ Finished \/ UNCHANGED vars
    BY <1>0, <1>3, TimerStep DEF DownloadInv
  <1>4. CASE AfterFailure
    BY <1>0, <1>4, FailureStep DEF DownloadInv
  <1> QED BY <1>0, <1>1, <1>2, <1>3, <1>4 DEF Next, Arrive, DownloadInv

\* The inductive invariant holds of every download.
THEOREM DownloadInvariant == Spec => []DownloadInv
  BY DownloadInit, DownloadStep, PTL DEF Spec

-----------------------------------------------------------------------------
(* What follows from it *)

\* Type correctness; the counts of failures and cooldowns keep to their limits.
THEOREM DownloadTypeCorrect == Spec => []TypeOK
  <1>1. DownloadInv => TypeOK
    BY DEF DownloadInv, CountsInv, Flags, Counts, TypeOK
  <1> QED BY <1>1, DownloadInvariant, PTL

\* However often it is resumed and restarted, the file holds the first bytes of
\* the object, each once and in order.
THEOREM FileIsAPrefix == Spec => []FileIsPrefix
  <1>1. DownloadInv => FileIsPrefix
    BY DEF DownloadInv, CountsInv
  <1> QED BY <1>1, DownloadInvariant, PTL

\* A download that succeeds has the whole object, unless a range was cut short.
THEOREM DeliversWhole == Spec => []DeliveredWhole
  <1>1. DownloadInv => DeliveredWhole
    BY DEF DownloadInv, CountsInv, BodyFollowsFile, FileIsPrefix, DeliveredWhole
  <1> QED BY <1>1, DownloadInvariant, PTL

\* Without a limit on cooldowns transient failures end a download in two ways only.
THEOREM GivesUpInTwoWays == Spec => TwoWaysToGiveUp
  <1> DEFINE Patient == maxCooldowns = 0 /\ trouble \cap Permanent = {}
             Ending == pc # "error" /\ pc' = "error"
  <1>1. DownloadInv /\ [Next]_vars => [Patient /\ Ending => err = "canceled" \/ downloaded = Size]_vars
    <2> SUFFICES ASSUME DownloadInv, Next, Patient, Ending
                 PROVE  err = "canceled" \/ downloaded = Size
      OBVIOUS
    <2>1. AfterFailure
      BY DEF Next, Request, Connect, Restart, RequestFails, Arrive, ReadData, WriteFails, ReadEOF,
             ReadFails, Fails, Copy, ClearStalled, Rearm, CheckContext, ReadCancelled, Timer,
             Expire, StoreStalled, Cancel, Finished, vars
    <2>2. FailForGood
      BY <2>1 DEF AfterFailure, RetrySoon, CoolDown, OutOfCooldowns
    <2> QED BY <2>2 DEF FailForGood, DownloadInv, CountsInv, Counts, ErrorHasCause, Transient
  <1> QED BY <1>1, DownloadInvariant, PTL DEF Spec, TwoWaysToGiveUp

\* What was downloaded is downloaded again only when the server insists.
THEOREM KeepsProgress == Spec => ProgressKept
  <1>1. DownloadInv /\ [Next]_vars => [downloaded' < downloaded => Restart \/ pc' = "error"]_vars
    <2> SUFFICES ASSUME DownloadInv, Next, downloaded' < downloaded
                 PROVE  Restart \/ pc' = "error"
      OBVIOUS
    <2>1. downloaded \in Nat
      BY DownloadAssumption DEF DownloadAssumption, DownloadInv, CountsInv, Counts
    <2>2. ASSUME NEW n \in 1..Size, ReadData(n) PROVE FALSE
      <3>1. downloaded' = downloaded + n
        BY <2>2 DEF ReadData
      <3> QED BY <2>1, <3>1
    <2>3. downloaded' # downloaded
      BY <2>1
    <2> QED BY <2>2, <2>3 DEF Next, Request, Connect, RequestFails, Arrive, WriteFails, ReadEOF,
             ReadFails, Copy, ClearStalled, Rearm, CheckContext, ReadCancelled, Timer, Expire,
             StoreStalled, Cancel, AfterFailure, FailForGood, RetrySoon, CoolDown, GiveUp, Finished, vars
  <1> QED BY <1>1, DownloadInvariant, PTL DEF Spec, ProgressKept
=============================================================================
