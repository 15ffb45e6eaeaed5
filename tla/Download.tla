------------------------------ MODULE Download ------------------------------
(***************************************************************************)
(* downloadCommonCrawlObjectToTemp: one object is downloaded into a        *)
(* temporary file, by as many requests as it takes.  A request asks for    *)
(* the bytes that are still missing; its body is copied while a stall      *)
(* timer runs, whose callback cancels the request from another goroutine;  *)
(* a transient failure is retried, and after FailThreshold of them in all  *)
(* the download cools down, at most --cc-max-cooldowns times.              *)
(*                                                                         *)
(* Left out: progress reports, the total they show, and how long a retry   *)
(* or a cooldown waits (the variable attempt only sets that).              *)
(***************************************************************************)
EXTENDS Naturals, Sequences

CONSTANTS Size,             \* the object is the bytes 1..Size
          FailThreshold,    \* --cc-fail-threshold
          CooldownLimits,   \* the values of --cc-max-cooldowns; 0 is no limit
          Troubles          \* what the network, the server and the disk may do together

\* "busy": no answer, 429 or 5xx       "refuse":  another status, or no connection
\* "drop": the body ends early         "reset":   the connection is reset
\* "silence": no byte for so long that the stall timer fires
\* "whole": a range is answered with the whole object (status 200)
\* "cut": a range is answered with a shorter one (status 206)
\* "lateEOF": the end of the body arrives after its last byte (HTTP/2)
\* "disk": a write fails
TroubleKind == {"busy", "refuse", "drop", "reset", "silence", "whole", "cut",
                "lateEOF", "disk"}

ASSUME DownloadAssumption ==
    /\ Size \in Nat \ {0}
    /\ FailThreshold \in Nat \ {0}
    /\ CooldownLimits \subseteq Nat
    /\ Troubles \subseteq SUBSET TroubleKind

VARIABLES
    trouble,        \* the trouble of this download
    maxCooldowns,   \* its --cc-max-cooldowns
    pc,             \* where the download is
    file,           \* the bytes in the temporary file
    downloaded,     \* as the code counts them
    body,           \* the last byte the current response has delivered
    last,           \* the last byte it holds
    eof,            \* the last Read returned io.EOF with its data
    armed,          \* the stall timer is running
    callback,       \* the timer's callback: not running, started, or stalled is stored
    stalled,        \* the flag it shares with the copy
    cancelled,      \* requestCtx is cancelled
    err,            \* the error of the last request
    failures,       \* transientFailures
    cooldowns

request == <<body, last, eof, armed, callback, stalled, cancelled>>
retries == <<failures, cooldowns>>
setting == <<trouble, maxCooldowns>>
vars == <<setting, pc, file, downloaded, request, err, retries>>

\* Mutant: a body that ends early is not worth a retry.
TransientIsStall == {"stalled"}
Transient == {"transient", "stalled"}
Copying == {"read", "clear", "rearm", "check"}

May(kind) == kind \in trouble

----------------------------------------------------------------------------
(* Requests *)

\* Nothing is left of a request: cancel is called and its timer is stopped.  A
\* callback that still runs only reaches variables nobody reads any more.
NoRequest ==
    /\ body' = 0 /\ last' = 0 /\ eof' = FALSE
    /\ armed' = FALSE /\ callback' = "none"
    /\ stalled' = FALSE /\ cancelled' = FALSE

Fails(error) == pc' = "failed" /\ err' = error /\ NoRequest

\* doResumableRequest is answered from the first missing byte, and the copy begins.
Connect ==
    /\ pc = "request" /\ downloaded < Size
    /\ pc' = "read"
    /\ body' = downloaded
    /\ last' \in IF downloaded > 0 /\ May("cut") THEN (downloaded + 1)..Size ELSE {Size}
    /\ armed' = TRUE
    /\ UNCHANGED <<file, downloaded, eof, callback, stalled, cancelled, err, retries, setting>>

\* Mutant: the count starts over and the file does not.
RestartKeepsFile ==
    /\ pc = "request" /\ downloaded > 0 /\ May("whole")
    /\ pc' = "read"
    /\ downloaded' = 0
    /\ body' = 0 /\ last' = Size
    /\ armed' = TRUE
    /\ UNCHANGED <<file, eof, callback, stalled, cancelled, err, retries, setting>>

\* A range is answered with the whole object: the file starts over.
Restart ==
    /\ pc = "request" /\ downloaded > 0 /\ May("whole")
    /\ pc' = "read"
    /\ file' = <<>>
    /\ downloaded' = 0
    /\ body' = 0 /\ last' = Size
    /\ armed' = TRUE
    /\ UNCHANGED <<eof, callback, stalled, cancelled, err, retries, setting>>

\* There is no answer or no good one.  A range that starts behind the last byte
\* cannot be satisfied (status 416).
RequestFails ==
    /\ pc = "request"
    /\ \/ May("busy") /\ Fails("transient")
       \/ (May("refuse") \/ downloaded = Size) /\ Fails("permanent")
    /\ UNCHANGED <<file, downloaded, retries, setting>>

----------------------------------------------------------------------------
(* copyResponseBodyWithProgress *)

\* src.Read returns n bytes and they are written.
ReadData(n) ==
    /\ pc = "read" /\ body + n <= last
    /\ pc' = "clear"
    /\ file' = file \o [i \in 1..n |-> body + i]
    /\ downloaded' = downloaded + n
    /\ body' = body + n
    /\ eof' \in IF body' < last THEN {FALSE}
                ELSE IF May("lateEOF") THEN BOOLEAN ELSE {TRUE}
    /\ UNCHANGED <<last, armed, callback, stalled, cancelled, err, retries, setting>>

WriteFails ==
    /\ pc = "read" /\ body < last /\ May("disk")
    /\ Fails("permanent")
    /\ UNCHANGED <<file, downloaded, retries, setting>>

\* stalled.Store(false)
ClearStalled ==
    /\ pc = "clear"
    /\ pc' = "rearm"
    /\ stalled' = FALSE
    /\ UNCHANGED <<file, downloaded, body, last, eof, armed, callback, cancelled, err, retries, setting>>

\* Mutant: the timer is stopped and not started again.
RearmForgets ==
    /\ pc = "rearm"
    /\ IF eof
         THEN pc' = "done" /\ NoRequest
         ELSE /\ pc' = "check"
              /\ armed' = FALSE
              /\ UNCHANGED <<body, last, eof, callback, stalled, cancelled>>
    /\ UNCHANGED <<file, downloaded, err, retries, setting>>

\* timer.Stop, which does not wait for a callback that has started, and timer.Reset
Rearm ==
    /\ pc = "rearm"
    /\ IF eof
         THEN pc' = "done" /\ NoRequest
         ELSE /\ pc' = "check"
              /\ armed' = TRUE
              /\ UNCHANGED <<body, last, eof, callback, stalled, cancelled>>
    /\ UNCHANGED <<file, downloaded, err, retries, setting>>

\* ctx.Err() after a Read that brought data
CheckContext ==
    /\ pc = "check"
    /\ IF cancelled
         THEN Fails(IF stalled THEN "stalled" ELSE "canceled")
         ELSE pc' = "read" /\ UNCHANGED <<request, err>>
    /\ UNCHANGED <<file, downloaded, retries, setting>>

ReadEOF ==
    /\ pc = "read" /\ body = last
    /\ pc' = "done"
    /\ NoRequest
    /\ UNCHANGED <<file, downloaded, err, retries, setting>>

\* Mutant: a body that ends early is taken for the whole object.
ReadFailsIsEOF ==
    /\ pc = "read" /\ May("drop")
    /\ pc' = "done"
    /\ NoRequest
    /\ UNCHANGED <<file, downloaded, err, retries, setting>>

\* src.Read fails; the cause is lost when the timer has fired.
ReadFails ==
    /\ pc = "read"
    /\ \E error \in {e \in {"transient", "permanent"} :
                        May(IF e = "transient" THEN "drop" ELSE "reset")} :
         Fails(IF stalled \/ cancelled THEN "stalled" ELSE error)
    /\ UNCHANGED <<file, downloaded, retries, setting>>

ReadCancelled ==
    /\ pc = "read" /\ cancelled
    /\ Fails("stalled")
    /\ UNCHANGED <<file, downloaded, retries, setting>>

----------------------------------------------------------------------------
(* The stall timer's goroutine *)

Expire ==
    /\ armed /\ callback = "none" /\ May("silence")
    /\ armed' = FALSE
    /\ callback' = "started"
    /\ UNCHANGED <<pc, file, downloaded, body, last, eof, stalled, cancelled, err, retries, setting>>

StoreStalled ==
    /\ callback = "started"
    /\ callback' = "stored"
    /\ stalled' = TRUE
    /\ UNCHANGED <<pc, file, downloaded, body, last, eof, armed, cancelled, err, retries, setting>>

Cancel ==
    /\ callback = "stored"
    /\ callback' = "none"
    /\ cancelled' = TRUE
    /\ UNCHANGED <<pc, file, downloaded, body, last, eof, armed, stalled, err, retries, setting>>

----------------------------------------------------------------------------
(* After a failed request *)

\* The deferred cleanup removes the temporary file.
GiveUp ==
    /\ pc' = "error"
    /\ file' = <<>>
    /\ downloaded' = 0
    /\ UNCHANGED <<request, err, cooldowns, setting>>

FailForGood ==
    /\ pc = "failed" /\ err \notin Transient
    /\ GiveUp
    /\ UNCHANGED failures

\* Mutant: a retry starts from the first byte.
RetryFromZero ==
    /\ pc = "failed" /\ err \in Transient
    /\ failures + 1 < FailThreshold
    /\ failures' = failures + 1
    /\ pc' = "request"
    /\ file' = <<>> /\ downloaded' = 0
    /\ UNCHANGED <<request, err, cooldowns, setting>>

RetrySoon ==
    /\ pc = "failed" /\ err \in Transient
    /\ failures + 1 < FailThreshold
    /\ failures' = failures + 1
    /\ pc' = "request"
    /\ UNCHANGED <<file, downloaded, request, err, cooldowns, setting>>

OutOfCooldowns == maxCooldowns > 0 /\ cooldowns >= maxCooldowns

\* cooldownAfterTransient: without a limit nothing reads the count of cooldowns,
\* which the model then leaves at 0.
CoolDown ==
    /\ pc = "failed" /\ err \in Transient
    /\ failures + 1 >= FailThreshold
    /\ failures' = 0
    /\ IF OutOfCooldowns
         THEN GiveUp
         ELSE /\ pc' = "request"
              /\ cooldowns' = IF maxCooldowns > 0 THEN cooldowns + 1 ELSE cooldowns
              /\ UNCHANGED <<file, downloaded, request, err, setting>>

Finished == pc \in {"done", "error"} /\ UNCHANGED vars

----------------------------------------------------------------------------

Init ==
    /\ trouble \in Troubles
    /\ maxCooldowns \in CooldownLimits
    /\ pc = "request"
    /\ file = <<>>
    /\ downloaded = 0
    /\ body = 0 /\ last = 0 /\ eof = FALSE
    /\ armed = FALSE /\ callback = "none"
    /\ stalled = FALSE /\ cancelled = FALSE
    /\ err = "none"
    /\ failures = 0 /\ cooldowns = 0

Request == Connect \/ Restart \/ RequestFails
Arrive == (\E n \in 1..Size : ReadData(n)) \/ WriteFails \/ ReadEOF \/ ReadFails
Copy == ClearStalled \/ Rearm \/ CheckContext \/ ReadCancelled
Timer == Expire \/ StoreStalled \/ Cancel
AfterFailure == FailForGood \/ RetrySoon \/ CoolDown

Next == Request \/ Arrive \/ Copy \/ Timer \/ AfterFailure \/ Finished

Spec == Init /\ [][Next]_vars

\* The response header has a timeout, the timer fires, and the two goroutines
\* run.  Nothing obliges a server that may fall silent to send a byte of the body.
FairSpec == Spec /\ WF_vars(Request) /\ WF_vars(Copy) /\ WF_vars(Timer)
                 /\ WF_vars(AfterFailure)
                 /\ ("silence" \notin trouble => WF_vars(Arrive))

----------------------------------------------------------------------------
(* Properties *)

\* Every variable has its type.
TypeOK ==
    /\ pc \in Copying \cup {"request", "failed", "done", "error"}
    /\ file \in Seq(1..Size)
    /\ downloaded \in 0..Size
    /\ body \in 0..Size
    /\ last \in 0..Size
    /\ eof \in BOOLEAN
    /\ armed \in BOOLEAN
    /\ callback \in {"none", "started", "stored"}
    /\ stalled \in BOOLEAN
    /\ cancelled \in BOOLEAN
    /\ err \in Transient \cup {"none", "permanent", "canceled"}
    /\ failures \in 0..(FailThreshold - 1)
    /\ cooldowns \in 0..maxCooldowns

\* Whatever was retried, resumed and restarted, the file holds the first bytes
\* of the object, each once and in order, and as many as the code counts.
FileIsPrefix == file = [i \in 1..downloaded |-> i]

\* A download that succeeds hands over the whole object, unless the server cut a
\* range short: the end of the body is then taken for the end of the object.
DeliveredWhole == pc = "done" /\ ~May("cut") => file = [i \in 1..Size |-> i]

\* What was downloaded is not downloaded again, unless the server insists.
ProgressKept ==
    [][downloaded' < downloaded => Restart \/ pc' = "error"]_vars

\* What is not transient by the README's words: the server says no, the
\* connection is reset, the disk is full.
Permanent == {"refuse", "reset", "disk"}

\* README: "--cc-max-cooldowns 0 means wait indefinitely until the request
\* succeeds".  Transient failures alone never end the download.
NeverGivesUp == maxCooldowns = 0 /\ trouble \cap Permanent = {} => pc # "error"

\* They do so only in two ways, however they are mixed: the request was cancelled by
\* a callback whose flag was cleared, or the body broke off behind its last byte.
TwoWaysToGiveUp ==
    [][/\ maxCooldowns = 0 /\ trouble \cap Permanent = {}
       /\ pc # "error" /\ pc' = "error"
       => err = "canceled" \/ downloaded = Size]_vars

\* With a limit on the cooldowns a download ends, however the server behaves: it
\* falls silent, or starts the object over for ever, each time with some progress.
Ends == maxCooldowns > 0 => <>(pc \in {"done", "error"})
=============================================================================
