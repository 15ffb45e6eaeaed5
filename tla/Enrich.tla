------------------------------- MODULE Enrich -------------------------------
(***************************************************************************)
(* czdomains enrich: enrichEach asks RDAP for every domain of its input,   *)
(* in order, and for the contacts of each, and writes one record per       *)
(* domain to a CSV and to a JSONL file.                                    *)
(*                                                                         *)
(* A contact is asked for once: Processor.entityCache keeps the answer, or *)
(* the error, under its handle.  Every request passes the rate limiter.    *)
(* The CSV writer buffers; the JSONL writer does not.                      *)
(*                                                                         *)
(* Time is a count of units relative to now, cut where it no longer makes  *)
(* a difference.                                                           *)
(***************************************************************************)
EXTENDS Integers, Sequences

CONSTANTS Worlds,       \* the input domains and what RDAP has of them
          Troubles,     \* what may go wrong together
          Delay,        \* --delay, in units of time
          BufferSize,   \* of the CSV writer, in half records
          NoHandle, NoLink

Role == {"registrar", "registrant", "administrative", "technical"}
ContactRole == Role \ {"registrar"}
\* "net": a request fails    "source": the store fails    "csv", "jsonl": a write fails
\* "crash": the process is killed
TroubleKind == {"net", "source", "csv", "jsonl", "crash"}

\* domains: the entities of each domain [roles, handle, link];
\* detail: the handle in the answer for each link
ASSUME EnrichAssumption ==
    /\ \A w \in Worlds :
         /\ Len(w.domains) \in Nat
         /\ \A d \in 1..Len(w.domains) :
              /\ Len(w.domains[d]) \in Nat
              /\ \A e \in 1..Len(w.domains[d]) : w.domains[d][e].roles \subseteq Role
    /\ Troubles \subseteq SUBSET TroubleKind
    /\ Delay \in Nat \ {0}
    /\ BufferSize \in Nat \ {0}

VARIABLES
    world, trouble,
    pc,
    i, j,           \* the domain and the entity at hand
    record,         \* the record of the domain
    entityCache,    \* the contacts kept: a function of handles
    ahead,          \* the limiter's next, from now; -1 when it is past, or zero
    gap,            \* the time since the last request began
    asked,          \* the handles EntityByURL was called for, in order
    csvBuffer,      \* half records in the buffer of the CSV writer,
    csvFile,        \* and in the file
    jsonl           \* the records in the JSONL file

chosen == <<world, trouble>>
work == <<i, j, record, entityCache, asked>>
time == <<ahead, gap>>
csv == <<csvBuffer, csvFile>>
vars == <<chosen, pc, work, time, csv, jsonl>>

May(kind) == kind \in trouble
NoRecord == [domain |-> 0, status |-> "error", registrar |-> NoHandle,
             contacts |-> [role \in ContactRole |-> <<>>]]
Entity == world.domains[i][j]

Init ==
    /\ world \in Worlds
    /\ trouble \in Troubles
    /\ pc = "input"
    /\ i = 1 /\ j = 1
    /\ record = NoRecord
    /\ entityCache = <<>>
    /\ ahead = -1 /\ gap = Delay
    /\ asked = <<>>
    /\ csvBuffer = 0 /\ csvFile = 0
    /\ jsonl = <<>>

----------------------------------------------------------------------------
(* Limiter.Wait, before the request for a domain or for an entity *)

\* The request begins; next is set from this moment.
Begin == ahead' = Delay /\ gap' = 0

LimiterPasses ==
    /\ pc \in {"domain", "entity"} /\ ahead < 0
    /\ Begin
    /\ pc' = IF pc = "domain" THEN "ask domain" ELSE "ask entity"
    /\ UNCHANGED <<chosen, work, csv, jsonl>>

LimiterWaits ==
    /\ pc \in {"domain", "entity"} /\ ahead >= 0
    /\ pc' = IF pc = "domain" THEN "wait domain" ELSE "wait entity"
    /\ UNCHANGED <<chosen, work, time, csv, jsonl>>

\* Mutant: next is moved on by the delay, not set from the end of the wait.
TimerFiresDrifts ==
    /\ pc \in {"wait domain", "wait entity"} /\ ahead <= 0
    /\ ahead' = ahead + Delay /\ gap' = 0
    /\ pc' = IF pc = "wait domain" THEN "ask domain" ELSE "ask entity"
    /\ UNCHANGED <<chosen, work, csv, jsonl>>

\* The timer fires at next, or some time later.
TimerFires ==
    /\ pc \in {"wait domain", "wait entity"} /\ ahead <= 0
    /\ Begin
    /\ pc' = IF pc = "wait domain" THEN "ask domain" ELSE "ask entity"
    /\ UNCHANGED <<chosen, work, csv, jsonl>>

Tick ==
    /\ pc \notin {"ended", "failed", "crashed"}
    /\ ahead' = IF ahead < 0 THEN ahead ELSE ahead - 1
    /\ gap' = IF gap = Delay THEN gap ELSE gap + 1
    /\ UNCHANGED <<chosen, pc, work, csv, jsonl>>

----------------------------------------------------------------------------
(* Processor.Enrich *)

\* ForEachDomain, or the loop over the input file, yields a domain.
Input ==
    /\ pc = "input" /\ i <= Len(world.domains)
    /\ record' = [NoRecord EXCEPT !.domain = i]
    /\ j' = 1
    /\ pc' = "domain"
    /\ UNCHANGED <<chosen, i, entityCache, asked, time, csv, jsonl>>

DomainFound ==
    /\ pc = "ask domain"
    /\ record' = [record EXCEPT !.status = "found"]
    /\ pc' = "entities"
    /\ UNCHANGED <<chosen, i, j, entityCache, asked, time, csv, jsonl>>

\* The record has the error and no contacts.
DomainFails ==
    /\ pc = "ask domain" /\ May("net")
    /\ pc' = "csv"
    /\ UNCHANGED <<chosen, work, time, csv, jsonl>>

NoMoreEntities ==
    /\ pc = "entities" /\ j > Len(world.domains[i])
    /\ pc' = "csv"
    /\ UNCHANGED <<chosen, work, time, csv, jsonl>>

\* The switch of Enrich takes one role: the first of these.
RoleOf(e) ==
    IF "registrar" \in e.roles THEN "registrar"
    ELSE IF "registrant" \in e.roles THEN "registrant"
    ELSE IF "administrative" \in e.roles THEN "administrative"
    ELSE "technical"

\* An entity with no role of these is left out; a registrar has no contact.
Registrar ==
    /\ pc = "entities" /\ j <= Len(world.domains[i])
    /\ RoleOf(Entity) = "registrar" \/ Entity.roles = {}
    /\ record' = IF Entity.roles = {} \/ record.registrar # NoHandle
                   THEN record
                   ELSE [record EXCEPT !.registrar = Entity.handle]
    /\ j' = j + 1
    /\ UNCHANGED <<chosen, pc, i, entityCache, asked, time, csv, jsonl>>

\* resolveContact returns a contact, which is in the cache by then.  A record has
\* one registrant, the last one, and lists its admins and techs.
Resolved(contact) ==
    /\ LET role == RoleOf(Entity)
           shown == [entity |-> Entity, contact |-> contact]
       IN  record' = [record EXCEPT !.contacts[role] =
                        IF role = "registrant" THEN <<shown>> ELSE Append(@, shown)]
    /\ j' = j + 1
    /\ pc' = "entities"
    /\ UNCHANGED i

Keep(handle, contact) ==
    entityCache' = [h \in DOMAIN entityCache \cup {handle} |->
                        IF h = handle THEN contact ELSE entityCache[h]]

IsContact ==
    /\ pc = "entities" /\ j <= Len(world.domains[i])
    /\ Entity.roles # {} /\ RoleOf(Entity) # "registrar"

ContactCached ==
    /\ IsContact /\ Entity.handle \in DOMAIN entityCache
    /\ Resolved(entityCache[Entity.handle])
    /\ UNCHANGED <<chosen, entityCache, asked, time, csv, jsonl>>

\* No self link.
ContactMissing ==
    /\ IsContact /\ Entity.handle \notin DOMAIN entityCache /\ Entity.link = NoLink
    /\ LET contact == [from |-> NoLink, status |-> "missing"] IN
         Keep(Entity.handle, contact) /\ Resolved(contact)
    /\ UNCHANGED <<chosen, asked, time, csv, jsonl>>

AskContact ==
    /\ IsContact /\ Entity.handle \notin DOMAIN entityCache /\ Entity.link # NoLink
    /\ pc' = "entity"
    /\ UNCHANGED <<chosen, work, time, csv, jsonl>>

Asked == asked' = Append(asked, Entity.handle)

\* Mutant: the answer is kept under the handle it names.
ContactFoundKeptAs ==
    /\ pc = "ask entity" /\ Asked
    /\ LET contact == [from |-> Entity.link, status |-> "found"] IN
         Keep(world.detail[Entity.link], contact) /\ Resolved(contact)
    /\ UNCHANGED <<chosen, time, csv, jsonl>>

\* The contact of the answer, kept under the handle the domain names.
ContactFound ==
    /\ pc = "ask entity" /\ Asked
    /\ LET contact == [from |-> Entity.link, status |-> "found"] IN
         Keep(Entity.handle, contact) /\ Resolved(contact)
    /\ UNCHANGED <<chosen, time, csv, jsonl>>

\* Mutant: an error is not kept.
ContactFailsForgotten ==
    /\ pc = "ask entity" /\ May("net") /\ Asked
    /\ Resolved([from |-> NoLink, status |-> "failed"])
    /\ UNCHANGED <<chosen, entityCache, time, csv, jsonl>>

ContactFails ==
    /\ pc = "ask entity" /\ May("net") /\ Asked
    /\ LET contact == [from |-> NoLink, status |-> "failed"] IN
         Keep(Entity.handle, contact) /\ Resolved(contact)
    /\ UNCHANGED <<chosen, time, csv, jsonl>>

----------------------------------------------------------------------------
(* The writers *)

\* One half of a record goes through the buffer; a full one is written first.
Half == IF csvBuffer = BufferSize
          THEN [file |-> csvFile + csvBuffer, buffer |-> 1]
          ELSE [file |-> csvFile, buffer |-> csvBuffer + 1]

\* CSVWriter.WriteRecord: the two halves, one after the other
WriteCSV ==
    /\ pc \in {"csv", "csv half"}
    /\ csvBuffer' = Half.buffer /\ csvFile' = Half.file
    /\ pc' = IF pc = "csv" THEN "csv half" ELSE "jsonl"
    /\ UNCHANGED <<chosen, work, time, jsonl>>

\* The error of each ends the loop.
Fails == pc' = "failed" /\ UNCHANGED <<chosen, work, time>>

\* A part of the buffer has reached the file.
FlushFails ==
    /\ May("csv")
    /\ \E n \in 0..(csvBuffer - 1) : csvFile' = csvFile + n /\ csvBuffer' = csvBuffer - n
    /\ Fails

WriteCSVFails ==
    /\ pc \in {"csv", "csv half"} /\ csvBuffer = BufferSize
    /\ FlushFails
    /\ UNCHANGED jsonl

\* Mutant: the loop goes on after the error.
WriteJSONLFailsGoesOn ==
    /\ pc = "jsonl" /\ May("jsonl")
    /\ i' = i + 1
    /\ pc' = "input"
    /\ UNCHANGED <<chosen, j, record, entityCache, asked, time, csv, jsonl>>

WriteJSONLFails ==
    /\ pc = "jsonl" /\ May("jsonl")
    /\ Fails
    /\ UNCHANGED <<csv, jsonl>>

WriteJSONL ==
    /\ pc = "jsonl"
    /\ jsonl' = Append(jsonl, record)
    /\ i' = i + 1
    /\ record' = NoRecord
    /\ pc' = "input"
    /\ UNCHANGED <<chosen, j, entityCache, asked, time, csv>>

\* The store fails while its domains are read.
InputFails ==
    /\ pc = "input" /\ May("source")
    /\ Fails
    /\ UNCHANGED <<csv, jsonl>>

\* The last Flush.  Nothing flushes the CSV writer after an error.
Finish ==
    /\ pc = "input" /\ i > Len(world.domains)
    /\ csvFile' = csvFile + csvBuffer /\ csvBuffer' = 0
    /\ pc' = "ended"
    /\ UNCHANGED <<chosen, work, time, jsonl>>

FinishFails ==
    /\ pc = "input" /\ i > Len(world.domains) /\ csvBuffer > 0
    /\ FlushFails
    /\ UNCHANGED jsonl

Crash ==
    /\ pc \notin {"ended", "failed", "crashed"} /\ May("crash")
    /\ pc' = "crashed"
    /\ UNCHANGED <<chosen, work, time, csv, jsonl>>

----------------------------------------------------------------------------

Next ==
    \/ LimiterPasses \/ LimiterWaits \/ TimerFires \/ Tick
    \/ Input \/ InputFails \/ DomainFound \/ DomainFails \/ NoMoreEntities
    \/ Registrar \/ ContactCached \/ ContactMissing \/ AskContact \/ ContactFound \/ ContactFails
    \/ WriteCSV \/ WriteCSVFails \/ WriteJSONL \/ WriteJSONLFails
    \/ Finish \/ FinishFails \/ Crash

Spec == Init /\ [][Next]_vars

----------------------------------------------------------------------------
(* Properties *)

\* README, "Output": a record per domain in both files.  Both list the same records
\* in the order of the input; after an error or a crash the CSV file is at most one
\* record ahead of the other, and behind it by no more than its buffer, which
\* nothing flushes then.
WritersAgree ==
    /\ \A k \in 1..Len(jsonl) : jsonl[k].domain = k
    /\ csvFile <= 2 * (Len(jsonl) + 1)
    /\ csvFile >= 2 * Len(jsonl) - BufferSize
    /\ pc = "ended" => Len(jsonl) = Len(world.domains) /\ csvFile = 2 * Len(jsonl)

\* A record shows the contacts of its own domain, and no other contact's data for one:
\* what it has was fetched from the link of an entity with the same handle.  Entities
\* without a handle count as one.
ContactsOwn ==
    \A k \in 1..Len(jsonl) : \A role \in ContactRole : \A n \in 1..Len(jsonl[k].contacts[role]) :
        LET c == jsonl[k].contacts[role][n] IN
        /\ \E e \in 1..Len(world.domains[k]) : world.domains[k][e] = c.entity
        /\ c.contact.from # NoLink =>
            \E d \in 1..Len(world.domains) : \E e \in 1..Len(world.domains[d]) :
                /\ world.domains[d][e].handle = c.entity.handle
                /\ world.domains[d][e].link = c.contact.from

\* RDAP is asked for a contact once in a run, also when the answer was an error.
AskedOnce == \A m, n \in 1..Len(asked) : asked[m] = asked[n] => m = n

\* Two requests, for domains or contacts, begin no less than --delay apart, however
\* long each takes and however late a timer fires.
RequestsSpaced ==
    [][pc # pc' /\ pc' \in {"ask domain", "ask entity"} => gap >= Delay]_vars
=============================================================================
