---------------------------- MODULE EnrichProofs ----------------------------
(***************************************************************************)
(* Proofs about Enrich: that requests keep their distance, that RDAP is    *)
(* asked for a contact once, that the two files keep in step, and that a   *)
(* record has contacts of its own domain only, for every input, every      *)
(* delay, every size of the buffer and every trouble.                      *)
(*                                                                         *)
(* Of the four invariants only the last rests on another, the one of the   *)
(* files.                                                                  *)
(***************************************************************************)
EXTENDS Enrich, TLAPS

----------------------------------------------------------------------------
(* The limiter *)

\* What is missing of the time since the last request is ahead of the next one.
SpacingInv ==
    /\ gap \in 0..Delay
    /\ ahead \in -1..Delay
    /\ ahead >= 0 => gap + ahead >= Delay
    /\ ahead < 0 => gap = Delay

\* The steps that do not touch the clock.
LEMMA SpacingStep ==
    ASSUME SpacingInv, [Next]_vars
    PROVE  /\ SpacingInv'
           /\ pc # pc' /\ pc' \in {"ask domain", "ask entity"} => gap >= Delay
<1>0. Delay \in Nat \ {0}
  BY EnrichAssumption
<1>1. ASSUME UNCHANGED time PROVE SpacingInv'
  BY <1>1 DEF SpacingInv, time
<1>2. CASE LimiterPasses \/ TimerFires
  <2>0. ahead < 0 \/ ahead <= 0
    BY <1>2 DEF LimiterPasses, TimerFires
  <2>1. ahead' = Delay /\ gap' = 0
    BY <1>2 DEF LimiterPasses, TimerFires, Begin
  <2>2. gap >= Delay
    BY <1>0, <2>0 DEF SpacingInv
  <2>3. SpacingInv'
    BY <1>0, <2>1 DEF SpacingInv
  <2> QED BY <2>2, <2>3
<1>4. CASE Tick
  <2>1. pc' = pc
    BY <1>4 DEF Tick
  <2>2. SpacingInv'
    BY <1>0, <1>4 DEF Tick, SpacingInv
  <2> QED BY <2>1, <2>2
<1>5. CASE LimiterWaits \/ UNCHANGED vars
  <2>1. (UNCHANGED time /\ pc' \notin {"ask domain", "ask entity"}) \/ pc' = pc
    BY <1>5 DEF LimiterWaits, vars
  <2>2. UNCHANGED time
    BY <1>5 DEF LimiterWaits, vars
  <2> QED BY <1>1, <2>1, <2>2
<1>6. CASE Input \/ InputFails \/ DomainFound \/ DomainFails \/ NoMoreEntities \/ Registrar
  <2>1. UNCHANGED time /\ (pc' = pc \/ pc' \notin {"ask domain", "ask entity"})
    BY <1>6 DEF Input, InputFails, Fails, DomainFound, DomainFails, NoMoreEntities, Registrar
  <2> QED BY <1>1, <2>1
<1>7. CASE ContactCached \/ ContactMissing \/ AskContact \/ ContactFound \/ ContactFails
  <2>1. UNCHANGED time /\ pc' \notin {"ask domain", "ask entity"}
    BY <1>7 DEF ContactCached, ContactMissing, AskContact, ContactFound, ContactFails, Resolved
  <2> QED BY <1>1, <2>1
<1>8. CASE WriteCSV \/ WriteCSVFails \/ WriteJSONL \/ WriteJSONLFails \/ Finish \/ FinishFails
           \/ Crash
  <2>1. UNCHANGED time /\ pc' \notin {"ask domain", "ask entity"}
    BY <1>8 DEF WriteCSV, WriteCSVFails, WriteJSONL, WriteJSONLFails, Finish, FinishFails,
                FlushFails, Fails, Crash
  <2> QED BY <1>1, <2>1
<1> QED
  BY <1>2, <1>4, <1>5, <1>6, <1>7, <1>8 DEF Next

\* Two requests begin no less than the delay apart.
THEOREM RequestsKeepDistance == Spec => RequestsSpaced
<1>1. Init => SpacingInv
  <2>1. Delay \in Nat \ {0} BY EnrichAssumption
  <2> QED BY <2>1 DEF Init, SpacingInv
<1>2. SpacingInv /\ [Next]_vars => SpacingInv'
  BY SpacingStep
<1>3. SpacingInv /\ [Next]_vars
        => [pc # pc' /\ pc' \in {"ask domain", "ask entity"} => gap >= Delay]_vars
  BY SpacingStep
<1> QED
  BY <1>1, <1>2, <1>3, PTL DEF Spec, RequestsSpaced

----------------------------------------------------------------------------
(* The entity cache *)

\* What was asked for is in the cache, and what is about to be asked for is not.
AskedInv ==
    /\ asked \in Seq(DOMAIN entityCache)
    /\ pc \in {"entity", "wait entity", "ask entity"} =>
           Entity.handle \notin DOMAIN entityCache
    /\ AskedOnce

LEMMA KeepDomain ==
    ASSUME NEW handle, NEW contact, Keep(handle, contact)
    PROVE  DOMAIN entityCache' = DOMAIN entityCache \cup {handle}
BY DEF Keep

\* A sequence stays one over a larger set.
LEMMA SeqOfMore ==
    ASSUME NEW S, NEW T, S \subseteq T, NEW s \in Seq(S)
    PROVE  s \in Seq(T)
<1>1. s = [k \in 1..Len(s) |-> s[k]] /\ Len(s) \in Nat
  OBVIOUS
<1>2. \A k \in 1..Len(s) : s[k] \in T
  OBVIOUS
<1> QED BY <1>1, <1>2

LEMMA AskedStep ==
    ASSUME AskedInv, [Next]_vars
    PROVE  AskedInv'
<1>1. ASSUME UNCHANGED <<asked, entityCache>>,
             pc' \notin {"entity", "wait entity", "ask entity"}
      PROVE  AskedInv'
  BY <1>1 DEF AskedInv, AskedOnce
<1>2. ASSUME UNCHANGED <<asked, entityCache, world, i, j>>,
             pc' \in {"entity", "wait entity", "ask entity"} =>
                pc \in {"entity", "wait entity", "ask entity"}
      PROVE  AskedInv'
  BY <1>2 DEF AskedInv, AskedOnce, Entity
<1>3. CASE LimiterPasses \/ LimiterWaits \/ TimerFires \/ Tick \/ UNCHANGED vars
  BY <1>2, <1>3 DEF LimiterPasses, LimiterWaits, TimerFires, Tick, vars, work, chosen
<1>4. CASE Input \/ InputFails \/ DomainFound \/ DomainFails \/ NoMoreEntities \/ Registrar
           \/ ContactCached
  BY <1>1, <1>4 DEF Input, InputFails, Fails, DomainFound, DomainFails, NoMoreEntities,
     Registrar, ContactCached, IsContact, Resolved, work
<1>5. CASE WriteCSV \/ WriteCSVFails \/ WriteJSONL \/ WriteJSONLFails \/ Finish \/ FinishFails
           \/ Crash
  BY <1>1, <1>5 DEF WriteCSV, WriteCSVFails, WriteJSONL, WriteJSONLFails, Finish, FinishFails,
     FlushFails, Fails, Crash, work
<1>6. CASE ContactMissing
  <2>1. PICK contact : Keep(Entity.handle, contact) /\ Resolved(contact)
    BY <1>6 DEF ContactMissing
  <2>2. asked' = asked /\ pc' = "entities" /\ DOMAIN entityCache \subseteq DOMAIN entityCache'
    BY <1>6, <2>1, KeepDomain DEF ContactMissing, Resolved
  <2>3. asked \in Seq(DOMAIN entityCache')
    BY <2>2, SeqOfMore DEF AskedInv
  <2> QED BY <2>2, <2>3 DEF AskedInv, AskedOnce
<1>7. CASE AskContact
  <2>1. /\ UNCHANGED <<asked, entityCache, world, i, j>>
        /\ Entity.handle \notin DOMAIN entityCache
    BY <1>7 DEF AskContact, work, chosen
  <2> QED BY <2>1 DEF AskedInv, AskedOnce, Entity
<1>8. CASE ContactFound \/ ContactFails
  <2>1. PICK contact : Keep(Entity.handle, contact) /\ Resolved(contact)
    BY <1>8 DEF ContactFound, ContactFails
  <2>2. DOMAIN entityCache' = DOMAIN entityCache \cup {Entity.handle}
    BY <2>1, KeepDomain
  <2>3. /\ pc' = "entities" /\ asked' = Append(asked, Entity.handle)
        /\ Entity.handle \notin DOMAIN entityCache
    BY <1>8, <2>1 DEF ContactFound, ContactFails, Asked, Resolved, AskedInv
  <2> DEFINE Kept == DOMAIN entityCache
             KeptNow == DOMAIN entityCache'
             handle == Entity.handle
  <2>4. asked \in Seq(Kept) /\ AskedOnce
    BY DEF AskedInv
  <2>5. KeptNow = Kept \cup {handle} /\ handle \notin Kept /\ asked' = Append(asked, handle)
    BY <2>2, <2>3
  <2> SUFFICES asked' \in Seq(KeptNow) /\ AskedOnce'
    BY <2>3 DEF AskedInv
  <2> HIDE DEF Kept, KeptNow, handle
  <2>6. asked \in Seq(KeptNow) /\ handle \in KeptNow
    BY <2>4, <2>5
  <2>7. asked' \in Seq(KeptNow)
    BY <2>5, <2>6
  <2>8. /\ Len(asked') = Len(asked) + 1
        /\ \A n \in 1..Len(asked) : asked'[n] = asked[n] /\ asked[n] \in Kept
        /\ asked'[Len(asked) + 1] = handle
    BY <2>4, <2>5, <2>6
  <2>9. AskedOnce'
    BY <2>4, <2>5, <2>8 DEF AskedOnce
  <2> QED BY <2>7, <2>9
<1> QED
  BY <1>3, <1>4, <1>5, <1>6, <1>7, <1>8 DEF Next

\* No handle is asked for twice, whatever RDAP answers.
THEOREM ContactsAskedOnce == Spec => []AskedOnce
<1>1. Init => AskedInv
  BY DEF Init, AskedInv, AskedOnce
<1>2. AskedInv => AskedOnce
  BY DEF AskedInv
<1> QED
  BY <1>1, <1>2, AskedStep, PTL DEF Spec

----------------------------------------------------------------------------
(* The files *)

Ended == {"ended", "failed", "crashed"}

\* The halves of the record at hand that were given to the CSV writer.
Halves == IF pc = "csv half" THEN 1 ELSE IF pc = "jsonl" THEN 2 ELSE 0

TypeInv ==
    /\ world \in Worlds
    /\ i \in Nat \ {0}
    /\ csvFile \in Nat
    /\ csvBuffer \in 0..BufferSize

\* What was written is the records before the one at hand, and its halves.
CountInv ==
    /\ pc \notin Ended => csvFile + csvBuffer = 2 * (i - 1) + Halves
    /\ csvFile + csvBuffer \in (2 * (i - 1))..(2 * i)
    /\ i <= Len(world.domains) \/ (i = Len(world.domains) + 1 /\ pc \in Ended \cup {"input"})
    /\ pc = "ended" => i = Len(world.domains) + 1 /\ csvBuffer = 0 /\ csvFile = 2 * (i - 1)

\* The record at hand is that of the domain at hand.
RecordInv ==
    /\ "domain" \in DOMAIN record
    /\ pc \notin Ended \cup {"input"} => record.domain = i

ListInv ==
    /\ \E S : jsonl \in Seq(S)
    /\ Len(jsonl) = i - 1
    /\ \A k \in 1..Len(jsonl) : jsonl[k].domain = k

FilesInv == TypeInv /\ CountInv /\ RecordInv /\ ListInv

LEMMA FilesInit == Init => FilesInv
<1> SUFFICES ASSUME Init PROVE FilesInv
  OBVIOUS
<1>1. Len(world.domains) \in Nat /\ BufferSize \in Nat \ {0}
  BY EnrichAssumption DEF Init
<1>2. TypeInv
  BY <1>1 DEF Init, TypeInv
<1>3. pc = "input" /\ i = 1 /\ csvFile = 0 /\ csvBuffer = 0
  BY DEF Init
<1>4. CountInv
  BY <1>1, <1>3 DEF CountInv, Halves, Ended
<1>5. RecordInv
  BY DEF Init, RecordInv, NoRecord, Ended
<1>6. jsonl = <<>> /\ <<>> \in Seq({})
  BY DEF Init
<1>7. ListInv
  BY <1>3, <1>6 DEF ListInv
<1> QED BY <1>2, <1>4, <1>5, <1>7 DEF FilesInv

\* A step within a record that writes nothing.
LEMMA FilesQuiet ==
    ASSUME FilesInv, UNCHANGED <<world, i, csv, jsonl>>,
           Halves = 0, Halves' = 0, pc \notin Ended \cup {"input"}, pc' \notin Ended \cup {"input"},
           "domain" \in DOMAIN record', record'.domain = record.domain
    PROVE  FilesInv'
<1>1. TypeInv'
  BY DEF FilesInv, TypeInv, csv
<1>2. CountInv'
  BY DEF FilesInv, CountInv, csv, Ended
<1>3. RecordInv'
  BY DEF FilesInv, RecordInv
<1>4. ListInv'
  BY DEF FilesInv, ListInv
<1> QED BY <1>1, <1>2, <1>3, <1>4 DEF FilesInv

\* The record keeps its domain whatever is added to it.
LEMMA DomainKept ==
    ASSUME RecordInv, pc \notin Ended \cup {"input"},
           \/ UNCHANGED record
           \/ DomainFound \/ Registrar
           \/ \E contact : Resolved(contact)
    PROVE  "domain" \in DOMAIN record' /\ record'.domain = record.domain
<1>1. CASE UNCHANGED record
  BY <1>1 DEF RecordInv
<1>2. CASE DomainFound
  BY <1>2 DEF RecordInv, DomainFound
<1>3. CASE Registrar
  BY <1>3 DEF RecordInv, Registrar
<1>4. CASE \E contact : Resolved(contact)
  <2>1. PICK contacts : record' = [record EXCEPT !.contacts = contacts]
    BY <1>4 DEF Resolved
  <2> QED BY <2>1 DEF RecordInv
<1> QED BY <1>1, <1>2, <1>3, <1>4

\* A step that ends the work, after some of the buffer has reached the file.
LEMMA FilesStop ==
    ASSUME FilesInv, UNCHANGED <<world, i, record, jsonl>>, pc' \in {"failed", "crashed"},
           \E n \in 0..csvBuffer : csvFile' = csvFile + n /\ csvBuffer' = csvBuffer - n
    PROVE  FilesInv'
<1>0. BufferSize \in Nat \ {0}
  BY EnrichAssumption
<1>1. PICK n \in 0..csvBuffer : csvFile' = csvFile + n /\ csvBuffer' = csvBuffer - n
  OBVIOUS
<1>2. TypeInv'
  BY <1>0, <1>1 DEF FilesInv, TypeInv
<1>3. csvFile' + csvBuffer' = csvFile + csvBuffer
  BY <1>0, <1>1 DEF FilesInv, TypeInv
<1>4. CountInv'
  BY <1>3 DEF FilesInv, CountInv, Ended
<1>5. RecordInv'
  BY DEF FilesInv, RecordInv, Ended
<1>6. ListInv'
  BY DEF FilesInv, ListInv
<1> QED BY <1>2, <1>4, <1>5, <1>6 DEF FilesInv

LEMMA FilesStep ==
    ASSUME FilesInv, [Next]_vars
    PROVE  FilesInv'
<1>0. /\ TypeInv /\ CountInv /\ RecordInv /\ ListInv
      /\ BufferSize \in Nat \ {0} /\ Len(world.domains) \in Nat
  BY EnrichAssumption DEF FilesInv, TypeInv
<1>1. CASE LimiterPasses \/ LimiterWaits \/ TimerFires
  <2>1. /\ UNCHANGED <<world, i, csv, jsonl, record>>
        /\ Halves = 0 /\ Halves' = 0
        /\ pc \notin Ended \cup {"input"} /\ pc' \notin Ended \cup {"input"}
    BY <1>1 DEF LimiterPasses, LimiterWaits, TimerFires, work, chosen, Halves, Ended
  <2> QED BY <1>0, <2>1, FilesQuiet, DomainKept
<1>2. CASE Tick \/ UNCHANGED vars
  <2>1. UNCHANGED <<world, pc, i, record, csv, jsonl>>
    BY <1>2 DEF Tick, vars, work, chosen
  <2>2. UNCHANGED Halves
    BY <2>1 DEF Halves
  <2>3. TypeInv' /\ CountInv' /\ RecordInv' /\ ListInv'
    BY <1>0, <2>1, <2>2 DEF TypeInv, CountInv, RecordInv, ListInv, csv
  <2> QED BY <2>3 DEF FilesInv
<1>3. CASE DomainFound \/ DomainFails \/ NoMoreEntities \/ Registrar \/ AskContact
  <2>1. /\ UNCHANGED <<world, i, csv, jsonl>>
        /\ UNCHANGED record \/ DomainFound \/ Registrar
    BY <1>3 DEF DomainFound, DomainFails, NoMoreEntities, Registrar, AskContact, work, chosen
  <2>2. /\ Halves = 0 /\ Halves' = 0
        /\ pc \notin Ended \cup {"input"} /\ pc' \notin Ended \cup {"input"}
    BY <1>3 DEF DomainFound, DomainFails, NoMoreEntities, Registrar, AskContact, IsContact,
       Halves, Ended
  <2> QED BY <1>0, <2>1, <2>2, FilesQuiet, DomainKept
<1>4. CASE ContactCached \/ ContactMissing \/ ContactFound \/ ContactFails
  <2>1. PICK contact : Resolved(contact)
    BY <1>4 DEF ContactCached, ContactMissing, ContactFound, ContactFails
  <2>2. UNCHANGED <<world, i, csv, jsonl>>
    BY <1>4, <2>1 DEF ContactCached, ContactMissing, ContactFound, ContactFails, Resolved, chosen
  <2>3. pc \in {"entities", "ask entity"} /\ pc' = "entities"
    BY <1>4, <2>1 DEF ContactCached, ContactMissing, ContactFound, ContactFails, IsContact,
       Resolved
  <2>4. /\ Halves = 0 /\ Halves' = 0
        /\ pc \notin Ended \cup {"input"} /\ pc' \notin Ended \cup {"input"}
    BY <2>3 DEF Halves, Ended
  <2> QED BY <1>0, <2>1, <2>2, <2>4, FilesQuiet, DomainKept
<1>5. CASE Input
  <2>1. /\ pc = "input" /\ pc' = "domain" /\ i <= Len(world.domains)
        /\ UNCHANGED <<world, i, csv, jsonl>>
        /\ record' = [NoRecord EXCEPT !.domain = i]
    BY <1>5 DEF Input, chosen
  <2>2. Halves = 0 /\ Halves' = 0
    BY <2>1 DEF Halves
  <2>3. TypeInv'
    BY <1>0, <2>1 DEF TypeInv, csv
  <2>4. CountInv'
    BY <1>0, <2>1, <2>2 DEF CountInv, csv, Ended
  <2>5. RecordInv'
    BY <2>1 DEF RecordInv, NoRecord
  <2>6. ListInv'
    BY <1>0, <2>1 DEF ListInv
  <2> QED BY <2>3, <2>4, <2>5, <2>6 DEF FilesInv
<1>6. CASE InputFails \/ WriteJSONLFails \/ Crash
  <2>1. /\ UNCHANGED <<world, i, record, csv, jsonl>>
        /\ pc' \in {"failed", "crashed"}
    BY <1>6 DEF InputFails, WriteJSONLFails, Crash, Fails, work, chosen
  <2>2. csvBuffer \in Nat /\ csvFile' = csvFile + 0 /\ csvBuffer' = csvBuffer - 0
    BY <1>0, <2>1 DEF TypeInv, csv
  <2>3. \E n \in 0..csvBuffer : csvFile' = csvFile + n /\ csvBuffer' = csvBuffer - n
    BY <2>2
  <2> QED BY <2>1, <2>3, FilesStop
<1>7. CASE WriteCSVFails \/ FinishFails
  <2>1. FlushFails /\ UNCHANGED jsonl
    BY <1>7 DEF WriteCSVFails, FinishFails
  <2>2. UNCHANGED <<world, i, record, jsonl>> /\ pc' \in {"failed", "crashed"}
    BY <2>1 DEF FlushFails, Fails, work, chosen
  <2>3. \E n \in 0..csvBuffer : csvFile' = csvFile + n /\ csvBuffer' = csvBuffer - n
    BY <1>0, <2>1 DEF FlushFails, TypeInv
  <2> QED BY <2>2, <2>3, FilesStop
<1>8. CASE WriteCSV
  <2>1. /\ UNCHANGED <<world, i, record, jsonl>>
        /\ \/ pc = "csv" /\ pc' = "csv half"
           \/ pc = "csv half" /\ pc' = "jsonl"
    BY <1>8 DEF WriteCSV, work, chosen
  <2>2. /\ csvBuffer' \in 0..BufferSize /\ csvFile' \in Nat
        /\ csvFile' + csvBuffer' = csvFile + csvBuffer + 1
    <3>1. csvBuffer' = Half.buffer /\ csvFile' = Half.file
      BY <1>8 DEF WriteCSV
    <3>2. CASE csvBuffer = BufferSize
      BY <1>0, <3>1, <3>2 DEF Half, TypeInv
    <3>3. CASE csvBuffer # BufferSize
      BY <1>0, <3>1, <3>3 DEF Half, TypeInv
    <3> QED BY <3>2, <3>3
  <2>3. (Halves = 0 /\ Halves' = 1) \/ (Halves = 1 /\ Halves' = 2)
    BY <2>1 DEF Halves
  <2>4. TypeInv'
    BY <1>0, <2>1, <2>2 DEF TypeInv
  <2>5. CountInv'
    <3>1. csvFile + csvBuffer = 2 * (i - 1) + Halves /\ pc' \notin Ended
      BY <1>0, <2>1 DEF CountInv, Ended
    <3>0. i \in Nat /\ csvFile \in Nat /\ csvBuffer \in Nat /\ csvBuffer' \in Nat
      BY <1>0, <2>2 DEF TypeInv
    <3>2. csvFile' + csvBuffer' = 2 * (i - 1) + Halves'
      <4>1. csvFile' + csvBuffer' = 2 * (i - 1) + Halves + 1
        BY <2>2, <3>1
      <4>2. CASE Halves = 0 /\ Halves' = 1
        BY <3>0, <4>1, <4>2
      <4>3. CASE Halves = 1 /\ Halves' = 2
        BY <3>0, <4>1, <4>3
      <4> QED BY <2>3, <4>2, <4>3
    <3>3. csvFile' + csvBuffer' \in (2 * (i - 1))..(2 * i)
      <4>1. CASE Halves' = 1
        BY <3>0, <3>2, <4>1
      <4>2. CASE Halves' = 2
        BY <3>0, <3>2, <4>2
      <4> QED BY <2>3, <4>1, <4>2
    <3>4. i <= Len(world.domains)
      BY <1>0, <2>1 DEF CountInv, Ended
    <3> QED BY <2>1, <3>1, <3>2, <3>3, <3>4 DEF CountInv, Ended
  <2>6. RecordInv' /\ ListInv'
    BY <1>0, <2>1 DEF RecordInv, ListInv, Ended
  <2> QED BY <2>4, <2>5, <2>6 DEF FilesInv
<1>9. CASE WriteJSONL
  <2>1. /\ pc = "jsonl" /\ pc' = "input" /\ i' = i + 1
        /\ UNCHANGED <<world, csv>> /\ record' = NoRecord
        /\ jsonl' = Append(jsonl, record)
    BY <1>9 DEF WriteJSONL, chosen
  <2>2. Halves = 2 /\ Halves' = 0
    BY <2>1 DEF Halves
  <2>3. TypeInv'
    BY <1>0, <2>1 DEF TypeInv, csv
  <2>4. CountInv'
    BY <1>0, <2>1, <2>2 DEF CountInv, Ended, TypeInv, csv
  <2>5. RecordInv'
    BY <2>1 DEF RecordInv, NoRecord
  <2>6. PICK S : jsonl \in Seq(S)
    BY <1>0 DEF ListInv
  <2>7. jsonl \in Seq(S \cup {record})
    BY <2>6, SeqOfMore
  <2>8. /\ jsonl' \in Seq(S \cup {record})
        /\ Len(jsonl') = Len(jsonl) + 1 /\ Len(jsonl) \in Nat
        /\ \A k \in 1..Len(jsonl) : jsonl'[k] = jsonl[k]
        /\ jsonl'[Len(jsonl) + 1] = record
    BY <2>1, <2>7
  <2>9. Len(jsonl) = i - 1 /\ i \in Nat /\ record.domain = i
    BY <1>0, <2>1 DEF ListInv, TypeInv, RecordInv, Ended
  <2>10. Len(jsonl') = i' - 1
    BY <2>1, <2>8, <2>9
  <2>11. \A k \in 1..Len(jsonl') : jsonl'[k].domain = k
    BY <1>0, <2>8, <2>9 DEF ListInv
  <2>12. ListInv'
    BY <2>8, <2>10, <2>11 DEF ListInv
  <2> QED BY <2>3, <2>4, <2>5, <2>12 DEF FilesInv
<1>10. CASE Finish
  <2>1. /\ UNCHANGED <<world, i, record, jsonl>>
        /\ pc = "input" /\ pc' = "ended" /\ i > Len(world.domains)
        /\ csvFile' = csvFile + csvBuffer /\ csvBuffer' = 0
    BY <1>10 DEF Finish, work, chosen
  <2>2. Halves = 0
    BY <2>1 DEF Halves
  <2>3. TypeInv'
    BY <1>0, <2>1 DEF TypeInv
  <2>4. csvFile + csvBuffer = 2 * (i - 1) /\ i = Len(world.domains) + 1
    BY <1>0, <2>1, <2>2 DEF CountInv, Ended, TypeInv
  <2>5. CountInv'
    BY <1>0, <2>1, <2>4 DEF CountInv, Ended, TypeInv
  <2>6. RecordInv' /\ ListInv'
    BY <1>0, <2>1 DEF RecordInv, ListInv, Ended
  <2> QED BY <2>3, <2>5, <2>6 DEF FilesInv
<1> QED
  BY <1>1, <1>2, <1>3, <1>4, <1>5, <1>6, <1>7, <1>8, <1>9, <1>10 DEF Next

\* The two files list the same records and keep in step, also after an error.
THEOREM FilesAgree == Spec => []WritersAgree
<1>1. FilesInv => WritersAgree
  <2> SUFFICES ASSUME FilesInv PROVE WritersAgree
    OBVIOUS
  <2>1. /\ i \in Nat \ {0} /\ csvFile \in Nat /\ csvBuffer \in 0..BufferSize
        /\ BufferSize \in Nat \ {0}
    BY EnrichAssumption DEF FilesInv, TypeInv
  <2>2. Len(jsonl) = i - 1 /\ csvFile + csvBuffer \in (2 * (i - 1))..(2 * i)
    BY DEF FilesInv, ListInv, CountInv
  <2>3. csvFile <= 2 * (Len(jsonl) + 1) /\ csvFile >= 2 * Len(jsonl) - BufferSize
    BY <2>1, <2>2
  <2>4. pc = "ended" => Len(jsonl) = Len(world.domains) /\ csvFile = 2 * Len(jsonl)
    <3>1. Len(world.domains) \in Nat
      BY EnrichAssumption DEF FilesInv, TypeInv
    <3> QED BY <2>1, <2>2, <3>1 DEF FilesInv, CountInv
  <2>5. \A k \in 1..Len(jsonl) : jsonl[k].domain = k
    BY DEF FilesInv, ListInv
  <2> QED BY <2>3, <2>4, <2>5 DEF WritersAgree
<1> QED
  BY <1>1, FilesInit, FilesStep, PTL DEF Spec

----------------------------------------------------------------------------
(* The contacts *)

\* The data of this contact was fetched for this handle, if it was fetched.
FetchedFor(w, handle, contact) ==
    contact.from # NoLink =>
        \E d \in 1..Len(w.domains) : \E e \in 1..Len(w.domains[d]) :
            /\ w.domains[d][e].handle = handle
            /\ w.domains[d][e].link = contact.from

\* The lists of contacts of a record show contacts of the domain.
Shows(w, contacts, domain) ==
    /\ \E S : contacts \in [ContactRole -> Seq(S)]
    /\ \A role \in ContactRole : \A n \in 1..Len(contacts[role]) :
         /\ \E e \in 1..Len(w.domains[domain]) :
              w.domains[domain][e] = contacts[role][n].entity
         /\ FetchedFor(w, contacts[role][n].entity.handle, contacts[role][n].contact)

\* The entity that is asked for is one of the domain at hand.
AsksEntity == pc \in {"entity", "wait entity", "ask entity"}
IsEntity == j \in 1..Len(world.domains[i])
AtEntity == j \in Nat \ {0} /\ (AsksEntity => IsEntity)

CacheOwn == \A handle \in DOMAIN entityCache : FetchedFor(world, handle, entityCache[handle])
RecordOwn == "contacts" \in DOMAIN record /\ Shows(world, record.contacts, i)
ListOwn == \A k \in 1..Len(jsonl) : Shows(world, jsonl[k].contacts, k)

OwnInv == AtEntity /\ CacheOwn /\ RecordOwn /\ ListOwn

\* No contact has been shown yet.
LEMMA NothingShown == \A w, domain : Shows(w, NoRecord.contacts, domain)
<1>1. NoRecord.contacts = [role \in ContactRole |-> <<>>]
  BY DEF NoRecord
<1>2. NoRecord.contacts \in [ContactRole -> Seq({})]
  BY <1>1
<1>3. \A role \in ContactRole : Len(NoRecord.contacts[role]) = 0
  BY <1>1
<1> QED BY <1>2, <1>3 DEF Shows

\* A step that neither shows nor fetches a contact.
LEMMA OwnQuiet ==
    ASSUME OwnInv, UNCHANGED <<world, i, jsonl, entityCache>>, AtEntity',
           "contacts" \in DOMAIN record', record'.contacts = record.contacts
    PROVE  OwnInv'
BY DEF OwnInv, CacheOwn, RecordOwn, ListOwn

\* A contact that was fetched for the entity at hand is added to the record.
LEMMA OwnShown ==
    ASSUME OwnInv, NEW contact, Resolved(contact), FetchedFor(world, Entity.handle, contact),
           UNCHANGED <<world, jsonl>>, IsEntity
    PROVE  AtEntity' /\ RecordOwn' /\ ListOwn'
<1> DEFINE shown == [entity |-> Entity, contact |-> contact]
           new == RoleOf(Entity)
           before == record.contacts
           after == record'.contacts
<1>1. AtEntity'
  <2>1. j' = j + 1 /\ ~AsksEntity'
    BY DEF Resolved, AsksEntity
  <2> QED BY <2>1 DEF AtEntity, OwnInv
<1>2. ListOwn'
  BY DEF OwnInv, ListOwn
<1>3. /\ "contacts" \in DOMAIN record'
      /\ after = [before EXCEPT ![new] = IF new = "registrant" THEN <<shown>> ELSE Append(@, shown)]
      /\ i' = i
  BY DEF Resolved, OwnInv, RecordOwn
<1>4. PICK S : before \in [ContactRole -> Seq(S)]
  BY DEF OwnInv, RecordOwn, Shows
<1>5. shown.entity = world.domains[i][j] /\ FetchedFor(world, shown.entity.handle, shown.contact)
  BY DEF Entity
<1>6. \A role \in ContactRole : \A n \in 1..Len(before[role]) :
         /\ \E e \in 1..Len(world.domains[i]) : world.domains[i][e] = before[role][n].entity
         /\ FetchedFor(world, before[role][n].entity.handle, before[role][n].contact)
  BY DEF OwnInv, RecordOwn, Shows
<1> HIDE DEF shown, new, before, after
<1> DEFINE T == S \cup {shown}
<1>7. ASSUME NEW role \in ContactRole
      PROVE  /\ after[role] \in Seq(T)
             /\ \A n \in 1..Len(after[role]) :
                   after[role][n] = shown \/ \E m \in 1..Len(before[role]) : after[role][n] = before[role][m]
  <2>1. before[role] \in Seq(S) /\ before[role] \in Seq(T)
    BY <1>4, SeqOfMore
  <2> HIDE DEF T
  <2>2. shown \in T
    BY DEF T
  <2>3. CASE role # new
    <3>1. after[role] = before[role]
      BY <1>3, <1>4, <2>3
    <3> QED BY <2>1, <3>1
  <2>4. CASE role = new /\ new = "registrant"
    <3>1. after[role] = <<shown>>
      BY <1>3, <1>4, <2>4
    <3> QED BY <2>2, <3>1
  <2>5. CASE role = new /\ new # "registrant"
    <3>1. after[role] = Append(before[role], shown)
      BY <1>3, <1>4, <2>5
    <3>2. /\ Append(before[role], shown) \in Seq(T)
          /\ Len(Append(before[role], shown)) = Len(before[role]) + 1
          /\ \A n \in 1..Len(before[role]) : Append(before[role], shown)[n] = before[role][n]
          /\ Append(before[role], shown)[Len(before[role]) + 1] = shown
          /\ Len(before[role]) \in Nat
      BY <2>1, <2>2
    <3>3. \A n \in 1..(Len(before[role]) + 1) : n \in 1..Len(before[role]) \/ n = Len(before[role]) + 1
      BY <3>2
    <3> QED BY <3>1, <3>2, <3>3
  <2> QED BY <2>3, <2>4, <2>5
<1>8. after \in [ContactRole -> Seq(T)]
  BY <1>3, <1>4, <1>7
<1>9. Shows(world, after, i)
  <2> DEFINE Own(c) == /\ \E e \in 1..Len(world.domains[i]) : world.domains[i][e] = c.entity
                       /\ FetchedFor(world, c.entity.handle, c.contact)
  <2>1. Own(shown)
    BY <1>5 DEF IsEntity
  <2>2. \A role \in ContactRole : \A n \in 1..Len(before[role]) : Own(before[role][n])
    BY <1>6
  <2> HIDE DEF Own
  <2>3. \A role \in ContactRole : \A n \in 1..Len(after[role]) : Own(after[role][n])
    BY <1>7, <2>1, <2>2
  <2>4. \E Q : after \in [ContactRole -> Seq(Q)]
    BY <1>8
  <2> QED BY <2>3, <2>4 DEF Shows, Own
<1>10. RecordOwn'
  BY <1>3, <1>9 DEF RecordOwn, after
<1> QED BY <1>1, <1>2, <1>10

\* What is kept under a handle was fetched for it.
LEMMA OwnKept ==
    ASSUME CacheOwn, NEW contact, Keep(Entity.handle, contact), FetchedFor(world, Entity.handle, contact),
           UNCHANGED world
    PROVE  CacheOwn'
BY DEF CacheOwn, Keep

LEMMA OwnStep ==
    ASSUME FilesInv, OwnInv, [Next]_vars
    PROVE  OwnInv'
<1>0. AtEntity /\ CacheOwn /\ RecordOwn /\ ListOwn
  BY DEF OwnInv
<1>1. ASSUME pc \in {"entities", "ask entity"}
      PROVE  /\ i \in 1..Len(world.domains) /\ Len(world.domains[i]) \in Nat
             /\ j <= Len(world.domains[i]) => IsEntity
  <2>1. i \in 1..Len(world.domains)
    <3>1. pc \notin Ended \cup {"input"}
      BY <1>1 DEF Ended
    <3>2. i <= Len(world.domains) /\ i \in Nat \ {0} /\ Len(world.domains) \in Nat
      BY <3>1, EnrichAssumption DEF FilesInv, TypeInv, CountInv
    <3> QED BY <3>2
  <2>2. Len(world.domains[i]) \in Nat
    BY <2>1, EnrichAssumption DEF FilesInv, TypeInv
  <2>3. j \in Nat \ {0}
    BY <1>0 DEF AtEntity
  <2> HIDE DEF IsEntity
  <2>4. j <= Len(world.domains[i]) => IsEntity
    BY <2>2, <2>3 DEF IsEntity
  <2> QED BY <2>1, <2>2, <2>4
<1>2. CASE LimiterPasses \/ LimiterWaits \/ TimerFires \/ Tick \/ UNCHANGED vars
  <2>1. UNCHANGED <<world, i, j, jsonl, record, entityCache>>
    BY <1>2 DEF LimiterPasses, LimiterWaits, TimerFires, Tick, vars, work, chosen
  <2>2. AtEntity'
    BY <1>0, <1>2, <2>1 DEF AtEntity, AsksEntity, IsEntity, LimiterPasses, LimiterWaits, TimerFires, Tick, vars
  <2> QED BY <1>0, <2>1, <2>2, OwnQuiet DEF RecordOwn
<1>3. CASE DomainFound \/ Registrar
  <2>0. /\ UNCHANGED <<world, i, jsonl, entityCache>>
        /\ j' \in {j, j + 1} /\ ~AsksEntity'
    BY <1>3 DEF DomainFound, Registrar, chosen, AsksEntity
  <2>1. UNCHANGED <<world, i, jsonl, entityCache>> /\ AtEntity'
    BY <1>0, <2>0 DEF AtEntity
  <2>2. "contacts" \in DOMAIN record' /\ record'.contacts = record.contacts
    BY <1>0, <1>3 DEF DomainFound, Registrar, RecordOwn
  <2> QED BY <2>1, <2>2, OwnQuiet
<1>4. CASE DomainFails \/ NoMoreEntities \/ InputFails \/ WriteCSV \/ WriteCSVFails
           \/ WriteJSONLFails \/ Finish \/ FinishFails \/ Crash
  <2>1. UNCHANGED <<world, i, j, jsonl, record, entityCache>>
        /\ pc' \notin {"entity", "wait entity", "ask entity"}
    BY <1>4 DEF DomainFails, NoMoreEntities, InputFails, WriteCSV, WriteCSVFails, WriteJSONLFails,
       Finish, FinishFails, FlushFails, Fails, Crash, work, chosen
  <2> QED BY <1>0, <2>1, OwnQuiet DEF RecordOwn, AtEntity, AsksEntity
<1>5. CASE AskContact
  <2>1. UNCHANGED <<world, i, j, jsonl, record, entityCache>>
    BY <1>5 DEF AskContact, work, chosen
  <2>2. AtEntity'
    <3>1. j <= Len(world.domains[i]) /\ pc = "entities"
      BY <1>5 DEF AskContact, IsContact
    <3>2. IsEntity'
      BY <1>1, <2>1, <3>1 DEF IsEntity
    <3> QED BY <1>0, <2>1, <3>2 DEF AtEntity
  <2> QED BY <1>0, <2>1, <2>2, OwnQuiet DEF RecordOwn
<1>6. CASE Input
  <2>1. /\ UNCHANGED <<world, i, jsonl, entityCache>> /\ j' = 1 /\ pc' = "domain"
        /\ record' = [NoRecord EXCEPT !.domain = i]
    BY <1>6 DEF Input, chosen
  <2>2. "contacts" \in DOMAIN record' /\ record'.contacts = NoRecord.contacts
    BY <2>1 DEF NoRecord
  <2>3. RecordOwn'
    BY <2>2, NothingShown DEF RecordOwn
  <2>4. AtEntity'
    BY <2>1 DEF AtEntity, AsksEntity
  <2>5. CacheOwn' /\ ListOwn'
    BY <1>0, <2>1 DEF CacheOwn, ListOwn
  <2> QED BY <2>3, <2>4, <2>5 DEF OwnInv
<1>7. CASE ContactCached
  <2>1. /\ Resolved(entityCache[Entity.handle]) /\ Entity.handle \in DOMAIN entityCache
        /\ UNCHANGED <<world, jsonl, entityCache>>
        /\ pc = "entities" /\ j <= Len(world.domains[i])
    BY <1>7 DEF ContactCached, IsContact, chosen
  <2>2. IsEntity
    BY <1>0, <1>1, <2>1 DEF AtEntity, AsksEntity
  <2>3. FetchedFor(world, Entity.handle, entityCache[Entity.handle])
    BY <1>0, <2>1 DEF CacheOwn
  <2>4. AtEntity' /\ RecordOwn' /\ ListOwn'
    BY <2>1, <2>2, <2>3, OwnShown
  <2>5. CacheOwn'
    BY <1>0, <2>1 DEF CacheOwn
  <2> QED BY <2>4, <2>5 DEF OwnInv
<1>8. CASE ContactMissing \/ ContactFound \/ ContactFails
  <2>1. /\ UNCHANGED <<world, jsonl>>
        /\ pc \in {"entities", "ask entity"}
        /\ pc = "entities" => j <= Len(world.domains[i])
    BY <1>8 DEF ContactMissing, ContactFound, ContactFails, IsContact, chosen
  <2>2. IsEntity
    BY <1>0, <1>1, <2>1 DEF AtEntity, AsksEntity
  <2>3. PICK contact : /\ Keep(Entity.handle, contact) /\ Resolved(contact)
                       /\ contact.from \in {NoLink, Entity.link}
    <3> DEFINE Known(c) == /\ Keep(Entity.handle, c) /\ Resolved(c)
                           /\ c.from \in {NoLink, Entity.link}
    <3>1. CASE ContactFound
      <4>1. Known([from |-> Entity.link, status |-> "found"])
        BY <3>1 DEF ContactFound
      <4> QED BY <4>1
    <3>2. CASE ContactMissing
      <4>1. Known([from |-> NoLink, status |-> "missing"])
        BY <3>2 DEF ContactMissing
      <4> QED BY <4>1
    <3>3. CASE ContactFails
      <4>1. Known([from |-> NoLink, status |-> "failed"])
        BY <3>3 DEF ContactFails
      <4> QED BY <4>1
    <3> QED BY <1>8, <3>1, <3>2, <3>3
  <2>4. FetchedFor(world, Entity.handle, contact)
    <3>1. i \in 1..Len(world.domains)
      BY <1>1, <2>1
    <3> QED BY <2>2, <2>3, <3>1 DEF FetchedFor, Entity, IsEntity
  <2>5. AtEntity' /\ RecordOwn' /\ ListOwn'
    BY <2>1, <2>2, <2>3, <2>4, OwnShown
  <2>6. CacheOwn'
    BY <1>0, <2>1, <2>3, <2>4, OwnKept
  <2> QED BY <2>5, <2>6 DEF OwnInv
<1>9. CASE WriteJSONL
  <2>1. /\ pc = "jsonl" /\ pc' = "input" /\ i' = i + 1 /\ UNCHANGED <<world, j, entityCache>>
        /\ jsonl' = Append(jsonl, record) /\ record' = NoRecord
    BY <1>9 DEF WriteJSONL, chosen
  <2>2. RecordOwn'
    BY <2>1, NothingShown DEF RecordOwn, NoRecord
  <2>3. PICK S : jsonl \in Seq(S)
    BY DEF FilesInv, ListInv
  <2>4. jsonl \in Seq(S \cup {record})
    BY <2>3, SeqOfMore
  <2>5. /\ Len(jsonl') = Len(jsonl) + 1 /\ Len(jsonl) \in Nat
        /\ \A k \in 1..Len(jsonl) : jsonl'[k] = jsonl[k]
        /\ jsonl'[Len(jsonl) + 1] = record
    BY <2>1, <2>4
  <2>6. Len(jsonl) = i - 1 /\ i \in Nat
    BY DEF FilesInv, ListInv, TypeInv
  <2>7. ASSUME NEW k \in 1..Len(jsonl') PROVE Shows(world, jsonl'[k].contacts, k)
    <3>1. CASE k \in 1..Len(jsonl)
      BY <1>0, <2>5, <3>1 DEF ListOwn
    <3>2. CASE k = i
      BY <1>0, <2>5, <2>6, <3>2 DEF RecordOwn
    <3> QED BY <2>5, <2>6, <3>1, <3>2
  <2>8. ListOwn'
    BY <2>1, <2>7 DEF ListOwn
  <2> QED BY <1>0, <2>1, <2>2, <2>8 DEF OwnInv, AtEntity, AsksEntity, CacheOwn
<1> QED
  BY <1>2, <1>3, <1>4, <1>5, <1>6, <1>7, <1>8, <1>9 DEF Next

\* A record shows its own domain's contacts, with nobody else's data, in whatever order
\* the handles were met and whichever answers failed.
THEOREM ContactsAreOwn == Spec => []ContactsOwn
<1>1. Init => OwnInv
  <2> SUFFICES ASSUME Init PROVE OwnInv
    OBVIOUS
  <2>1. /\ j = 1 /\ pc = "input" /\ record = NoRecord /\ DOMAIN entityCache = {} /\ Len(jsonl) = 0
    BY DEF Init
  <2>2. RecordOwn
    BY <2>1, NothingShown DEF RecordOwn, NoRecord
  <2> QED BY <2>1, <2>2 DEF OwnInv, AtEntity, AsksEntity, CacheOwn, ListOwn
<1>2. OwnInv => ContactsOwn
  BY DEF OwnInv, ListOwn, Shows, FetchedFor, ContactsOwn
<1>3. FilesInv /\ OwnInv /\ [Next]_vars => OwnInv'
  BY OwnStep
<1> QED
  BY <1>1, <1>2, <1>3, FilesInit, FilesStep, PTL DEF Spec
=============================================================================
