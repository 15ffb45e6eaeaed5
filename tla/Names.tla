------------------------------- MODULE Names -------------------------------
(***************************************************************************)
(* From host names to domains: what a crawl key or a certificate's name    *)
(* adds to the table, what export writes of it, and what enrich --input    *)
(* reads back.  A host name is the sequence of its labels, between dots.   *)
(***************************************************************************)
EXTENDS Naturals, Sequences, FiniteSets, SequencesExt

CONSTANTS Labels,       \* what may stand between two dots
          Hosts,        \* the host names in crawls and certificates
          Spellings,    \* the host names in hand-written input files
          Underscored,  \* the labels with a "_"
          NoDomain,     \* ErrNotCZDomain
          MaxFound,     \* bound: domains in the table
          MaxLines      \* bound: lines of a hand-written input file

ASSUME NamesAssumption ==
    /\ \A h \in Hosts \cup Spellings : h \in Seq(Labels) /\ h # <<>>
    /\ {"cz", "*"} \subseteq Labels /\ "cz" \notin Underscored
    /\ NoDomain \notin Seq(Labels)
    /\ MaxFound \in Nat /\ MaxLines \in Nat

VARIABLES
    host, port,     \* the name at hand, <<>> for none, and whether it came with a port
    table,          \* the domains found
    text,           \* an input file of enrich: lines [host, source]
    inputs,         \* the domains read from it: [domain, source]
    step

namesVars == <<host, port, table, text, inputs, step>>

----------------------------------------------------------------------------
(* domainutil *)

NoLabel == ""

TrimDot(h) == IF Len(h) > 1 /\ Last(h) = NoLabel THEN Front(h) ELSE h
TrimWWW(h) == IF Len(h) > 1 /\ h[1] = "www" THEN Tail(h) ELSE h
\* The labels that are not empty.
Clean(h) ==
    LET clean[n \in 0..Len(h)] ==
          IF n = 0 THEN <<>>
          ELSE IF h[n] = NoLabel THEN clean[n - 1] ELSE Append(clean[n - 1], h[n])
    IN  clean[Len(h)]

\* The domain of labels that were split and trimmed.
SecondLevel(clean) ==
    LET n == Len(clean) IN
    IF n < 2 \/ clean[n] # "cz" \/ clean[n - 1] \in Underscored
      THEN NoDomain
      ELSE <<clean[n - 1], "cz">>

\* Mutant: subdomains are kept.
FromHostWhole(h) ==
    LET clean == Clean(TrimWWW(TrimDot(h))) IN
    IF SecondLevel(clean) = NoDomain THEN NoDomain ELSE clean
\* Mutant: an underscore anywhere spoils the name.
FromHostStrict(h) ==
    IF \E i \in 1..Len(h) : h[i] \in Underscored
      THEN NoDomain
      ELSE SecondLevel(Clean(TrimWWW(TrimDot(h))))
\* A port was split off before.
FromHost(h) == SecondLevel(Clean(TrimWWW(TrimDot(h))))

----------------------------------------------------------------------------
(* The sources *)

\* The key of a URL has the labels in reverse order, and the port at its end.
Key(h) == Reverse(h)

\* In a key with two labels the port is on the second-level label, and splitting it
\* off takes the .cz that is put behind with it.
domainFromCDXKey(key, withPort) ==
    IF \/ Len(key) < 2 \/ key[1] # "cz"
       \/ \E i \in 2..Len(key) : key[i] = NoLabel \/ key[i] \in Underscored
       \/ withPort /\ Len(key) = 2
      THEN NoDomain
      ELSE FromHost(<<key[2], "cz">>)

\* A name of a certificate may be a wildcard.
CertificateDomain(name) ==
    FromHost(IF Len(name) > 1 /\ name[1] = "*" THEN Tail(name) ELSE name)

NoHost == host' = <<>> /\ port' = FALSE

AddFound(d) ==
    /\ table' = IF d = NoDomain THEN table ELSE table \cup {d}
    /\ NoHost
    /\ UNCHANGED <<text, inputs, step>>

\* A name comes up in a crawl or in a certificate.
See ==
    /\ step = "discover" /\ host = <<>> /\ Cardinality(table) < MaxFound
    /\ host' \in Hosts /\ port' \in BOOLEAN
    /\ UNCHANGED <<table, text, inputs, step>>

FindInCrawl ==
    /\ host # <<>>
    /\ AddFound(domainFromCDXKey(Key(host), port))

FindInCertificate ==
    /\ host # <<>> /\ ~port
    /\ AddFound(CertificateDomain(host))

----------------------------------------------------------------------------
(* export, and enrich --input *)

NoSource == ""

exportDomains ==
    /\ step = "discover" /\ host = <<>>
    /\ text' = SetToSeq({[host |-> d, source |-> NoSource] : d \in table})
    /\ step' = "exported"
    /\ UNCHANGED <<host, port, table, inputs>>

\* Somebody writes the file.
WriteText ==
    /\ step = "discover" /\ host = <<>> /\ table = {}
    /\ \E n \in 0..MaxLines : \E lines \in [1..n -> Spellings \X {NoSource, "list"}] :
         text' = [k \in 1..n |-> [host |-> lines[k][1], source |-> lines[k][2]]]
    /\ step' = "written"
    /\ UNCHANGED <<host, port, table, inputs>>

Input(line) ==
    [domain |-> FromHost(line.host),
     source |-> IF line.source = NoSource THEN "input" ELSE line.source]

\* Mutant: lines are compared, not domains.
IsNewLine(read, line) ==
    FromHost(line.host) # NoDomain /\ Input(line) \notin ToSet(read)
\* Its domain was in no line before.
IsNew(read, line) ==
    /\ FromHost(line.host) # NoDomain
    /\ \A k \in 1..Len(read) : read[k].domain # FromHost(line.host)

InputsOf(lines) ==
    LET read[n \in 0..Len(lines)] ==
          IF n = 0 THEN <<>>
          ELSE IF IsNew(read[n - 1], lines[n]) THEN Append(read[n - 1], Input(lines[n]))
          ELSE read[n - 1]
    IN  read[Len(lines)]

readDomainInputs ==
    /\ step \in {"exported", "written"}
    /\ inputs' = InputsOf(text)
    /\ step' = IF step = "exported" THEN "read back" ELSE "read"
    /\ UNCHANGED <<host, port, table, text>>

----------------------------------------------------------------------------

NamesInit ==
    /\ host = <<>>
    /\ port = FALSE
    /\ table = {}
    /\ text = <<>> /\ inputs = <<>>
    /\ step = "discover"

NamesNext == See \/ FindInCrawl \/ FindInCertificate \/ exportDomains \/ WriteText \/ readDomainInputs

NamesSpec == NamesInit /\ [][NamesNext]_namesVars

----------------------------------------------------------------------------
(* Properties *)

\* A host name as DNS has it, below .cz, with a name of its own.
WellFormed(h) ==
    /\ Len(h) > 1 /\ h[Len(h)] = "cz"
    /\ \A i \in 1..Len(h) : h[i] \notin {NoLabel, "*"}
    /\ h[Len(h) - 1] \notin Underscored
Registrable(h) == <<h[Len(h) - 1], "cz">>

\* domain.go:37 of FromHost: it "reduces a hostname to its registrable .cz domain".
ReducesToRegistrable == WellFormed(host) => FromHost(host) = Registrable(host)

\* The same but for the one name that looks like a prefix: a crawl, a certificate
\* and an input file give the domain of every host outside www.cz, the crawl unless
\* a label of the host has a "_", or a port follows the domain itself.
SourcesAgree ==
    WellFormed(host) /\ Registrable(host) # <<"www", "cz">> =>
        /\ FromHost(host) = Registrable(host)
        /\ CertificateDomain(host) = Registrable(host)
        /\ CertificateDomain(<<"*">> \o host) = Registrable(host)
        /\ domainFromCDXKey(Key(host), port) =
             IF \/ \E i \in 1..Len(host) : host[i] \in Underscored
                \/ port /\ Len(host) = 2
               THEN NoDomain
               ELSE Registrable(host)

\* A table that was exported is read back as it is, but for www.cz: FromHost takes
\* what it has made once more, and that one is lost.
ReadBack ==
    step = "read back" =>
        {inputs[k].domain : k \in 1..Len(inputs)} = table \ {<<"www", "cz">>}

\* enrich asks for no domain twice, however its spellings differ, and a line counts
\* only if it is the first with its domain.
InputsDistinct ==
    \A k \in 1..Len(inputs) :
        /\ \A m \in 1..(k - 1) : inputs[m].domain # inputs[k].domain
        /\ \E n \in 1..Len(text) :
             /\ Input(text[n]) = inputs[k]
             /\ \A m \in 1..(n - 1) : FromHost(text[m].host) # inputs[k].domain
=============================================================================
