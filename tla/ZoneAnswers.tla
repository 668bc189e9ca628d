----------------------------- MODULE ZoneAnswers -----------------------------
(***************************************************************************)
(* An answer of the authoritative DNS server, put together from one        *)
(* statement after another, while administrators change the zones.         *)
(*   src/cmd/server/main.go (handleDNSQuery and what it calls)             *)
(*   src/internal/services/record_service.go, domain_service.go            *)
(* Queries share nothing but the tables (the key is the subject of         *)
(* SigningKey), so one goroutine asks them all.  Every statement may fail; *)
(* the code then goes on as if it had found nothing.                       *)
(*                                                                         *)
(* A name is the sequence of its labels, the last one of the text first,   *)
(* and a label is its place in the order of bytes.  Type A stands for the  *)
(* types of which one record is served (A, AAAA, CNAME), TXT for those of  *)
(* which all are (TXT, MX, TLSA).  A record is good, or bad (it cannot be  *)
(* put into an answer), or void: it counts as absent, because its ttl does *)
(* not scan into 32 bits without a sign, or one record is served and this  *)
(* one has no content.                                                     *)
(***************************************************************************)
EXTENDS Naturals, Sequences, FiniteSets, SequencesExt

CONSTANTS
  Names,    \* names that are asked for, or given to records
  Zones,    \* those that may be domains
  Ids,      \* places in the table of records
  None,
  MaxTime,  \* bound: the clock
  MaxMoves  \* bound: changes and failures

Stored   == {"A", "TXT"}            \* types of records
Contents == {"good", "bad", "void"}
Row      == [zone : Zones, name : Names, type : Stored, content : Contents, stamp : 1..MaxTime]

ASSUME ZoneAnswersAssumption ==
  /\ Names \subseteq Seq(Nat) \ {<< >>} /\ IsFiniteSet(Names)
  /\ Zones \subseteq Names /\ None \notin Names \cup Nat \cup Row
  /\ IsFiniteSet(Ids) /\ None \notin Ids
  /\ MaxTime \in Nat \ {0} /\ MaxMoves \in Nat

VARIABLES
  domain,    \* domains: created_at of each, or None
  record,    \* records: a row at each place, or None
  dnssec,    \* dns.dnssec_enabled
  now,       \* the clock of the database
  pc,        \* where the query is
  question,  \* what it asks: name, type, and whether for signatures
  zone,      \* the zone it found, or None
  reply,     \* the message so far
  keptRows,  \* history: places not changed since the question came
  keptZones, \* history: domains not changed since the question came
  skipped,   \* history: a void row of the name and type has been read
  failed,    \* history: a statement of this query has failed
  told,      \* history: the zone and serial last told, None since a deletion in it
  moves      \* what MaxMoves bounds, so far

tables  == <<domain, record, dnssec>>
locals  == <<question, zone, reply>>
history == <<keptRows, keptZones, skipped, told>>
vars == <<tables, now, pc, locals, history, failed, moves>>

-----------------------------------------------------------------------------
(* The tables *)

Asked   == Stored \cup {"NS", "CAA", "SOA", "DNSKEY", "DS", "other"}
Present == {i \in Ids : record[i] # None}
RowsIn(z)      == {i \in Present : record[i].zone = z}
RowsOf(z, n)   == {i \in RowsIn(z) : record[i].name = n}
TypesOf(z, n)  == {record[i].type : i \in RowsOf(z, n)}

\* Variation: the first zone found, whatever its length.
ClosestAny(n) ==
  LET matching == {z \in Zones : domain[z] # None /\ IsPrefix(z, n)}
  IN  IF matching = {} THEN None ELSE CHOOSE z \in matching : \A y \in matching : Len(y) >= Len(z)

\* findAuthoritativeZone: the longest domain that the name is in.
Closest(n) ==
  LET matching == {z \in Zones : domain[z] # None /\ IsPrefix(z, n)}
  IN  IF matching = {} THEN None ELSE CHOOSE z \in matching : \A y \in matching : Len(y) <= Len(z)

Latest(stamps) == CHOOSE t \in stamps : \A s \in stamps : s <= t

-----------------------------------------------------------------------------
(* The proof of absence *)

\* dnssecCanonicalLess: label by label from the right of the text; a name comes
\* before those below it.
CanonicalLess(m, n) ==
  \/ IsStrictPrefix(m, n)
  \/ \E k \in 1..Len(m) :
       /\ k <= Len(n) /\ m[k] < n[k]
       /\ \A j \in 1..(k - 1) : m[j] = n[j]

\* sort.Slice: each name once, in that order.
Sorted(names) ==
  CHOOSE s \in [1..Cardinality(names) -> names] :
    \A j \in DOMAIN s : \A i \in 1..(j - 1) : CanonicalLess(s[i], s[j])

\* Variation: the owner of a name before all others is the first of them.
SpanUnwrapped(sorted, n) ==
  LET at    == SelectInSeq(sorted, LAMBDA m : m = n)
      after == SelectInSeq(sorted, LAMBDA m : CanonicalLess(n, m))
      next  == IF after = 0 THEN 1 ELSE after
  IN  IF at # 0
        THEN [owner |-> n, next |-> sorted[(at % Len(sorted)) + 1]]
        ELSE [owner |-> sorted[IF next = 1 THEN 1 ELSE next - 1], next |-> sorted[next]]

\* findNSECSpan: a name that exists owns its span; the span of another one is from
\* the name before it to the one after it, around the end of the zone.
Span(sorted, n) ==
  LET at    == SelectInSeq(sorted, LAMBDA m : m = n)
      after == SelectInSeq(sorted, LAMBDA m : CanonicalLess(n, m))
      next  == IF after = 0 THEN 1 ELSE after
  IN  IF at # 0
        THEN [owner |-> n, next |-> sorted[(at % Len(sorted)) + 1]]
        ELSE [owner |-> sorted[IF next = 1 THEN Len(sorted) ELSE next - 1], next |-> sorted[next]]

\* nsecTypeBitMap: the types of the records and those the server makes up.
BitMap(types, apex) ==
  types \cup {"CAA"} \cup (IF apex THEN {"SOA", "NS"} ELSE {})
    \cup (IF dnssec THEN {"NSEC", "RRSIG"} ELSE {}) \cup (IF dnssec /\ apex THEN {"DNSKEY"} ELSE {})

-----------------------------------------------------------------------------
Blank == [rcode |-> "NoError", answer |-> {}, signed |-> FALSE, soa |-> None, proof |-> None]
RR(owner, type, from) == [owner |-> owner, type |-> type, from |-> from]

Move == moves < MaxMoves /\ moves' = moves + 1

\* A statement succeeds, or fails.
Statement(ok) == IF ok THEN UNCHANGED <<failed, moves>> ELSE Move /\ failed' = TRUE

\* What happens to the tables meanwhile is no work of the query.
Looking == UNCHANGED <<tables, now, keptRows, keptZones>>
Reading == Looking /\ UNCHANGED skipped

\* Some domains and good records, with signatures switched on.
Init ==
  /\ domain \in [Zones -> {None, 1}]
  /\ record \in [Ids -> [zone : {z \in Zones : domain[z] # None}, name : Names,
                         type : Stored, content : {"good"}, stamp : {1}] \cup {None}]
  /\ dnssec = TRUE /\ now = 1
  /\ pc = "idle" /\ question = None /\ zone = None /\ reply = Blank
  /\ keptRows = {} /\ keptZones = {} /\ skipped = FALSE /\ failed = FALSE
  /\ told = None /\ moves = 0

-----------------------------------------------------------------------------
(* A query *)

Ask(n, t, do) ==
  /\ pc = "idle"
  /\ question' = [name |-> n, type |-> t, do |-> do]
  /\ pc' = "zone"
  /\ keptRows' = Ids /\ keptZones' = Zones
  /\ UNCHANGED <<tables, now, zone, reply, skipped, told, failed, moves>>

FindZone(ok) ==
  /\ pc = "zone"
  /\ zone' = IF ok THEN Closest(question.name) ELSE None
  /\ pc' = "lookup"
  /\ Statement(ok) /\ Reading /\ UNCHANGED <<question, reply, told>>

\* The message is sent, and with it the serial of the zone.
Send(message) ==
  /\ reply' = message /\ pc' = "sent"
  /\ told' = IF message.soa = None \/ keptRows # Ids \/ keptZones # Zones THEN told
             ELSE [zone |-> zone, serial |-> message.soa]

Refuse(rcode) == Send([reply EXCEPT !.rcode = rcode])

\* respondMissingType: outside all zones there is nothing to prove.
Missing ==
  IF zone = None THEN Refuse("NXDomain")
  ELSE pc' = "exists" /\ UNCHANGED <<reply, told>>

\* querySingleRecord (any one of the rows), queryMultiRecords (all of them)
Lookup(ok) ==
  LET rows  == {i \in RowsOf(zone, question.name) : record[i].type = question.type}
      reads == IF question.type = "TXT" \/ rows = {} THEN {rows} ELSE {{i} : i \in rows}
  IN  /\ pc = "lookup" /\ question.type \in Stored
      /\ \E read \in reads :
           LET found == {i \in read : record[i].content # "void"}
               good  == {i \in found : record[i].content = "good"}
           IN  /\ IF found = {} \/ ~ok
                    THEN Missing
                    ELSE /\ reply' = [reply EXCEPT !.answer =
                              {RR(question.name, question.type, i) : i \in good}]
                         /\ pc' = "sign" /\ UNCHANGED told
               /\ skipped' = (found # read)
      /\ Statement(ok) /\ Looking /\ UNCHANGED <<question, zone>>

\* NS and CAA records are made up from the settings, the former for the zone, if
\* there are hosts in dns.ns_hosts.
Synthesize(hosts) ==
  /\ pc = "lookup" /\ question.type \in {"NS", "CAA"}
  /\ IF zone = None \/ (question.type = "NS" /\ ~hosts)
       THEN Refuse("NXDomain")
       ELSE /\ reply' = [reply EXCEPT !.answer =
                 {RR(IF question.type = "NS" THEN zone ELSE question.name, question.type, None)}]
            /\ pc' = "sign" /\ UNCHANGED told
  /\ Reading /\ UNCHANGED <<question, zone, failed, moves>>

AskSOA ==
  /\ pc = "lookup" /\ question.type = "SOA"
  /\ IF zone # None /\ zone = question.name
       THEN pc' = "created" /\ UNCHANGED <<reply, told>>
       ELSE Missing
  /\ Reading /\ UNCHANGED <<question, zone, failed, moves>>

\* getOrCreateDNSSECKey may fail.
AskKey(ok) ==
  /\ pc = "lookup" /\ question.type = "DNSKEY"
  /\ CASE ~dnssec                                       -> Refuse("NotImp")
       [] dnssec /\ zone # question.name                -> Refuse("NXDomain")
       [] dnssec /\ zone = question.name /\ ~ok         -> Refuse("ServFail")
       [] dnssec /\ zone = question.name /\ ok          ->
            Send([reply EXCEPT !.answer = {RR(zone, "DNSKEY", None)}, !.signed = TRUE])
  /\ Statement(ok) /\ Reading /\ UNCHANGED <<question, zone>>

AskDS ==
  /\ pc = "lookup" /\ question.type = "DS"
  /\ Missing
  /\ Reading /\ UNCHANGED <<question, zone, failed, moves>>

AskOther ==
  /\ pc = "lookup" /\ question.type = "other"
  /\ Refuse("NotImp")
  /\ Reading /\ UNCHANGED <<question, zone, failed, moves>>

\* nameExistsInZone: the zone itself always exists.
Exists(ok) ==
  /\ pc = "exists"
  /\ reply' = [reply EXCEPT !.rcode =
       IF zone = question.name \/ (ok /\ RowsOf(zone, question.name) # {}) THEN "NoError" ELSE "NXDomain"]
  /\ pc' = "created"
  /\ Statement(ok) /\ Reading /\ UNCHANGED <<question, zone, told>>

\* zoneSOASerial: the creation of the domain, ...
Created(ok) ==
  /\ pc = "created"
  /\ reply' = [reply EXCEPT !.soa = IF ok /\ domain[zone] # None THEN domain[zone] ELSE 0]
  /\ pc' = "updated"
  /\ Statement(ok) /\ Reading /\ UNCHANGED <<question, zone, told>>

\* Variation: the time of some record.
UpdatedOfAny(ok) ==
  /\ pc = "updated"
  /\ \E s \in IF ok /\ RowsIn(zone) # {} THEN {record[i].stamp : i \in RowsIn(zone)} ELSE {reply.soa} :
       reply' = [reply EXCEPT
         !.soa = IF s = 0 THEN 1 ELSE s,
         !.answer = IF question.type = "SOA" /\ zone = question.name THEN {RR(zone, "SOA", None)} ELSE {}]
  /\ pc' = IF reply'.answer # {} THEN "sign" ELSE "deny"
  /\ Statement(ok) /\ Reading /\ UNCHANGED <<question, zone, told>>

\* Variation: a zone without any time has the serial 0.
UpdatedOrZero(ok) ==
  LET stamps == {reply.soa} \cup {record[i].stamp : i \in IF ok THEN RowsIn(zone) ELSE {}}
  IN  /\ pc = "updated"
      /\ reply' = [reply EXCEPT
           !.soa = Latest(stamps),
           !.answer = IF question.type = "SOA" /\ zone = question.name THEN {RR(zone, "SOA", None)} ELSE {}]
      /\ pc' = IF reply'.answer # {} THEN "sign" ELSE "deny"
      /\ Statement(ok) /\ Reading /\ UNCHANGED <<question, zone, told>>

\* ... or the last change of a record in it, or 1.
Updated(ok) ==
  LET stamps == {reply.soa} \cup {record[i].stamp : i \in IF ok THEN RowsIn(zone) ELSE {}}
  IN  /\ pc = "updated"
      /\ reply' = [reply EXCEPT
           !.soa = IF Latest(stamps) = 0 THEN 1 ELSE Latest(stamps),
           !.answer = IF question.type = "SOA" /\ zone = question.name THEN {RR(zone, "SOA", None)} ELSE {}]
      /\ pc' = IF reply'.answer # {} THEN "sign" ELSE "deny"
      /\ Statement(ok) /\ Reading /\ UNCHANGED <<question, zone, told>>

\* appendNegativeAuthority: no proof unless it is asked for, and there is a key.
Deny(ok) ==
  /\ pc = "deny"
  /\ IF question.do /\ dnssec /\ ok
       THEN reply' = [reply EXCEPT !.signed = TRUE] /\ pc' = "names" /\ UNCHANGED told
       ELSE Send(reply)
  /\ Statement(ok) /\ Reading /\ UNCHANGED <<question, zone>>

\* buildNSECProof: the names of the zone are read and sorted, ...
ProveSpan(ok) ==
  LET names == {zone} \cup {record[i].name : i \in IF ok THEN RowsIn(zone) ELSE {}}
      span  == Span(Sorted(names), question.name)
  IN  /\ pc = "names"
      /\ reply' = [reply EXCEPT !.proof = [owner |-> span.owner, next |-> span.next, types |-> {}]]
      /\ pc' = "types"
      /\ Statement(ok) /\ Reading /\ UNCHANGED <<question, zone, told>>

\* ... then the types of the owner.
ProveTypes(ok) ==
  LET owner == reply.proof.owner
  IN  /\ pc = "types"
      /\ Send([reply EXCEPT !.proof.types =
           BitMap(IF ok THEN TypesOf(zone, owner) ELSE {}, owner = zone)])
      /\ Statement(ok) /\ Reading /\ UNCHANGED <<question, zone>>

\* An answer is signed if that is asked for, and there is a key.
Sign(ok) ==
  /\ pc = "sign"
  /\ Send([reply EXCEPT !.signed = reply.answer # {} /\ question.do /\ dnssec /\ ok])
  /\ Statement(ok) /\ Reading /\ UNCHANGED <<question, zone>>

\* The goroutine of the query is over.
Return ==
  /\ pc = "sent"
  /\ pc' = "idle" /\ question' = None /\ zone' = None /\ reply' = Blank
  /\ keptRows' = {} /\ keptZones' = {} /\ skipped' = FALSE /\ failed' = FALSE
  /\ UNCHANGED <<tables, now, told, moves>>

-----------------------------------------------------------------------------
(* Administrators *)

\* The query has not seen these rows and domains stay as they are.  The clock is
\* read by the statements that write and by no other: it has gone on till then.
Touch(rows, domains) ==
  /\ now' \in now..MaxTime
  /\ keptRows' = keptRows \ rows /\ keptZones' = keptZones \ domains
  /\ UNCHANGED <<pc, locals, skipped, failed>>

CreateDomain(z) ==
  /\ domain[z] = None
  /\ Touch({}, {z})
  /\ domain' = [domain EXCEPT ![z] = now']
  /\ UNCHANGED <<record, dnssec, told>>

\* DeleteDomain: the records and the domain go in one transaction.
DeleteDomain(z) ==
  /\ domain[z] # None
  /\ domain' = [domain EXCEPT ![z] = None]
  /\ record' = [i \in Ids |-> IF i \in RowsIn(z) THEN None ELSE record[i]]
  /\ told' = IF told # None /\ told.zone = z THEN None ELSE told
  /\ Touch(RowsIn(z), {z}) /\ UNCHANGED dnssec

\* CreateRecord: the name need not be one of the zone.
CreateRecord(i, z, n, t, c) ==
  /\ record[i] = None /\ domain[z] # None
  /\ Touch({i}, {})
  /\ record' = [record EXCEPT ![i] = [zone |-> z, name |-> n, type |-> t, content |-> c, stamp |-> now']]
  /\ UNCHANGED <<domain, dnssec, told>>

\* UpdateRecord: the row gets the time of a statement that changes it, if only in
\* its contents.
UpdateRecord(i, n, t, c) ==
  /\ i \in Present
  /\ Touch({i}, {})
  /\ record' = [record EXCEPT ![i] = [zone |-> @.zone, name |-> n, type |-> t, content |-> c, stamp |-> now']]
  /\ UNCHANGED <<domain, dnssec, told>>

DeleteRecord(i) ==
  /\ i \in Present
  /\ record' = [record EXCEPT ![i] = None]
  /\ told' = IF told # None /\ told.zone = record[i].zone THEN None ELSE told
  /\ Touch({i}, {}) /\ UNCHANGED <<domain, dnssec>>

\* The setting is saved.
SwitchDNSSEC ==
  /\ dnssec' = ~dnssec
  /\ Touch({}, Zones) /\ UNCHANGED <<domain, record, told>>

-----------------------------------------------------------------------------
Query ==
  \/ \E n \in Names, t \in Asked, do \in BOOLEAN : Ask(n, t, do)
  \/ AskSOA \/ AskDS \/ AskOther \/ Return
  \/ \E ok \in BOOLEAN :
       \/ FindZone(ok) \/ Lookup(ok) \/ Synthesize(ok) \/ AskKey(ok)
       \/ Exists(ok) \/ Created(ok) \/ Updated(ok)
       \/ Deny(ok) \/ ProveSpan(ok) \/ ProveTypes(ok) \/ Sign(ok)

Administer ==
  /\ Move
  /\ \/ \E z \in Zones : CreateDomain(z) \/ DeleteDomain(z)
     \/ \E i \in Ids :
          \/ DeleteRecord(i)
          \/ \E n \in Names, t \in Stored, c \in Contents :
               \/ UpdateRecord(i, n, t, c)
               \/ \E z \in Zones : CreateRecord(i, z, n, t, c)
     \/ SwitchDNSSEC

Next == Query \/ Administer

Spec == Init /\ [][Next]_vars

-----------------------------------------------------------------------------
(* Properties *)

Proof == [owner : Names, next : Names, types : SUBSET (Asked \cup {"NSEC", "RRSIG"})]

\* Type invariant: the rows are those of domains, and a message that denies
\* something bears the serial of its zone.
TypeOK ==
  /\ domain \in [Zones -> 1..now \cup {None}]
  /\ record \in [Ids -> Row \cup {None}]
  /\ \A i \in Present : domain[record[i].zone] # None /\ record[i].stamp <= now
  /\ dnssec \in BOOLEAN /\ zone \in Zones \cup {None} /\ skipped \in BOOLEAN
  /\ reply.rcode \in {"NoError", "NXDomain", "NotImp", "ServFail"}
  /\ \A rr \in reply.answer : rr.type \in Asked /\ rr.owner \in Names /\ rr.from \in Ids \cup {None}
  /\ reply.proof \in Proof \cup {None}
  /\ pc = "sent" /\ (reply.proof # None \/ RR(zone, "SOA", None) \in reply.answer) => reply.soa \in 1..now

Undisturbed == ~failed /\ keptRows = Ids /\ keptZones = Zones

\* RFC 4034: the names between the owner of an NSEC record and its next name, or
\* after the last name of a zone, do not exist.
Covers(proof, n) ==
  IF CanonicalLess(proof.owner, proof.next)
    THEN CanonicalLess(proof.owner, n) /\ CanonicalLess(n, proof.next)
    ELSE CanonicalLess(proof.owner, n) \/ CanonicalLess(n, proof.next)

\* Safety: a proof of absence is right.  If nothing changes or fails while it is
\* put together, it covers the name denied, or denies the type of a name there is;
\* it covers no name of the zone; it lists the types the owner does have; and it
\* speaks of names of the zone, as long as the records do.  Only for a type of which
\* a void row has been read does it not deny what the code does: it lists the type.
DenialIsProved ==
  pc = "sent" /\ reply.proof # None /\ Undisturbed =>
    LET proof == reply.proof
        names == {zone} \cup {record[i].name : i \in RowsIn(zone)}
    IN  /\ reply.rcode = "NXDomain" => Covers(proof, question.name)
        /\ reply.rcode = "NoError" => proof.owner = question.name /\ (question.type \notin proof.types \/ skipped)
        /\ \A n \in names : ~Covers(proof, n)
        /\ proof.types \cap Stored = TypesOf(zone, proof.owner)
        /\ proof.owner = zone <=> "SOA" \in proof.types
        /\ (\A n \in names : IsPrefix(zone, n)) => IsPrefix(zone, proof.owner) /\ IsPrefix(zone, proof.next)

\* Safety: whatever administrators change while an answer is put together, what
\* they leave alone counts: the zone is at least as close as a domain that stays,
\* a row that stays is not denied by the code, the type bits or the span, is among
\* the records of its name and type, and is no later than the serial.  A void row
\* is denied all the same, and with it, where one row is read, those it hides; and
\* the code is not about rows for NS (without hosts there are no names) and DNSKEY.
KeptRowsCount ==
  pc = "sent" /\ ~failed =>
    LET stays == keptRows \cap RowsIn(zone)
        same  == {i \in stays : record[i].name = question.name}
        asked == {i \in same : record[i].type = question.type}
    IN  /\ \A z \in keptZones : domain[z] # None /\ IsPrefix(z, question.name)
                                  => zone # None /\ Len(z) <= Len(zone)
        /\ same # {} => reply.rcode # "NXDomain" \/ question.type \in {"NS", "DNSKEY"}
        /\ asked # {} => reply.soa = None \/ skipped
        /\ question.type = "TXT" =>
             /\ (\E i \in asked : record[i].content # "void") => reply.soa = None
             /\ {i \in asked : record[i].content = "good"} \subseteq {rr.from : rr \in reply.answer}
        /\ reply.soa # None => \A i \in stays : record[i].stamp <= reply.soa
        /\ reply.proof # None => \A i \in stays :
             /\ ~Covers(reply.proof, record[i].name)
             /\ record[i].name = reply.proof.owner => record[i].type \in reply.proof.types

\* Safety: the serial of a zone does not go back from an answer put together while
\* nothing changed to a later one, as long as nothing is deleted from the zone,
\* whatever is created and changed between the two and during the later one.
SerialNeverBack ==
  [][pc' = "sent" /\ reply'.soa # None /\ ~failed' /\ told # None
       => told.zone # zone \/ told.serial <= reply'.soa]_vars
=============================================================================
