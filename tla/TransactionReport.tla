------------------------------ MODULE TransactionReport ------------------------------
(***************************************************************************)
(* GET /reports/transactions over the stores of TransactionStores: the     *)
(* filter, the order and the limit.  The Postgres report is what its       *)
(* statement asks for; the in-memory one filters, sorts and cuts the       *)
(* payments by hand, from a map that Go iterates in any order.  A payment  *)
(* method is filtered like a payment system and left out, and so are the   *)
(* totals and groups that are counted over the list.                       *)
(***************************************************************************)
EXTENDS TransactionStores, Integers, FiniteSetsExt, SequencesExt

CONSTANTS
    Filters,        \* the filters of requests, see FilterType
    DefaultLimit,   \* defaultReportLimit, 100
    MaxLimit        \* maxReportLimit, 500

(* A parameter a request leaves out: no limit is <<>>, a given one <<n>>.  *)
Anything == "anything"
NoDate == -1

FilterType ==
    [status : Saved \cup {Anything}, system : {SystemOf[k] : k \in Keys} \cup {Anything},
     from : Times \cup {NoDate}, to : Times \cup {NoDate}, limit : Seq(Int)]

ASSUME ReportAssumption ==
    /\ Filters \subseteq FilterType
    /\ \A f \in Filters : Len(f.limit) <= 1
    /\ MaxLimit \in Nat /\ DefaultLimit \in 1..MaxLimit

(* The handler refuses a limit that is not positive, and caps a greater    *)
(* one; the store does both again, but takes what is not positive for the  *)
(* default.                                                                *)
Accepted(f) == f.limit = <<>> \/ f.limit[1] > 0
DecodedLimit(f) == IF f.limit = <<>> THEN DefaultLimit ELSE Min({f.limit[1], MaxLimit})
Limit(f) == IF DecodedLimit(f) <= 0 THEN DefaultLimit ELSE Min({DecodedLimit(f), MaxLimit})

(* Both dates are inclusive. *)
Matches(tx, f) ==
    /\ f.from # NoDate => tx.created >= f.from
    /\ f.to # NoDate => tx.created <= f.to
    /\ f.status # Anything => tx.status = f.status
    /\ f.system # Anything => SystemOf[tx.key] = f.system

RowsMatching(f)     == {rows[k] : k \in {k \in Keys : Found(rows[k]) /\ Matches(rows[k], f)}}
PaymentsMatching(f) ==
    {byPaymentID[p] : p \in {p \in Payments : Found(byPaymentID[p]) /\ Matches(byPaymentID[p], f)}}

(* ORDER BY created_at DESC LIMIT limit: what a list has to satisfy to be  *)
(* such a list of the records.                                             *)
IsNewest(list, records, limit) ==
    /\ ToSet(list) \subseteq records
    /\ IsInjective(list)
    /\ Len(list) = Min({limit, Cardinality(records)})
    /\ \A i \in 1..Len(list) :
          \A r \in records \ {list[j] : j \in 1..i} : r.created <= list[i].created

PostgresLists(f) ==
    LET records == RowsMatching(f)
        size    == Min({Limit(f), Cardinality(records)})
    IN  {list \in [1..size -> records] : IsNewest(list, records, Limit(f))}

(* One comparison of the exchange sort. *)
Exchange(s, i, j) ==
    IF s[j].created > s[i].created THEN [s EXCEPT ![i] = s[j], ![j] = s[i]] ELSE s

(* The inner loop for a position: it is compared with all that follow.     *)
NewestTo(s, i) ==
    LET loop[j \in i..Len(s)] == IF j = i THEN s ELSE Exchange(loop[j - 1], i, j)
    IN  loop[Len(s)]

(* Fault variant of sortReportRecords: each record is compared with its    *)
(* successor only.                                                         *)
sortReportRecordsOnePass(s) ==
    LET loop[i \in 0..Len(s)] ==
            IF i = 0 THEN s
            ELSE IF i = Len(s) THEN loop[i - 1]
            ELSE Exchange(loop[i - 1], i, i + 1)
    IN  loop[Len(s)]

sortReportRecords(s) ==
    LET loop[i \in 0..Len(s)] == IF i = 0 THEN s ELSE NewestTo(loop[i - 1], i)
    IN  loop[Len(s)]

Cut(s, limit) == SubSeq(s, 1, Min({limit, Len(s)}))

MemoryLists(f) == {Cut(sortReportRecords(s), Limit(f)) : s \in SetToSeqs(PaymentsMatching(f))}

-----------------------------------------------------------------------------
Requests == {f \in Filters : Accepted(f)}

(* The in-memory report is one that the statement of the Postgres store    *)
(* would allow on the same records: the exchange sort and the cut after it *)
(* leave the newest, newest first, from whatever order the map is iterated *)
(* in, and lose or repeat none.                                            *)
ReportIsNewest ==
    \A f \in Requests : \A list \in MemoryLists(f) :
        IsNewest(list, PaymentsMatching(f), Limit(f))
=============================================================================
