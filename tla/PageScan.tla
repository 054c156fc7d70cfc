------------------------------ MODULE PageScan ------------------------------
(***************************************************************************)
(* What paging promises (README, "Sorting & pagination"; typed.go:165-174):*)
(* the pages a client asks for, put together, are one scan of the table in *)
(* the order of the sort, from a starting position to the end, while other *)
(* clients write.  A read takes the next rows, all that the table holds up *)
(* to the last one it takes, and ends the scan only with nothing left.     *)
(***************************************************************************)
EXTENDS SortOrder

VARIABLES
  table,   \* the rows that match the filters
  met,     \* the rows read so far, in the order read
  ended,   \* the last page was read
  order    \* the position of the scan: dialect, sorts, and where it starts

scan == <<table, met, ended, order>>

Rows(seq) == {seq[i] : i \in DOMAIN seq}

Ordered(seq) ==
  \A i, j \in DOMAIN seq : i < j => Before(order.dialect, order.sorts, seq[i], seq[j])

\* What there was to read, and is not behind the scan already.
Left(r) ==
  /\ Seek(order.sorts, order.start, r)
  /\ \A i \in DOMAIN met : Before(order.dialect, order.sorts, met[i], r)

Init ==
  /\ table \subseteq Row
  /\ met = <<>>
  /\ ended = FALSE

Write ==
  /\ table' \subseteq Row
  /\ UNCHANGED <<met, ended, order>>

Read ==
  /\ ~ended
  /\ Len(met') >= Len(met)
  /\ \A i \in DOMAIN met : met'[i] = met[i]
  /\ Ordered(met')
  /\ \A i \in DOMAIN met' \ DOMAIN met : met'[i] \in table /\ Left(met'[i])
  /\ \A r \in table : Left(r) /\ r \notin Rows(met') =>
       ~ended' /\ \A i \in DOMAIN met' : Before(order.dialect, order.sorts, met'[i], r)
  /\ ended' \in BOOLEAN
  /\ ~ended' => Len(met') > Len(met)
  /\ UNCHANGED <<table, order>>

Next == Write \/ Read

Spec == Init /\ [][Next]_scan
=============================================================================
