------------------------- MODULE WebhookDelivery_proofs -------------------------
(***************************************************************************)
(* No delivery is given up early, and none reads delivered that was not    *)
(* accepted, for every number of endpoints, of overlapping drains and of   *)
(* operator calls.  Transactions work on old values and overwrite each     *)
(* other's counts; the argument is that every value a transaction has read *)
(* or written was true when it was, and stays true because requests are    *)
(* only added.  Where drains do not overlap, requests are bounded as well. *)
(* Transactions that wait for each other's rows never all wait.            *)
(***************************************************************************)
EXTENDS WebhookDelivery, FiniteSetTheorems, SequenceTheorems, WellFoundedInduction, TLAPS

(* A count of attempts is backed by requests, except for a refused row. *)
Counted(d, n) == d \in refused \/ n <= posts[d]

(* Row d may be given up. *)
Spent(d) == d \in refused \/ posts[d] >= MaxAttempts

DataTyped ==
  /\ endpoint \in [Endpoints -> {"active", "inactive", "deleted"}]
  /\ row \in Seq(Row) /\ Len(row) <= MaxRows
  /\ cool \subseteq Rows /\ accepted \subseteq Rows /\ refused \subseteq Rows
  /\ posts \in [1..MaxRows -> Nat] /\ calls \in 0..MaxCalls /\ rollbacks \in 0..MaxRollbacks

TxTyped(p) ==
  /\ tx[p].pc \in {"idle", "next", "post"} /\ tx[p].left \in 0..InCall
  /\ \A r \in tx[p].todo : r \in Read /\ r.id \in Rows
  /\ DOMAIN tx[p].writes \subseteq Rows
  /\ \A d \in DOMAIN tx[p].writes : tx[p].writes[d] \in Write

(* What the table says. *)
RowsTrue ==
  \A d \in Rows :
    /\ Counted(d, row[d].attempts)
    /\ row[d].status = "failed" => Spent(d)
    /\ row[d].status = "delivered" => d \in accepted

(* What a transaction has read. *)
ReadsTrue(p) ==
  \A r \in tx[p].todo :
    /\ Counted(r.id, r.attempts)
    /\ r.status = "delivered" => r.id \in accepted

(* p is about to send a request for row d, which it has counted already. *)
Posting(p, d) == tx[p].pc = "post" /\ \E r \in tx[p].todo : Oldest(p, r) /\ r.id = d

(* What a transaction has written: it may repeat a status it has read.     *)
WritesTrue(p) ==
  \A d \in DOMAIN tx[p].writes :
    /\ Counted(d, IF Posting(p, d) THEN tx[p].writes[d].attempts - 1 ELSE tx[p].writes[d].attempts)
    /\ tx[p].writes[d].status = "failed" /\ tx[p].writes[d].seen # "failed" => Spent(d)
    /\ tx[p].writes[d].status = "delivered" => d \in accepted

(* A request is sent for a row that was written first. *)
WrittenFirst(p) ==
  tx[p].pc = "post" =>
    /\ tx[p].left > 0
    /\ \A r \in tx[p].todo : Oldest(p, r) => r.id \in DOMAIN tx[p].writes

TxTrue(p) == TxTyped(p) /\ ReadsTrue(p) /\ WritesTrue(p) /\ WrittenFirst(p)

IInv ==
  /\ DataTyped /\ RowsTrue
  /\ DOMAIN tx = Processes /\ \A p \in Processes : TxTrue(p)

(* Requests, answers, refusals and rows are only added. *)
Grows ==
  /\ Rows \subseteq Rows' /\ \A d \in Rows : posts'[d] >= posts[d]
  /\ accepted \subseteq accepted' /\ refused \subseteq refused'

-----------------------------------------------------------------------------
LEMMA Types == IInv => TypeOK
BY DEF IInv, TypeOK, DataTyped, TxTrue, TxTyped

LEMMA RowsAre ==
  ASSUME DataTyped
  PROVE  /\ Rows = 1..Len(row) /\ Rows \subseteq 1..MaxRows /\ Len(row) \in Nat
         /\ \A d \in Rows : row[d] \in Row /\ posts[d] \in Nat /\ d \in Nat
<1>1. Rows = 1..Len(row) /\ Len(row) \in Nat
  BY DEF DataTyped, Rows
<1>2. Rows \subseteq 1..MaxRows
  BY <1>1, LimitsAssumption DEF DataTyped
<1>3. \A d \in Rows : row[d] \in Row
  BY <1>1 DEF DataTyped
<1> QED
  BY <1>1, <1>2, <1>3 DEF DataTyped

(* What was true stays true. *)
LEMMA CountedStays ==
  ASSUME DataTyped, DataTyped', Grows, NEW d \in Rows, NEW n \in Int, Counted(d, n)
  PROVE  Counted(d, n)'
<1>1. posts[d] \in Nat /\ posts'[d] \in Nat /\ posts'[d] >= posts[d]
  BY RowsAre, LimitsAssumption DEF DataTyped, Grows
<1> QED
  BY <1>1 DEF Counted, Grows

LEMMA SpentStays ==
  ASSUME DataTyped, DataTyped', Grows, NEW d \in Rows, Spent(d)
  PROVE  Spent(d)'
<1>1. posts[d] \in Nat /\ posts'[d] \in Nat /\ posts'[d] >= posts[d]
  BY RowsAre, LimitsAssumption DEF DataTyped, Grows
<1> QED
  BY <1>1, LimitsAssumption DEF Spent, Grows

(* A step leaves the transactions it does not write as they are. *)
LEMMA OthersStay ==
  ASSUME IInv, DataTyped', Grows, NEW p \in Processes, tx'[p] = tx[p]
  PROVE  TxTrue(p)'
<1>1. TxTyped(p)'
  BY DEF IInv, TxTrue, TxTyped, Grows
<1>2. \A r \in tx[p].todo : r.id \in Rows /\ r.attempts \in Int
  BY DEF IInv, TxTrue, TxTyped, Read
<1>3. ReadsTrue(p)'
  BY <1>2, CountedStays DEF IInv, TxTrue, ReadsTrue, Grows
<1>4. \A d : Posting(p, d)' <=> Posting(p, d)
  BY DEF Posting, Oldest
<1>5. ASSUME NEW d \in DOMAIN tx[p].writes
      PROVE  d \in Rows /\ tx[p].writes[d].attempts \in Int /\ tx[p].writes[d].attempts - 1 \in Int
  BY DEF IInv, TxTrue, TxTyped, Write
<1>6. ASSUME NEW d \in DOMAIN tx[p].writes
      PROVE  Counted(d, IF Posting(p, d) THEN tx[p].writes[d].attempts - 1 ELSE tx[p].writes[d].attempts)'
  <2> DEFINE n == IF Posting(p, d) THEN tx[p].writes[d].attempts - 1 ELSE tx[p].writes[d].attempts
  <2>1. d \in Rows /\ n \in Int /\ Counted(d, n)
    BY <1>5 DEF IInv, TxTrue, WritesTrue
  <2>2. n' = n
    BY <1>4
  <2>3. d \in refused' \/ n <= posts'[d]
    <3> HIDE DEF n
    <3> QED BY <2>1, CountedStays DEF IInv, Counted
  <2> QED
    BY <2>2, <2>3 DEF Counted
<1>7. WritesTrue(p)'
  BY <1>5, <1>6, SpentStays DEF IInv, TxTrue, WritesTrue, Grows
<1>8. WrittenFirst(p)'
  BY DEF IInv, TxTrue, WrittenFirst, Oldest
<1> QED
  BY <1>1, <1>3, <1>7, <1>8 DEF TxTrue

LEMMA RowsStay ==
  ASSUME IInv, DataTyped', Grows, row' = row
  PROVE  RowsTrue'
<1>1. \A d \in Rows : row[d].attempts \in Int
  BY RowsAre DEF IInv, Row
<1>2. Rows' = Rows
  BY DEF Rows
<1> QED
  BY <1>1, <1>2, CountedStays, SpentStays DEF IInv, RowsTrue, Grows

(* A step of process p on its own transaction. *)
LEMMA OwnStep ==
  ASSUME IInv, NEW p \in Processes, NEW t, tx' = [tx EXCEPT ![p] = t],
         DataTyped', Grows, RowsTrue', TxTrue(p)'
  PROVE  IInv'
<1>1. DOMAIN tx' = Processes /\ \A q \in Processes : q # p => tx'[q] = tx[q]
  BY DEF IInv
<1>2. \A q \in Processes : TxTrue(q)'
  BY <1>1, OthersStay
<1> QED
  BY <1>1, <1>2 DEF IInv

(* A step of no process. *)
LEMMA NobodyStep ==
  ASSUME IInv, tx' = tx, DataTyped', Grows, RowsTrue'
  PROVE  IInv'
<1>1. \A q \in Processes : TxTrue(q)'
  BY OthersStay
<1> QED
  BY <1>1 DEF IInv

-----------------------------------------------------------------------------
(* Endpoints, events and time. *)

LEMMA EndpointStep ==
  ASSUME IInv, NEW e \in Endpoints, Deactivate(e) \/ Reactivate(e) \/ Delete(e)
  PROVE  IInv'
<1>1. DataTyped'
  BY DEF IInv, DataTyped, Rows, Deactivate, Reactivate, Delete, SetActive
<1>2. Grows /\ tx' = tx /\ row' = row
  BY RowsAre DEF IInv, Grows, Rows, Deactivate, Reactivate, Delete, SetActive
<1> QED
  BY <1>1, <1>2, RowsStay, NobodyStep

LEMMA ElapseStep ==
  ASSUME IInv, NEW d \in Rows, Elapse(d)
  PROVE  IInv'
<1>1. DataTyped'
  BY DEF IInv, DataTyped, Rows, Elapse
<1>2. Grows /\ tx' = tx /\ row' = row
  BY RowsAre DEF IInv, Grows, Rows, Elapse
<1> QED
  BY <1>1, <1>2, RowsStay, NobodyStep

LEMMA EmitStep ==
  ASSUME IInv, NEW subscribed \in SUBSET Endpoints, Emit(subscribed)
  PROVE  IInv'
<1>1. PICK new \in SetToSeqs(subscribed) :
        row' = row \o [i \in DOMAIN new |-> [endpoint |-> new[i], status |-> "pending", attempts |-> 0]]
  BY DEF Emit
<1> DEFINE n == Cardinality(subscribed)
           added == [i \in DOMAIN new |-> [endpoint |-> new[i], status |-> "pending", attempts |-> 0]]
<1>2. n \in Nat
  BY EndpointsAssumption, FS_Subset, FS_CardinalityType
<1>3. new \in [1..n -> subscribed]
  BY DEF SetToSeqs
<1>4. added \in Seq(Row) /\ Len(added) = n
  <2>1. \A i \in 1..n : added[i] \in Row
    BY <1>3 DEF Row, Status
  <2>2. added \in [1..n -> Row]
    BY <1>3, <2>1
  <2> QED
    BY <1>2, <2>2
<1>5. row \in Seq(Row) /\ row' = row \o added
  BY <1>1 DEF IInv, DataTyped
<1>6. /\ row' \in Seq(Row) /\ Len(row') = Len(row) + n /\ Len(row) \in Nat
      /\ \A i \in 1..Len(row) : row'[i] = row[i]
      /\ \A i \in (1..Len(row')) \ (1..Len(row)) : row'[i] = added[i - Len(row)] /\ i - Len(row) \in 1..n
  <2> HIDE DEF added, n
  <2>1. row' \in Seq(Row) /\ Len(row') = Len(row) + n /\ Len(row) \in Nat
    <3>1. row \in Seq(Row) /\ added \in Seq(Row)
      BY <1>4, <1>5
    <3>2. row \o added \in Seq(Row) /\ Len(row \o added) = Len(row) + Len(added) /\ Len(row) \in Nat
      BY <3>1, ConcatProperties
    <3> QED
      BY <1>4, <1>5, <3>2
  <2>2. \A i \in 1..Len(row) : row'[i] = row[i]
    BY <1>2, <1>4, <1>5, ConcatProperties
  <2>3. ASSUME NEW i \in (1..Len(row')) \ (1..Len(row))
        PROVE  row'[i] = added[i - Len(row)] /\ i - Len(row) \in 1..n
    <3>1. i \in Int /\ i > Len(row) /\ i <= Len(row) + Len(added)
      BY <1>2, <1>4, <2>1
    <3> QED
      BY <1>2, <1>4, <1>5, <2>1, <3>1, ConcatProperties
  <2> QED
    BY <2>1, <2>2, <2>3
<1>7. Rows = 1..Len(row) /\ Rows' = 1..Len(row')
  BY <1>5, <1>6 DEF Rows
<1>8. Grows /\ tx' = tx
  BY <1>2, <1>6, <1>7, RowsAre DEF IInv, Grows, Emit
<1>9. DataTyped'
  <2>1. Len(row') <= MaxRows
    BY <1>6 DEF Emit
  <2>2. cool' \subseteq Rows' /\ accepted' \subseteq Rows' /\ refused' \subseteq Rows'
    BY <1>8 DEF Emit, Grows, IInv, DataTyped
  <2> QED
    BY <1>6, <2>1, <2>2 DEF Emit, IInv, DataTyped
<1>10. RowsTrue'
  <2>1. ASSUME NEW d \in Rows
        PROVE  /\ Counted(d, row[d].attempts)' /\ (row[d].status = "failed" => Spent(d))'
               /\ (row[d].status = "delivered" => d \in accepted)'
    <3>1. row'[d] = row[d] /\ posts' = posts /\ accepted' = accepted /\ refused' = refused
      BY <1>6, <1>7 DEF Emit
    <3> QED
      BY <3>1 DEF IInv, RowsTrue, Counted, Spent
  <2>2. ASSUME NEW d \in Rows' \ Rows
        PROVE  row'[d].attempts = 0 /\ row'[d].status = "pending"
    <3>1. row'[d] = added[d - Len(row)] /\ d - Len(row) \in 1..n
      BY <1>6, <1>7
    <3> QED
      BY <1>3, <3>1
  <2>3. \A d \in Rows' : posts'[d] \in Nat
    BY <1>7, <1>9, <1>6, LimitsAssumption DEF DataTyped
  <2>4. ASSUME NEW d \in Rows' \ Rows
        PROVE  Counted(d, row[d].attempts)'
    BY <2>2, <2>3 DEF Counted
  <2> QED
    BY <2>1, <2>2, <2>4 DEF RowsTrue
<1> QED
  BY <1>8, <1>9, <1>10, NobodyStep

-----------------------------------------------------------------------------
(* One delivery. *)

(* What Set leaves: the row it is about, and the others as they were. *)
LEMMA SetIs ==
  ASSUME IInv, NEW p \in Processes, NEW r \in tx[p].todo, NEW s \in Status, NEW n \in Nat
  PROVE  LET w == Set(p, r, s, n)
         IN  /\ DOMAIN w = DOMAIN tx[p].writes \cup {r.id} /\ DOMAIN w \subseteq Rows
             /\ w[r.id] = [seen |-> r.status, status |-> s, attempts |-> n] /\ w[r.id] \in Write
             /\ \A d \in DOMAIN w : d # r.id => d \in DOMAIN tx[p].writes /\ w[d] = tx[p].writes[d]
BY DEF Set, IInv, TxTrue, TxTyped, Read, Write

(* Of the rows other than the oldest nothing is being posted, and their    *)
(* records stay true. *)
LEMMA OtherWrites ==
  ASSUME IInv, DataTyped', Grows, NEW p \in Processes, NEW r \in tx[p].todo, Oldest(p, r),
         NEW d \in DOMAIN tx[p].writes, d # r.id, NEW w, w = tx[p].writes[d]
  PROVE  /\ d \in Rows /\ w \in Write
         /\ Counted(d, w.attempts)'
         /\ (w.status = "failed" /\ w.seen # "failed") => Spent(d)'
         /\ w.status = "delivered" => d \in accepted'
<1>1. d \in Rows /\ tx[p].writes[d] \in Write
  BY DEF IInv, TxTrue, TxTyped
<1>2. ~Posting(p, d)
  <2>1. \A q \in tx[p].todo : q.id \in Nat
    BY DEF IInv, TxTrue, TxTyped, Read
  <2> QED
    BY <2>1 DEF Posting, Oldest
<1>3. tx[p].writes[d].attempts \in Int
  BY <1>1 DEF Write
<1>4. Counted(d, tx[p].writes[d].attempts)
  BY <1>2 DEF IInv, TxTrue, WritesTrue
<1>5. d \in refused' \/ tx[p].writes[d].attempts <= posts'[d]
  <2> DEFINE n == tx[p].writes[d].attempts
  <2>1. Counted(d, n) /\ n \in Int
    BY <1>3, <1>4
  <2> HIDE DEF n
  <2>2. d \in refused' \/ n <= posts'[d]
    BY <1>1, <2>1, CountedStays DEF IInv, Counted
  <2> QED
    BY <2>2 DEF n
<1>6. (tx[p].writes[d].status = "failed" /\ tx[p].writes[d].seen # "failed") => Spent(d)'
  BY <1>1, SpentStays DEF IInv, TxTrue, WritesTrue
<1>7. tx[p].writes[d].status = "delivered" => d \in accepted'
  BY DEF IInv, TxTrue, WritesTrue, Grows
<1> QED
  BY <1>1, <1>5, <1>6, <1>7 DEF Counted

(* A transaction that moves on from its oldest row. *)
LEMMA DoneStep ==
  ASSUME IInv, DataTyped', Grows, RowsTrue', NEW p \in Processes, NEW r \in tx[p].todo, Oldest(p, r),
         NEW s \in Status, NEW n \in Nat, Done(p, r, Set(p, r, s, n)),
         r.id \in refused' \/ n <= posts'[r.id],
         s = "failed" => Spent(r.id)', s = "delivered" => r.id \in accepted'
  PROVE  IInv'
<1> DEFINE w == Set(p, r, s, n)
<1>1. tx'[p] = [pc |-> "next", todo |-> tx[p].todo \ {r}, left |-> 0, writes |-> w]
  BY DEF IInv, Done
<1>0. /\ DOMAIN w = DOMAIN tx[p].writes \cup {r.id} /\ DOMAIN w \subseteq Rows
      /\ w[r.id] = [seen |-> r.status, status |-> s, attempts |-> n] /\ w[r.id] \in Write
      /\ \A d \in DOMAIN w : d # r.id => d \in DOMAIN tx[p].writes /\ w[d] = tx[p].writes[d]
  BY SetIs
<1> HIDE DEF w
<1>2. TxTyped(p)'
  <2>1. \A q \in tx'[p].todo : q \in Read /\ q.id \in Rows'
    BY <1>1 DEF IInv, TxTrue, TxTyped, Grows
  <2>2. DOMAIN tx'[p].writes \subseteq Rows' /\ \A d \in DOMAIN tx'[p].writes : tx'[p].writes[d] \in Write
    BY <1>0, <1>1 DEF IInv, TxTrue, TxTyped, Grows
  <2> QED
    BY <1>1, <2>1, <2>2, LimitsAssumption DEF TxTyped
<1>3. ReadsTrue(p)'
  <2>1. \A q \in tx[p].todo : q.id \in Rows /\ q.attempts \in Int
    BY DEF IInv, TxTrue, TxTyped, Read
  <2> QED
    BY <1>1, <2>1, CountedStays DEF IInv, TxTrue, ReadsTrue, Grows
<1>4. \A d : ~Posting(p, d)'
  BY <1>1 DEF Posting
<1>5. ASSUME NEW d \in DOMAIN w
      PROVE  /\ d \in refused' \/ w[d].attempts <= posts'[d]
             /\ w[d].status = "failed" /\ w[d].seen # "failed" => Spent(d)'
             /\ w[d].status = "delivered" => d \in accepted'
  <2>1. CASE d = r.id
    BY <1>0, <2>1
  <2>2. CASE d # r.id
    BY <1>0, <2>2, OtherWrites DEF Counted
  <2> QED BY <2>1, <2>2
<1>6. WritesTrue(p)'
  BY <1>1, <1>4, <1>5 DEF WritesTrue, Counted
<1>7. WrittenFirst(p)'
  BY <1>1 DEF WrittenFirst
<1> QED
  BY <1>2, <1>3, <1>6, <1>7, OwnStep DEF TxTrue, Done

(* A transaction that counts an attempt for its oldest row. *)
LEMMA CountStep ==
  ASSUME IInv, DataTyped', Grows, RowsTrue', NEW p \in Processes, NEW r \in tx[p].todo, Oldest(p, r),
         NEW n \in Nat, NEW k \in 1..InCall, r.id \in refused' \/ n - 1 <= posts'[r.id],
         tx' = [tx EXCEPT ![p] = [pc |-> "post", todo |-> tx[p].todo, left |-> k,
                                  writes |-> Set(p, r, r.status, n)]]
  PROVE  IInv'
<1> DEFINE w == Set(p, r, r.status, n)
<1>1. tx'[p] = [pc |-> "post", todo |-> tx[p].todo, left |-> k, writes |-> w]
  BY DEF IInv
<1>2. r \in Read /\ r.status \in Status
  BY DEF IInv, TxTrue, TxTyped, Read
<1>0. /\ DOMAIN w = DOMAIN tx[p].writes \cup {r.id} /\ DOMAIN w \subseteq Rows
      /\ w[r.id] = [seen |-> r.status, status |-> r.status, attempts |-> n] /\ w[r.id] \in Write
      /\ \A d \in DOMAIN w : d # r.id => d \in DOMAIN tx[p].writes /\ w[d] = tx[p].writes[d]
  <2> DEFINE s == r.status
  <2>1. s \in Status /\ w = Set(p, r, s, n)
    BY <1>2
  <2> HIDE DEF s, w
  <2>2. /\ DOMAIN w = DOMAIN tx[p].writes \cup {r.id} /\ DOMAIN w \subseteq Rows
        /\ w[r.id] = [seen |-> r.status, status |-> s, attempts |-> n] /\ w[r.id] \in Write
        /\ \A d \in DOMAIN w : d # r.id => d \in DOMAIN tx[p].writes /\ w[d] = tx[p].writes[d]
    BY <2>1, SetIs
  <2> QED
    BY <2>2 DEF s
<1> HIDE DEF w
<1>3. TxTyped(p)'
  <2>1. \A q \in tx'[p].todo : q \in Read /\ q.id \in Rows'
    BY <1>1 DEF IInv, TxTrue, TxTyped, Grows
  <2>2. DOMAIN tx'[p].writes \subseteq Rows' /\ \A d \in DOMAIN tx'[p].writes : tx'[p].writes[d] \in Write
    BY <1>0, <1>1 DEF IInv, TxTrue, TxTyped, Grows
  <2> QED
    BY <1>1, <2>1, <2>2, LimitsAssumption DEF TxTyped
<1>4. ReadsTrue(p)'
  <2>1. \A q \in tx[p].todo : q.id \in Rows /\ q.attempts \in Int
    BY DEF IInv, TxTrue, TxTyped, Read
  <2> QED
    BY <1>1, <2>1, CountedStays DEF IInv, TxTrue, ReadsTrue, Grows
<1>5. \A q \in tx[p].todo : Oldest(p, q) => q.id = r.id
  BY DEF IInv, TxTrue, TxTyped, Read, Oldest
<1>6. \A q : Oldest(p, q)' <=> Oldest(p, q)
  BY <1>1 DEF Oldest
<1>7. \A d : Posting(p, d)' <=> d = r.id
  BY <1>1, <1>5, <1>6 DEF Posting
<1>8. WritesTrue(p)'
  <2>1. ASSUME NEW d \in DOMAIN w, d # r.id
        PROVE  /\ d \in refused' \/ w[d].attempts <= posts'[d]
               /\ w[d].status = "failed" /\ w[d].seen # "failed" => Spent(d)'
               /\ w[d].status = "delivered" => d \in accepted'
    BY <1>0, <2>1, OtherWrites DEF Counted
  <2>3. r.status = "delivered" => r.id \in accepted'
    BY DEF IInv, TxTrue, ReadsTrue, Grows
  <2> QED
    BY <1>0, <1>1, <1>7, <2>1, <2>3 DEF WritesTrue, Counted
<1>9. WrittenFirst(p)'
  BY <1>0, <1>1, <1>5, <1>6 DEF WrittenFirst
<1> QED
  BY <1>3, <1>4, <1>8, <1>9, OwnStep DEF TxTrue

LEMMA RefuseStep ==
  ASSUME IInv, NEW p \in Processes, NEW r \in tx[p].todo, Oldest(p, r), Refuse(p, r)
  PROVE  IInv'
<1>1. r \in Read /\ r.id \in Rows
  BY DEF IInv, TxTrue, TxTyped
<1>2. DataTyped' /\ Grows /\ row' = row
  BY <1>1, RowsAre DEF Refuse, data, sent, IInv, DataTyped, Grows, Rows
<1>3. r.id \in refused' /\ r.attempts + 1 \in Nat /\ "failed" \in Status
  BY <1>1 DEF Refuse, Read, Status
<1> QED
  BY <1>2, <1>3, RowsStay, DoneStep DEF Refuse, Spent

LEMMA AttemptStep ==
  ASSUME IInv, NEW p \in Processes, NEW r \in tx[p].todo, Oldest(p, r), Attempt(p, r)
  PROVE  IInv'
<1>1. r \in Read /\ r.id \in Rows /\ r.attempts \in Nat
  BY DEF IInv, TxTrue, TxTyped, Read
<1>2. DataTyped' /\ Grows /\ row' = row /\ posts' = posts /\ refused' = refused
  BY <1>1, RowsAre DEF Attempt, Begun, data, sent, IInv, DataTyped, Grows, Rows
<1>3. r.id \in refused' \/ (r.attempts + 1) - 1 <= posts'[r.id]
  BY <1>1, <1>2, RowsAre DEF IInv, TxTrue, ReadsTrue, Counted
<1>4. Tries(p) \in 1..InCall
  BY LimitsAssumption DEF Tries
<1>5. RowsTrue'
  BY <1>2, RowsStay
<1> DEFINE n == r.attempts + 1
<1>6. tx' = [tx EXCEPT ![p] = [pc |-> "post", todo |-> tx[p].todo, left |-> Tries(p),
                               writes |-> Set(p, r, r.status, n)]]
  BY DEF Attempt, Begun
<1>7. n \in Nat /\ (r.id \in refused' \/ n - 1 <= posts'[r.id])
  BY <1>1, <1>3
<1> HIDE DEF n
<1> QED
  BY <1>2, <1>4, <1>5, <1>6, <1>7, CountStep

LEMMA PostStep ==
  ASSUME IInv, NEW p \in Processes, NEW r \in tx[p].todo, Oldest(p, r), NEW ok \in BOOLEAN, Post(p, r, ok)
  PROVE  IInv'
<1> DEFINE n == tx[p].writes[r.id].attempts
<1>1. r \in Read /\ r.id \in Rows /\ r.status \in Status
  BY DEF IInv, TxTrue, TxTyped, Read
<1>2. r.id \in DOMAIN tx[p].writes /\ n \in Nat /\ tx[p].pc = "post" /\ tx[p].left \in 1..InCall
  BY LimitsAssumption DEF Post, IInv, TxTrue, TxTyped, WrittenFirst, Write
<1>3. r.id \in refused \/ n - 1 <= posts[r.id]
  BY <1>2 DEF Posting, IInv, TxTrue, WritesTrue, Counted
<1>4. row' = row /\ refused' = refused /\ posts' = [posts EXCEPT ![r.id] = @ + 1]
  BY DEF Post, data
<1>5. posts[r.id] \in Nat /\ posts'[r.id] = posts[r.id] + 1
  BY <1>1, <1>4, RowsAre DEF IInv, DataTyped
<1>6. DataTyped'
  <2>1. posts' \in [1..MaxRows -> Nat]
    BY <1>1, <1>4, <1>5 DEF IInv, DataTyped
  <2>2. accepted' \subseteq Rows
    BY <1>1 DEF Post, IInv, DataTyped
  <2> QED
    BY <1>4, <2>1, <2>2 DEF Post, data, IInv, DataTyped, Rows
<1>7. Grows
  <2>1. \A d \in Rows : posts'[d] >= posts[d]
    BY <1>1, <1>4, <1>5, RowsAre DEF IInv, DataTyped
  <2> QED
    BY <1>4, <2>1 DEF Post, Grows, Rows
<1>8. RowsTrue'
  BY <1>4, <1>6, <1>7, RowsStay
<1>9. r.id \in refused' \/ n <= posts'[r.id]
  BY <1>2, <1>3, <1>4, <1>5
<1>10. CASE ok /\ Done(p, r, Set(p, r, "delivered", n))
  <2>1. "delivered" \in Status /\ r.id \in accepted'
    BY <1>10 DEF Status, Post
  <2> HIDE DEF n
  <2> QED
    BY <1>2, <1>6, <1>7, <1>8, <1>9, <1>10, <2>1, DoneStep
<1>11. CASE ~ok /\ tx[p].left > 1
  <2>1. tx' = [tx EXCEPT ![p] = [pc |-> "post", todo |-> tx[p].todo, left |-> tx[p].left - 1,
                                 writes |-> Set(p, r, r.status, n + 1)]]
    BY <1>2, <1>11 DEF Post
  <2>2. tx[p].left - 1 \in 1..InCall
    BY <1>2, <1>11, LimitsAssumption
  <2> HIDE DEF n
  <2>3. n + 1 \in Nat /\ (r.id \in refused' \/ (n + 1) - 1 <= posts'[r.id])
    BY <1>2, <1>9
  <2> QED
    BY <1>6, <1>7, <1>8, <2>1, <2>2, <2>3, CountStep
<1>12. CASE ~ok /\ tx[p].left = 1
  <2> DEFINE s == IF Exhausted(n) THEN "failed" ELSE "pending"
  <2>1. Done(p, r, Set(p, r, s, n))
    BY <1>2, <1>12 DEF Post
  <2>2. s \in Status /\ s # "delivered"
    BY DEF Status
  <2>3. s = "failed" => Spent(r.id)'
    BY <1>2, <1>5, <1>9, LimitsAssumption DEF Exhausted, Spent
  <2> HIDE DEF n, s
  <2> QED
    BY <1>2, <1>6, <1>7, <1>8, <1>9, <2>1, <2>2, <2>3, DoneStep
<1> QED
  BY <1>2, <1>10, <1>11, <1>12 DEF Post

-----------------------------------------------------------------------------
(* The transactions around it. *)

LEMMA BeginStep ==
  ASSUME IInv, NEW p \in Processes, NEW ids \in SUBSET Rows, Begin(p, ids), DataTyped', Grows,
         row' = row, accepted' = accepted, posts' = posts, refused' = refused
  PROVE  IInv'
<1>1. tx'[p] = [pc |-> "next", todo |-> {Loaded(d) : d \in ids}, left |-> 0, writes |-> [d \in {} |-> {}]]
  BY DEF IInv, Begin, NoTx
<1>2. \A d \in ids : row[d] \in Row /\ d \in Nat /\ d \in Rows
  BY RowsAre DEF IInv
<1>3. TxTyped(p)'
  <2>1. \A r \in tx'[p].todo : r \in Read /\ r.id \in Rows'
    BY <1>1, <1>2 DEF Loaded, Row, Read, Rows
  <2> QED
    BY <1>1, <2>1, LimitsAssumption DEF TxTyped
<1>4. ReadsTrue(p)'
  BY <1>1, <1>2 DEF ReadsTrue, Loaded, Counted, IInv, RowsTrue
<1>5. WritesTrue(p)' /\ WrittenFirst(p)'
  BY <1>1 DEF WritesTrue, WrittenFirst
<1>6. RowsTrue'
  BY RowsStay
<1> QED
  BY <1>3, <1>4, <1>5, <1>6, OwnStep DEF TxTrue, Begin

LEMMA DrainStartStep ==
  ASSUME IInv, NEW p \in Drains, DrainStart(p)
  PROVE  IInv'
<1>1. Limited(Candidates) \subseteq Rows
  BY DEF Limited, Candidates, First
<1>2. DataTyped' /\ Grows
  BY RowsAre DEF DrainStart, data, sent, IInv, DataTyped, Grows, Rows
<1> QED
  BY <1>1, <1>2, BeginStep DEF DrainStart, data, sent, Processes

LEMMA CallStartStep ==
  ASSUME IInv, NEW p \in Callers, NEW d \in Rows, CallStart(p, d)
  PROVE  IInv'
<1>1. DataTyped' /\ Grows
  BY RowsAre, LimitsAssumption DEF CallStart, data, sent, IInv, DataTyped, Grows, Rows
<1>2. {d} \in SUBSET Rows
  OBVIOUS
<1> QED
  BY <1>1, <1>2, BeginStep DEF CallStart, data, sent, Processes

(* An ended transaction. *)
LEMMA NoTxTrue ==
  ASSUME DataTyped', NEW p \in Processes, tx'[p] = NoTx
  PROVE  TxTrue(p)'
BY LimitsAssumption DEF NoTx, TxTrue, TxTyped, ReadsTrue, WritesTrue, WrittenFirst

LEMMA RollbackStep ==
  ASSUME IInv, NEW p \in Processes, Rollback(p)
  PROVE  IInv'
<1>1. DataTyped' /\ Grows /\ row' = row
  BY RowsAre, LimitsAssumption DEF Rollback, data, sent, IInv, DataTyped, Grows, Rows
<1>2. tx'[p] = NoTx
  BY DEF Rollback, IInv
<1>3. TxTrue(p)'
  BY <1>1, <1>2, NoTxTrue
<1> QED
  BY <1>1, <1>3, RowsStay, OwnStep DEF Rollback

(* A commit copies records that are true, and keeps a status it only       *)
(* repeats. *)
LEMMA CommitStep ==
  ASSUME IInv, NEW p \in Processes, Commit(p)
  PROVE  IInv'
<1>1. /\ row' = [d \in Rows |-> IF d \in DOMAIN tx[p].writes THEN Stored(d, tx[p].writes[d]) ELSE row[d]]
      /\ posts' = posts /\ accepted' = accepted /\ refused' = refused
      /\ cool' \subseteq cool /\ endpoint' = endpoint /\ calls' = calls /\ rollbacks' = rollbacks
  BY DEF Commit, sent
<1>2. ASSUME NEW d \in DOMAIN tx[p].writes
      PROVE  /\ d \in Rows /\ tx[p].writes[d] \in Write
             /\ Counted(d, tx[p].writes[d].attempts)
             /\ tx[p].writes[d].status = "failed" /\ tx[p].writes[d].seen # "failed" => Spent(d)
             /\ tx[p].writes[d].status = "delivered" => d \in accepted
  BY DEF Commit, IInv, TxTrue, TxTyped, WritesTrue, Posting
<1>3. ASSUME NEW d \in Rows
      PROVE  /\ row'[d] \in Row
             /\ Counted(d, row'[d].attempts)
             /\ row'[d].status = "failed" => Spent(d)
             /\ row'[d].status = "delivered" => d \in accepted
  <2>1. row[d] \in Row
    BY RowsAre DEF IInv
  <2>2. CASE d \notin DOMAIN tx[p].writes
    <3>1. row'[d] = row[d]
      BY <1>1, <2>2
    <3> QED
      BY <2>1, <3>1 DEF IInv, RowsTrue
  <2>3. CASE d \in DOMAIN tx[p].writes
    <3>1. row'[d] = Stored(d, tx[p].writes[d])
      BY <1>1, <2>3
    <3>2. /\ row'[d].endpoint = row[d].endpoint /\ row'[d].attempts = tx[p].writes[d].attempts
          /\ row'[d].status = IF tx[p].writes[d].status = tx[p].writes[d].seen
                              THEN row[d].status ELSE tx[p].writes[d].status
          /\ row'[d] \in Row
      BY <1>2, <2>1, <2>3, <3>1 DEF Stored, Row, Write
    <3>3. Counted(d, row'[d].attempts)
      BY <1>2, <2>3, <3>2
    <3>4. CASE tx[p].writes[d].status = tx[p].writes[d].seen
      BY <3>2, <3>3, <3>4 DEF IInv, RowsTrue
    <3>5. CASE tx[p].writes[d].status # tx[p].writes[d].seen
      BY <1>2, <2>3, <3>2, <3>3, <3>5
    <3> QED
      BY <3>4, <3>5
  <2> QED
    BY <2>2, <2>3
<1>4. Rows = 1..Len(row) /\ Len(row) \in Nat
  BY RowsAre DEF IInv
<1>5. row' \in Seq(Row) /\ Len(row') = Len(row) /\ Rows' = Rows
  <2>1. row' \in [1..Len(row) -> Row]
    BY <1>1, <1>3, <1>4
  <2> QED
    BY <1>4, <2>1 DEF Rows
<1>6. DataTyped' /\ Grows
  <2>1. /\ endpoint \in [Endpoints -> {"active", "inactive", "deleted"}] /\ Len(row) <= MaxRows
        /\ cool \subseteq Rows /\ accepted \subseteq Rows /\ refused \subseteq Rows
        /\ posts \in [1..MaxRows -> Nat] /\ calls \in 0..MaxCalls /\ rollbacks \in 0..MaxRollbacks
    BY DEF IInv, DataTyped
  <2>2. Len(row') <= MaxRows /\ row' \in Seq(Row)
    BY <1>5, <2>1
  <2>3. cool' \subseteq Rows' /\ accepted' \subseteq Rows' /\ refused' \subseteq Rows'
    BY <1>1, <1>5, <2>1
  <2>4. DataTyped'
    BY <1>1, <2>1, <2>2, <2>3 DEF DataTyped
  <2>5. \A d \in Rows : posts[d] \in Nat
    BY RowsAre DEF IInv
  <2>6. \A d \in Rows : posts'[d] >= posts[d]
    BY <1>1, <2>5
  <2>7. Grows
    BY <1>1, <1>5, <2>6 DEF Grows
  <2> QED
    BY <2>4, <2>7
<1>7. RowsTrue'
  BY <1>1, <1>3, <1>5 DEF RowsTrue, Counted, Spent
<1>8. tx' = [tx EXCEPT ![p] = NoTx] /\ tx'[p] = NoTx
  BY DEF Commit, IInv
<1> QED
  BY <1>6, <1>7, <1>8, NoTxTrue, OwnStep

-----------------------------------------------------------------------------
(* Results. *)

LEMMA InitInvariant == Init => IInv
<1> SUFFICES ASSUME Init PROVE IInv
  OBVIOUS
<1>1. DataTyped /\ Rows = {}
  BY LimitsAssumption DEF Init, DataTyped, Rows
<1>2. RowsTrue
  BY <1>1 DEF RowsTrue
<1>3. \A p \in Processes : tx[p] = NoTx
  BY DEF Init
<1>4. \A p \in Processes : TxTrue(p)
  BY <1>3, LimitsAssumption DEF NoTx, TxTrue, TxTyped, ReadsTrue, WritesTrue, WrittenFirst
<1> QED
  BY <1>1, <1>2, <1>4 DEF IInv, Init

LEMMA StepInvariant == IInv /\ [Next]_vars => IInv'
<1> SUFFICES ASSUME IInv, [Next]_vars PROVE IInv'
  OBVIOUS
<1>1. ASSUME NEW e \in Endpoints, Deactivate(e) \/ Reactivate(e) \/ Delete(e) PROVE IInv'
  BY <1>1, EndpointStep
<1>2. ASSUME NEW subscribed \in SUBSET Endpoints \ {{}}, Emit(subscribed) PROVE IInv'
  BY <1>2, EmitStep
<1>3. ASSUME NEW d \in Rows, Elapse(d) PROVE IInv'
  BY <1>3, ElapseStep
<1>4. ASSUME NEW p \in Drains, DrainStart(p) PROVE IInv'
  BY <1>4, DrainStartStep
<1>5. ASSUME NEW p \in Callers, NEW d \in Rows, CallStart(p, d) PROVE IInv'
  BY <1>5, CallStartStep
<1>6. ASSUME NEW p \in Processes, Deliver(p) PROVE IInv'
  BY <1>6, RefuseStep, AttemptStep, PostStep, CommitStep DEF Deliver
<1>7. ASSUME NEW p \in Processes, Rollback(p) PROVE IInv'
  BY <1>7, RollbackStep
<1>8. CASE UNCHANGED vars
  BY <1>8 DEF vars, IInv, DataTyped, Rows, RowsTrue, Counted, Spent, TxTrue, TxTyped, ReadsTrue, WritesTrue,
              Posting, Oldest, WrittenFirst
<1> QED
  BY <1>1, <1>2, <1>3, <1>4, <1>5, <1>6, <1>7, <1>8 DEF Next

(* The invariant holds in every state, for all endpoints, drains and       *)
(* operator calls.                                                         *)
THEOREM Invariance == Spec => []IInv
<1>1. IInv /\ [Next]_vars => IInv'
  BY StepInvariant
<1> QED
  BY <1>1, InitInvariant, PTL DEF Spec

(* Rows, counters and the transactions in progress keep their types.       *)
THEOREM Typed == Spec => []TypeOK
BY Invariance, Types, PTL

(* However transactions overlap and overwrite each other's counts, a       *)
(* delivery is given up only after all its attempts, or for being refused. *)
THEOREM GivenUpLast == Spec => []NoEarlyDeath
<1>1. IInv => NoEarlyDeath
  BY DEF IInv, RowsTrue, Spent, NoEarlyDeath
<1> QED
  BY <1>1, Invariance, PTL

(* A row that reads delivered was accepted by its receiver, whoever wrote  *)
(* the status and however old the row was that they had read.              *)
THEOREM AcceptedFirst == Spec => []DeliveredWasAccepted
<1>1. IInv => DeliveredWasAccepted
  BY DEF IInv, RowsTrue, DeliveredWasAccepted
<1> QED
  BY <1>1, Invariance, PTL

-----------------------------------------------------------------------------
(* What a delivery costs.  With overlapping drains there is no bound: two  *)
(* that read the same count send two requests and record one.  A drain     *)
(* alone goes on from the count stored or from the one it has read, so     *)
(* that every request it sends leaves one less to send; a call may put the *)
(* count back, once.                                                       *)

OneDrain == \A p, q \in Drains : p = q

(* Requests a drain may still send for a row whose count reads n. *)
Remaining(n) == IF n < MaxAttempts THEN MaxAttempts - n ELSE 0

(* Calls in progress, and those of them that have not written row d.       *)
Active == {p \in Callers : tx[p].pc # "idle"}
Fresh(d) == {p \in Active : d \notin DOMAIN tx[p].writes}

(* What row d may cost so far; a call in progress keeps its share until it *)
(* writes the row.                                                         *)
Budget(d) == MaxAttempts + CallCost * (calls - Cardinality(Fresh(d))) + rollbacks

(* The counts a drain may go on from: the stored one and those it has read. *)
Counts(d) == {row[d].attempts} \cup UNION {{r.attempts : r \in {s \in tx[p].todo : s.id = d}} : p \in Drains}

Affords(d, n, more) == posts[d] + Remaining(n) <= Budget(d) + more

Holds(p, d) == d \in DOMAIN tx[p].writes

(* A drain that sent its request has one on record that a rollback would   *)
(* forget; a call spends its share one request at a time.                  *)
HolderAffords(p, d) ==
  IF Posting(p, d)
  THEN \A n \in Counts(d) : Affords(d, n, IF p \in Drains THEN 0 ELSE InCall - tx[p].left - CallCost)
  ELSE /\ Affords(d, tx[p].writes[d].attempts, 0)
       /\ \A n \in Counts(d) : Affords(d, n, IF p \in Drains THEN 1 ELSE 0)

RowAffords(d) ==
  /\ (\A p \in Processes : ~Holds(p, d)) => \A n \in Counts(d) : Affords(d, n, 0)
  /\ \A p \in Processes : Holds(p, d) => HolderAffords(p, d)

(* A transaction visits a row once, and a drain only rows with attempts    *)
(* left; while a request is being sent the count is ahead of it.           *)
Visits(p) ==
  /\ tx[p].pc = "idle" => tx[p] = NoTx
  /\ \A r \in tx[p].todo :
       /\ \A s \in tx[p].todo : s.id = r.id => s = r
       /\ Holds(p, r.id) => tx[p].pc = "post" /\ Oldest(p, r)
       /\ p \in Drains => r.attempts < MaxAttempts
       /\ tx[p].pc = "post" /\ Oldest(p, r) =>
            IF p \in Drains THEN tx[p].left = 1 /\ tx[p].writes[r.id].attempts = r.attempts + 1
            ELSE tx[p].writes[r.id].attempts > InCall - tx[p].left

BudgetInv ==
  /\ \A d \in (1..MaxRows) \ Rows : posts[d] = 0
  /\ IsFiniteSet(Active) /\ Cardinality(Active) <= calls
  /\ \A p \in Processes : Visits(p)
  /\ \A p, q \in Processes : p # q => DOMAIN tx[p].writes \cap DOMAIN tx[q].writes = {}
  /\ \A d \in Rows : RowAffords(d)

-----------------------------------------------------------------------------
(* Arithmetic. *)

LEMMA CostIs ==
  CallCost \in Nat /\ InCall <= CallCost /\ MaxAttempts <= CallCost /\ MaxAttempts \in Nat /\ InCall \in Nat
BY LimitsAssumption DEF CallCost

LEMMA RemainingIs ==
  ASSUME NEW n \in Nat
  PROVE  /\ Remaining(n) \in Nat /\ Remaining(n) <= MaxAttempts
         /\ n < MaxAttempts => Remaining(n) = Remaining(n + 1) + 1
         /\ \A k \in 0..InCall : k <= n => k + Remaining(n) <= CallCost
BY CostIs DEF Remaining

LEMMA Product ==
  ASSUME NEW c \in Nat, NEW x \in Nat
  PROVE  c * x \in Nat /\ c * (x + 1) = c * x + c
OBVIOUS

LEMMA ProductUp ==
  ASSUME NEW c \in Nat, NEW x \in Nat, NEW y \in Nat, x <= y
  PROVE  c * x <= c * y
OBVIOUS

Shares == IsFiniteSet(Active) /\ Cardinality(Active) <= calls

LEMMA FreshIs ==
  ASSUME IInv, Shares, NEW d
  PROVE  IsFiniteSet(Fresh(d)) /\ Cardinality(Fresh(d)) \in Nat /\ Cardinality(Fresh(d)) <= calls /\ calls \in Nat
<1>1. Fresh(d) \subseteq Active
  BY DEF Fresh
<1>2. Cardinality(Active) \in Nat
  BY FS_CardinalityType DEF Shares
<1>3. calls \in Nat
  BY LimitsAssumption DEF IInv, DataTyped
<1> QED
  BY <1>1, <1>2, <1>3, FS_Subset, FS_CardinalityType DEF Shares

LEMMA BudgetIs ==
  ASSUME IInv, Shares, NEW d
  PROVE  /\ Budget(d) \in Nat /\ MaxAttempts <= Budget(d)
         /\ Budget(d) <= MaxAttempts + CallCost * calls + rollbacks
<1> DEFINE n == calls - Cardinality(Fresh(d))
<1>1. n \in Nat /\ calls \in Nat /\ n <= calls
  BY FreshIs
<1>2. rollbacks \in Nat
  BY LimitsAssumption DEF IInv, DataTyped
<1>3. Budget(d) = MaxAttempts + CallCost * n + rollbacks
  BY DEF Budget
<1> HIDE DEF n
<1>4. CallCost * n \in Nat /\ CallCost * calls \in Nat /\ CallCost * n <= CallCost * calls
  BY <1>1, CostIs, Product, ProductUp
<1> QED
  BY <1>2, <1>3, <1>4, CostIs

(* A call that stops keeping its share leaves it to the row.               *)
LEMMA BudgetGrows ==
  ASSUME IInv, IInv', Shares, NEW d, NEW p \in Fresh(d), Fresh(d)' = Fresh(d) \ {p}, calls' = calls
  PROVE  Budget(d)' = Budget(d) + CallCost + (rollbacks' - rollbacks)
<1> DEFINE n == calls - Cardinality(Fresh(d))
           m == calls' - Cardinality(Fresh(d)')
<1>1. n \in Nat /\ m = n + 1
  <2>1. Cardinality(Fresh(d) \ {p}) = Cardinality(Fresh(d)) - 1
    BY FreshIs, FS_RemoveElement
  <2> QED
    BY <2>1, FreshIs
<1>2. rollbacks \in Nat /\ rollbacks' \in Nat
  BY LimitsAssumption DEF IInv, DataTyped
<1>3. Budget(d) = MaxAttempts + CallCost * n + rollbacks /\ Budget(d)' = MaxAttempts + CallCost * m + rollbacks'
  BY DEF Budget
<1> HIDE DEF n, m
<1>4. CallCost * n \in Nat /\ CallCost * m = CallCost * n + CallCost
  BY <1>1, CostIs, Product
<1> QED
  BY <1>2, <1>3, <1>4, CostIs

-----------------------------------------------------------------------------
(* Rows a step does not concern. *)

LEMMA CountsAre ==
  ASSUME IInv, NEW d \in Rows
  PROVE  /\ \A n \in Counts(d) : n \in Nat
         /\ row[d].attempts \in Counts(d)
         /\ posts[d] \in Nat
<1>1. \A p \in Drains : \A r \in tx[p].todo : r.attempts \in Nat
  BY DEF IInv, TxTrue, TxTyped, Read, Processes
<1>2. row[d].attempts \in Nat /\ posts[d] \in Nat
  BY RowsAre DEF IInv, Row
<1> QED
  BY <1>1, <1>2 DEF Counts

LEMMA RowKeeps ==
  ASSUME IInv, NEW d \in Rows, RowAffords(d), posts'[d] = posts[d],
         Budget(d) \in Int, Budget(d)' \in Int, Budget(d)' >= Budget(d), Counts(d)' \subseteq Counts(d),
         \A q \in Processes :
           /\ Holds(q, d)' <=> Holds(q, d)
           /\ Holds(q, d) => /\ tx'[q].writes[d] = tx[q].writes[d]
                             /\ Posting(q, d)' <=> Posting(q, d)
                             /\ Posting(q, d) => tx'[q].left = tx[q].left
  PROVE  RowAffords(d)'
<1>1. ASSUME NEW n \in Nat, NEW more \in Int, Affords(d, n, more)
      PROVE  posts'[d] + Remaining(n) <= Budget(d)' + more
  BY <1>1, CountsAre, RemainingIs DEF Affords
<1>2. ASSUME \A q \in Processes : ~Holds(q, d), NEW n \in Counts(d)'
      PROVE  Affords(d, n, 0)'
  BY <1>1, <1>2, CountsAre DEF RowAffords, Affords
<1>3. ASSUME NEW q \in Processes, Holds(q, d)
      PROVE  HolderAffords(q, d)'
  <2>1. tx[q].writes[d].attempts \in Nat /\ tx[q].left \in Int
    BY <1>3, LimitsAssumption DEF IInv, TxTrue, TxTyped, Write, Holds
  <2>2. HolderAffords(q, d) /\ tx'[q].writes[d] = tx[q].writes[d] /\ (Posting(q, d)' <=> Posting(q, d))
    BY <1>3 DEF RowAffords
  <2>3. CASE Posting(q, d)
    <3> DEFINE more == IF q \in Drains THEN 0 ELSE InCall - tx[q].left - CallCost
    <3>1. more \in Int /\ tx'[q].left = tx[q].left
      BY <1>3, <2>1, <2>3, CostIs
    <3>2. \A n \in Counts(d) : Affords(d, n, more)
      BY <2>2, <2>3 DEF HolderAffords
    <3> HIDE DEF more
    <3>3. \A n \in Counts(d)' : posts'[d] + Remaining(n) <= Budget(d)' + more
      BY <1>1, <3>1, <3>2, CountsAre
    <3> QED
      BY <2>2, <2>3, <3>1, <3>3 DEF HolderAffords, Affords, more
  <2>4. CASE ~Posting(q, d)
    <3> DEFINE more == IF q \in Drains THEN 1 ELSE 0
    <3>1. more \in Int
      OBVIOUS
    <3>2. Affords(d, tx[q].writes[d].attempts, 0) /\ \A n \in Counts(d) : Affords(d, n, more)
      BY <2>2, <2>4 DEF HolderAffords
    <3> HIDE DEF more
    <3>3. \A n \in Counts(d)' : posts'[d] + Remaining(n) <= Budget(d)' + more
      BY <1>1, <3>1, <3>2, CountsAre
    <3>4. posts'[d] + Remaining(tx[q].writes[d].attempts) <= Budget(d)' + 0
      BY <1>1, <2>1, <3>2
    <3> QED
      BY <2>2, <2>4, <3>3, <3>4 DEF HolderAffords, Affords, more
  <2> QED
    BY <2>3, <2>4
<1> QED
  BY <1>2, <1>3 DEF RowAffords

(* Who keeps a share after a step of p.                                    *)
LEMMA FreshAfter ==
  ASSUME IInv, NEW p \in Processes, NEW t, tx' = [tx EXCEPT ![p] = t], NEW d
  PROVE  /\ (p \in Callers /\ t.pc # "idle" /\ d \notin DOMAIN t.writes) => Fresh(d)' = Fresh(d) \cup {p}
         /\ ~(p \in Callers /\ t.pc # "idle" /\ d \notin DOMAIN t.writes) => Fresh(d)' = Fresh(d) \ {p}
<1>1. tx'[p] = t /\ \A q \in Processes : q # p => tx'[q] = tx[q]
  BY DEF IInv
<1> QED
  BY <1>1 DEF Fresh, Active, Processes

LEMMA ActiveAfter ==
  ASSUME IInv, Shares, calls' = calls, NEW p \in Processes, NEW t, tx' = [tx EXCEPT ![p] = t],
         p \in Active \/ t.pc = "idle" \/ p \notin Callers
  PROVE  Shares'
<1>1. tx'[p] = t /\ \A q \in Processes : q # p => tx'[q] = tx[q]
  BY DEF IInv
<1>2. Active' \subseteq Active
  BY <1>1 DEF Active, Processes
<1>3. IsFiniteSet(Active') /\ Cardinality(Active') <= Cardinality(Active)
  BY <1>2, FS_Subset DEF Shares
<1>4. Cardinality(Active) \in Nat /\ Cardinality(Active') \in Nat /\ calls \in Nat
  BY <1>3, FS_CardinalityType, LimitsAssumption DEF Shares, IInv, DataTyped
<1> QED
  BY <1>3, <1>4 DEF Shares

-----------------------------------------------------------------------------
(* A transaction writes the row it is on. *)

LEMMA WriteStep ==
  ASSUME IInv, IInv', BudgetInv, NEW p \in Processes, NEW r \in tx[p].todo, Oldest(p, r),
         tx[p].pc = "next" \/ tx[p].pc = "post", ~LockedByOther(p, r.id),
         NEW t, tx' = [tx EXCEPT ![p] = t],
         \/ t.pc = "next" /\ t.todo = tx[p].todo \ {r}
         \/ /\ t.pc = "post" /\ t.todo = tx[p].todo
            /\ IF p \in Drains THEN t.left = 1 /\ t.writes[r.id].attempts = r.attempts + 1
               ELSE t.writes[r.id].attempts > InCall - t.left,
         DOMAIN t.writes = DOMAIN tx[p].writes \cup {r.id},
         \A d \in DOMAIN tx[p].writes : d # r.id => t.writes[d] = tx[p].writes[d],
         UNCHANGED <<row, calls, rollbacks>>, \A d \in 1..MaxRows : d # r.id => posts'[d] = posts[d],
         HolderAffords(p, r.id)'
  PROVE  BudgetInv'
<1>1. tx'[p] = t /\ \A q \in Processes : q # p => tx'[q] = tx[q]
  BY DEF IInv
<1>2. \A s \in tx[p].todo : s.id \in Nat /\ (Oldest(p, s) => s = r)
  <2>1. \A s \in tx[p].todo : s.id \in Nat
    BY DEF IInv, TxTrue, TxTyped, Read
  <2>2. \A s \in tx[p].todo : s.id = r.id => s = r
    BY DEF BudgetInv, Visits
  <2> QED
    BY <2>1, <2>2 DEF Oldest
<1>3. r.id \in Rows /\ Rows' = Rows /\ Rows \subseteq 1..MaxRows
  BY RowsAre DEF IInv, TxTrue, TxTyped, Rows
<1>4. Visits(p)'
  <2>1. t.pc # "idle"
    OBVIOUS
  <2>2. ASSUME NEW s \in t.todo
        PROVE  /\ \A u \in t.todo : u.id = s.id => u = s
               /\ s.id \in DOMAIN t.writes => t.pc = "post" /\ s = r
               /\ p \in Drains => s.attempts < MaxAttempts
    BY <1>2 DEF BudgetInv, Visits, Holds
  <2>3. t.pc = "post" => \A s \in t.todo : Oldest(p, s)' <=> Oldest(p, s)
    BY <1>1 DEF Oldest
  <2>4. ASSUME NEW s \in t.todo
        PROVE  /\ \A u \in t.todo : u.id = s.id => u = s
               /\ Holds(p, s.id)' => t.pc = "post" /\ Oldest(p, s)'
               /\ p \in Drains => s.attempts < MaxAttempts
               /\ t.pc = "post" /\ Oldest(p, s)' =>
                    IF p \in Drains THEN t.left = 1 /\ t.writes[s.id].attempts = s.attempts + 1
                    ELSE t.writes[s.id].attempts > InCall - t.left
    BY <1>1, <1>2, <2>2, <2>3 DEF Holds
  <2> QED
    BY <1>1, <2>1, <2>4 DEF Visits
<1>5. ASSUME NEW q \in Processes PROVE Visits(q)'
  <2>1. q # p => Visits(q)'
    BY <1>1 DEF BudgetInv, Visits, Holds, Oldest
  <2> QED
    BY <1>4, <2>1
<1>6. ASSUME NEW q \in Processes, NEW u \in Processes, q # u
      PROVE  (DOMAIN tx[q].writes \cap DOMAIN tx[u].writes = {})'
  BY <1>1, <1>6 DEF BudgetInv, LockedByOther
<1>7. Shares'
  <2>1. p \in Active \/ p \notin Callers
    BY DEF Active
  <2> QED
    BY <2>1, ActiveAfter DEF BudgetInv, Shares
<1>8. ASSUME NEW d \in Rows, d # r.id
      PROVE  RowAffords(d)'
  <2>1. Fresh(d)' = Fresh(d)
    <3>1. p \in Callers => (p \in Fresh(d) <=> d \notin DOMAIN t.writes)
      BY <1>8 DEF Fresh, Active
    <3>2. p \notin Callers => p \notin Fresh(d)
      BY DEF Fresh, Active
    <3>3. CASE p \in Callers /\ d \notin DOMAIN t.writes
      <4>1. p \in Fresh(d) /\ t.pc # "idle"
        BY <3>1, <3>3
      <4>2. Fresh(d)' = Fresh(d) \cup {p}
        BY <3>3, <4>1, FreshAfter
      <4> QED
        BY <4>1, <4>2
    <3>4. CASE ~(p \in Callers /\ d \notin DOMAIN t.writes)
      <4>1. p \notin Fresh(d)
        BY <3>1, <3>2, <3>4
      <4>2. Fresh(d)' = Fresh(d) \ {p}
        BY <3>4, FreshAfter
      <4> QED
        BY <4>1, <4>2
    <3> QED
      BY <3>3, <3>4
  <2>2. Budget(d)' = Budget(d) /\ Budget(d) \in Int
    BY <2>1, BudgetIs DEF Budget, BudgetInv, Shares
  <2>3. Counts(d)' \subseteq Counts(d)
    <3>1. t.todo \subseteq tx[p].todo
      OBVIOUS
    <3> QED
      BY <1>1, <3>1 DEF Counts, Processes
  <2>4. ~Posting(p, d) /\ ~Posting(p, d)'
    <3>1. ASSUME NEW s \in t.todo, t.pc = "post", Oldest(p, s)'
          PROVE  s = r
      BY <1>1, <1>2, <3>1 DEF Oldest
    <3> QED
      BY <1>1, <1>2, <1>8, <3>1 DEF Posting
  <2>5. ASSUME NEW q \in Processes
        PROVE  /\ Holds(q, d)' <=> Holds(q, d)
               /\ Holds(q, d) => /\ tx'[q].writes[d] = tx[q].writes[d]
                                 /\ Posting(q, d)' <=> Posting(q, d)
                                 /\ Posting(q, d) => tx'[q].left = tx[q].left
    <3>1. CASE q = p
      BY <1>1, <1>8, <2>4, <3>1 DEF Holds
    <3>2. CASE q # p
      BY <1>1, <3>2 DEF Holds, Posting, Oldest
    <3> QED
      BY <3>1, <3>2
  <2>6. posts'[d] = posts[d] /\ RowAffords(d)
    BY <1>3, <1>8 DEF BudgetInv
  <2> QED
    BY <2>2, <2>3, <2>5, <2>6, RowKeeps
<1>9. RowAffords(r.id)'
  <2>1. \A q \in Processes : Holds(q, r.id)' <=> q = p
    BY <1>1 DEF Holds, LockedByOther
  <2> QED
    BY <2>1 DEF RowAffords
<1>10. \A d \in (1..MaxRows) \ Rows : posts'[d] = 0
  BY <1>3 DEF BudgetInv
<1> QED
  BY <1>3, <1>5, <1>6, <1>7, <1>8, <1>9, <1>10 DEF BudgetInv, Shares

(* The row a transaction turns to has no writer; a call brings its share.  *)
LEMMA FirstWrite ==
  ASSUME IInv, BudgetInv, NEW p \in Processes, NEW r \in tx[p].todo, tx[p].pc = "next", ~LockedByOther(p, r.id),
         NEW t, tx' = [tx EXCEPT ![p] = t], t.pc # "idle", r.id \in DOMAIN t.writes, t.todo \subseteq tx[p].todo,
         UNCHANGED <<row, calls, rollbacks>>, IInv'
  PROVE  /\ r.id \in Rows /\ Budget(r.id) \in Nat
         /\ Budget(r.id)' = Budget(r.id) + IF p \in Drains THEN 0 ELSE CallCost
         /\ Counts(r.id)' \subseteq Counts(r.id)
         /\ \A n \in Counts(r.id) : Affords(r.id, n, 0)
<1>1. tx'[p] = t /\ \A q \in Processes : q # p => tx'[q] = tx[q]
  BY DEF IInv
<1>2. r.id \in Rows /\ ~Holds(p, r.id)
  BY DEF IInv, TxTrue, TxTyped, BudgetInv, Visits
<1>3. \A n \in Counts(r.id) : Affords(r.id, n, 0)
  <2>1. \A q \in Processes : ~Holds(q, r.id)
    BY <1>2 DEF Holds, LockedByOther
  <2> QED
    BY <1>2, <2>1 DEF BudgetInv, RowAffords
<1>4. Counts(r.id)' \subseteq Counts(r.id)
  BY <1>1 DEF Counts, Processes
<1>5. Fresh(r.id)' = Fresh(r.id) \ {p}
  BY FreshAfter
<1>6. CASE p \in Drains
  <2>1. p \notin Fresh(r.id)
    BY <1>6, ProcessesAssumption DEF Fresh, Active
  <2>2. Fresh(r.id)' = Fresh(r.id)
    BY <1>5, <2>1
  <2> QED
    BY <1>2, <1>3, <1>4, <1>6, <2>2, BudgetIs DEF Budget, BudgetInv, Shares
<1>7. CASE p \notin Drains
  <2>1. p \in Fresh(r.id)
    BY <1>2, <1>7 DEF Fresh, Active, Holds, Processes
  <2>2. Budget(r.id)' = Budget(r.id) + CallCost + (rollbacks' - rollbacks)
    BY <1>5, <2>1, BudgetGrows DEF BudgetInv, Shares
  <2>3. rollbacks' - rollbacks = 0 /\ Budget(r.id) \in Nat
    BY BudgetIs, LimitsAssumption DEF BudgetInv, Shares, IInv, DataTyped
  <2> QED
    BY <1>2, <1>3, <1>4, <1>7, <2>2, <2>3, CostIs
<1> QED
  BY <1>6, <1>7

(* A drain goes on from the count it has read. *)
LEMMA DrainReads ==
  ASSUME IInv, BudgetInv, NEW p \in Drains, NEW r \in tx[p].todo
  PROVE  r.attempts \in Counts(r.id) /\ r.attempts \in Nat /\ r.attempts < MaxAttempts
<1>1. r.attempts \in Counts(r.id)
  BY DEF Counts
<1>2. p \in Processes
  BY DEF Processes
<1> QED
  BY <1>1, <1>2 DEF IInv, TxTrue, TxTyped, Read, BudgetInv, Visits

LEMMA RefuseBudget ==
  ASSUME IInv, IInv', BudgetInv, NEW p \in Processes, NEW r \in tx[p].todo, Oldest(p, r), Refuse(p, r)
  PROVE  BudgetInv'
<1> DEFINE n == r.attempts + 1
           w == Set(p, r, "failed", n)
           t == [pc |-> "next", todo |-> tx[p].todo \ {r}, left |-> 0, writes |-> w]
<1>1. tx' = [tx EXCEPT ![p] = t] /\ tx[p].pc = "next" /\ ~LockedByOther(p, r.id)
  BY DEF Refuse, Done
<1>2. UNCHANGED <<row, calls, rollbacks, posts>>
  BY DEF Refuse, data, sent
<1>3. n \in Nat /\ r.attempts \in Nat /\ "failed" \in Status
  BY DEF IInv, TxTrue, TxTyped, Read, Status
<1>4. /\ DOMAIN w = DOMAIN tx[p].writes \cup {r.id}
      /\ w[r.id] = [seen |-> r.status, status |-> "failed", attempts |-> n]
      /\ \A d \in DOMAIN w : d # r.id => d \in DOMAIN tx[p].writes /\ w[d] = tx[p].writes[d]
  <2> HIDE DEF n
  <2> QED
    BY DEF Set
<1>5. t.pc = "next" /\ t.todo = tx[p].todo \ {r} /\ t.writes = w /\ w[r.id].attempts = n
  BY <1>4
<1>6. tx'[p] = t
  BY <1>1 DEF IInv
<1> HIDE DEF t, w
<1>7. /\ r.id \in Rows /\ Budget(r.id) \in Nat
      /\ Budget(r.id)' = Budget(r.id) + IF p \in Drains THEN 0 ELSE CallCost
      /\ Counts(r.id)' \subseteq Counts(r.id)
      /\ \A k \in Counts(r.id) : Affords(r.id, k, 0)
  <2>1. t.pc # "idle" /\ r.id \in DOMAIN t.writes /\ t.todo \subseteq tx[p].todo
    BY <1>4, <1>5
  <2> QED
    BY <1>1, <1>2, <2>1, FirstWrite
<1>8. ~Posting(p, r.id)' /\ tx'[p].writes[r.id].attempts = n
  BY <1>5, <1>6 DEF Posting
<1>9. \A k \in Counts(r.id) : k \in Nat /\ Remaining(k) \in Nat /\ posts[r.id] \in Nat /\ row[r.id].attempts \in Counts(r.id)
  BY <1>7, CountsAre, RemainingIs
<1>10. posts[r.id] + Remaining(n) <= Budget(r.id)'
  <2>1. CASE p \in Drains
    <3>1. posts[r.id] + Remaining(r.attempts) <= Budget(r.id) + 0
      BY <1>7, <2>1, DrainReads DEF Affords
    <3>2. Remaining(r.attempts) = Remaining(n) + 1 /\ Remaining(n) \in Nat
      BY <1>3, <2>1, DrainReads, RemainingIs
    <3>3. posts[r.id] \in Nat
      BY <1>7, CountsAre
    <3> HIDE DEF n
    <3> QED
      BY <1>7, <2>1, <3>1, <3>2, <3>3
  <2>2. CASE p \notin Drains
    <3>1. posts[r.id] + Remaining(row[r.id].attempts) <= Budget(r.id) + 0 /\ Remaining(row[r.id].attempts) \in Nat
      BY <1>7, <1>9, CountsAre DEF Affords
    <3>2. Remaining(n) \in Nat /\ Remaining(n) <= MaxAttempts
      BY <1>3, RemainingIs
    <3> HIDE DEF n
    <3> QED
      BY <1>7, <1>9, <2>2, <3>1, <3>2, CostIs, CountsAre
  <2> QED
    BY <2>1, <2>2
<1>11. ASSUME NEW k \in Counts(r.id)
       PROVE  posts[r.id] + Remaining(k) <= Budget(r.id)' + IF p \in Drains THEN 1 ELSE 0
  <2>1. posts[r.id] + Remaining(k) <= Budget(r.id) + 0
    BY <1>7 DEF Affords
  <2> QED
    BY <1>7, <1>9, <2>1, CostIs
<1>12. HolderAffords(p, r.id)'
  <2>1. posts'[r.id] = posts[r.id] /\ Budget(r.id)' \in Int
    BY <1>2, <1>7, CostIs
  <2> HIDE DEF n
  <2> QED
    BY <1>7, <1>8, <1>10, <1>11, <2>1 DEF HolderAffords, Affords
<1> QED
  BY <1>1, <1>2, <1>4, <1>5, <1>12, WriteStep

LEMMA AttemptBudget ==
  ASSUME IInv, IInv', BudgetInv, NEW p \in Processes, NEW r \in tx[p].todo, Oldest(p, r), Attempt(p, r)
  PROVE  BudgetInv'
<1> DEFINE n == r.attempts + 1
           w == Set(p, r, r.status, n)
           t == [pc |-> "post", todo |-> tx[p].todo, left |-> Tries(p), writes |-> w]
<1>1. tx' = [tx EXCEPT ![p] = t] /\ tx[p].pc = "next" /\ ~LockedByOther(p, r.id)
  BY DEF Attempt, Begun
<1>2. UNCHANGED <<row, calls, rollbacks, posts>>
  BY DEF Attempt, Begun, data, sent
<1>3. n \in Nat /\ r.attempts \in Nat /\ r.status \in Status
  BY DEF IInv, TxTrue, TxTyped, Read, Status
<1>4. /\ DOMAIN w = DOMAIN tx[p].writes \cup {r.id}
      /\ w[r.id] = [seen |-> r.status, status |-> r.status, attempts |-> n]
      /\ \A d \in DOMAIN w : d # r.id => d \in DOMAIN tx[p].writes /\ w[d] = tx[p].writes[d]
  <2> HIDE DEF n
  <2> QED
    BY DEF Set
<1>5. t.pc = "post" /\ t.todo = tx[p].todo /\ t.writes = w /\ w[r.id].attempts = n /\ t.left = Tries(p)
  BY <1>4
<1>6. tx'[p] = t
  BY <1>1 DEF IInv
<1> HIDE DEF t, w
<1>7. /\ r.id \in Rows /\ Budget(r.id) \in Nat
      /\ Budget(r.id)' = Budget(r.id) + IF p \in Drains THEN 0 ELSE CallCost
      /\ Counts(r.id)' \subseteq Counts(r.id)
      /\ \A k \in Counts(r.id) : Affords(r.id, k, 0)
  <2>1. t.pc # "idle" /\ r.id \in DOMAIN t.writes /\ t.todo \subseteq tx[p].todo
    BY <1>4, <1>5
  <2> QED
    BY <1>1, <1>2, <2>1, FirstWrite
<1>8. Posting(p, r.id)'
  BY <1>5, <1>6 DEF Posting, Oldest
<1> DEFINE more == IF p \in Drains THEN 0 ELSE InCall - t.left - CallCost
<1>9. ASSUME NEW k \in Counts(r.id)
      PROVE  posts[r.id] + Remaining(k) <= Budget(r.id)' + more
  <2>1. posts[r.id] + Remaining(k) <= Budget(r.id) + 0
    BY <1>7 DEF Affords
  <2>2. k \in Nat /\ Remaining(k) \in Nat /\ posts[r.id] \in Nat
    BY <1>7, CountsAre, RemainingIs
  <2>3. p \notin Drains => t.left = InCall
    BY <1>5 DEF Tries
  <2> QED
    BY <1>7, <2>1, <2>2, <2>3, CostIs
<1>10. HolderAffords(p, r.id)'
  <2>1. posts'[r.id] = posts[r.id] /\ tx'[p].left = t.left
    BY <1>2, <1>6
  <2> QED
    BY <1>7, <1>8, <1>9, <2>1 DEF HolderAffords, Affords
<1>11. IF p \in Drains THEN t.left = 1 /\ t.writes[r.id].attempts = r.attempts + 1
       ELSE t.writes[r.id].attempts > InCall - t.left
  BY <1>3, <1>5, CostIs DEF Tries
<1> HIDE DEF n
<1> QED
  BY <1>1, <1>2, <1>4, <1>5, <1>10, <1>11, WriteStep

(* While a request is being sent nothing changes but its row's record.     *)
LEMMA PostBudget ==
  ASSUME IInv, IInv', BudgetInv, NEW p \in Processes, NEW r \in tx[p].todo, Oldest(p, r),
         NEW ok \in BOOLEAN, Post(p, r, ok)
  PROVE  BudgetInv'
<1> DEFINE n == tx[p].writes[r.id].attempts
           left == tx[p].left
           more == IF p \in Drains THEN 0 ELSE InCall - left - CallCost
<1>1. r \in Read /\ r.id \in Rows /\ r.status \in Status /\ r.id \in 1..MaxRows
  BY RowsAre DEF IInv, TxTrue, TxTyped, Read
<1>2. r.id \in DOMAIN tx[p].writes /\ n \in Nat /\ tx[p].pc = "post" /\ left \in 1..InCall /\ Holds(p, r.id)
  BY LimitsAssumption DEF Post, IInv, TxTrue, TxTyped, WrittenFirst, Write, Holds
<1>3. UNCHANGED <<row, calls, rollbacks>> /\ posts' = [posts EXCEPT ![r.id] = @ + 1]
  BY DEF Post, data
<1>4. /\ posts[r.id] \in Nat /\ posts'[r.id] = posts[r.id] + 1
      /\ \A d \in 1..MaxRows : d # r.id => posts'[d] = posts[d]
  BY <1>1, <1>3, RowsAre DEF IInv, DataTyped
<1>5. ~LockedByOther(p, r.id)
  BY <1>2 DEF LockedByOther, BudgetInv
<1>6. Posting(p, r.id)
  BY <1>2 DEF Posting
<1>7. /\ \A k \in Counts(r.id) : posts[r.id] + Remaining(k) <= Budget(r.id) + more
      /\ row[r.id].attempts \in Counts(r.id)
      /\ \A k \in Counts(r.id) : k \in Nat /\ Remaining(k) \in Nat
  BY <1>1, <1>2, <1>6, CountsAre, RemainingIs DEF BudgetInv, RowAffords, HolderAffords, Affords
<1>8. Budget(r.id) \in Nat /\ more \in Int
  BY <1>2, BudgetIs, CostIs DEF BudgetInv, Shares
<1>9. IF p \in Drains THEN left = 1 /\ n = r.attempts + 1 ELSE n > InCall - left
  BY <1>2 DEF BudgetInv, Visits
<1>10. p \in Drains => /\ posts[r.id] + Remaining(r.attempts) <= Budget(r.id)
                       /\ Remaining(r.attempts) = Remaining(n) + 1 /\ Remaining(n) \in Nat
  <2>1. ASSUME p \in Drains
        PROVE  /\ posts[r.id] + Remaining(r.attempts) <= Budget(r.id) + more
               /\ Remaining(r.attempts) = Remaining(r.attempts + 1) + 1 /\ n = r.attempts + 1
    BY <1>7, <1>9, <2>1, DrainReads, RemainingIs
  <2> HIDE DEF n
  <2> QED
    BY <1>2, <1>4, <1>8, <2>1, RemainingIs
<1>11. ASSUME NEW t, tx' = [tx EXCEPT ![p] = t], t.pc \in {"next", "post"}, t.todo \subseteq tx[p].todo,
              r.id \in DOMAIN t.writes
       PROVE  Counts(r.id)' \subseteq Counts(r.id) /\ Budget(r.id)' = Budget(r.id)
  <2>1. tx'[p] = t /\ \A q \in Processes : q # p => tx'[q] = tx[q]
    BY <1>11 DEF IInv
  <2>2. Counts(r.id)' \subseteq Counts(r.id)
    BY <1>3, <1>11, <2>1 DEF Counts, Processes
  <2>3. p \notin Fresh(r.id)
    BY <1>2 DEF Fresh, Holds
  <2>4. Fresh(r.id)' = Fresh(r.id) \ {p}
    BY <1>11, FreshAfter
  <2>5. Fresh(r.id)' = Fresh(r.id)
    BY <2>3, <2>4
  <2> QED
    BY <1>3, <2>2, <2>5 DEF Budget
<1>12. ASSUME NEW s \in Status, Done(p, r, Set(p, r, s, n)), p \in Drains \/ left - 1 \in 0..InCall
       PROVE  BudgetInv'
  <2> DEFINE w == Set(p, r, s, n)
             t == [pc |-> "next", todo |-> tx[p].todo \ {r}, left |-> 0, writes |-> w]
  <2>1. tx' = [tx EXCEPT ![p] = t]
    BY <1>12 DEF Done
  <2>2. /\ DOMAIN w = DOMAIN tx[p].writes \cup {r.id} /\ w[r.id].attempts = n
        /\ \A d \in DOMAIN w : d # r.id => d \in DOMAIN tx[p].writes /\ w[d] = tx[p].writes[d]
    <3> HIDE DEF n
    <3> QED
      BY DEF Set
  <2>3. t.pc = "next" /\ t.todo = tx[p].todo \ {r} /\ t.writes = w
    OBVIOUS
  <2>4. tx'[p] = t
    BY <2>1 DEF IInv
  <2> HIDE DEF t, w
  <2>5. Counts(r.id)' \subseteq Counts(r.id) /\ Budget(r.id)' = Budget(r.id)
    BY <1>11, <2>1, <2>2, <2>3
  <2>6. ~Posting(p, r.id)' /\ tx'[p].writes[r.id].attempts = n
    BY <2>2, <2>3, <2>4 DEF Posting
  <2>7. posts'[r.id] + Remaining(n) <= Budget(r.id)
    <3> HIDE DEF n
    <3>1. CASE p \in Drains
      BY <1>4, <1>8, <1>10, <3>1
    <3>2. CASE p \notin Drains
      <4> DEFINE made == InCall - left + 1
      <4>1. made \in 0..InCall /\ made <= n
        BY <1>2, <1>9, <3>2, CostIs
      <4>2. made + Remaining(n) <= CallCost /\ Remaining(n) \in Nat
        BY <1>2, <4>1, RemainingIs
      <4>3. posts[r.id] + Remaining(row[r.id].attempts) <= Budget(r.id) + (InCall - left - CallCost)
        BY <1>7, <3>2
      <4>4. Remaining(row[r.id].attempts) \in Nat
        BY <1>7
      <4> QED
        BY <1>2, <1>4, <1>8, <4>2, <4>3, <4>4, CostIs
    <3> QED
      BY <3>1, <3>2
  <2>8. ASSUME NEW k \in Counts(r.id)
        PROVE  posts'[r.id] + Remaining(k) <= Budget(r.id) + IF p \in Drains THEN 1 ELSE 0
    <3>1. posts[r.id] + Remaining(k) <= Budget(r.id) + more /\ Remaining(k) \in Nat
      BY <1>7
    <3> HIDE DEF n
    <3> QED
      BY <1>2, <1>4, <1>8, <3>1, CostIs
  <2>9. HolderAffords(p, r.id)'
    <3> HIDE DEF n
    <3> QED
      BY <1>8, <2>5, <2>6, <2>7, <2>8 DEF HolderAffords, Affords
  <2> QED
    BY <1>2, <1>3, <1>4, <1>5, <2>1, <2>2, <2>3, <2>9, WriteStep
<1>13. CASE ok /\ Done(p, r, Set(p, r, "delivered", n))
  <2>1. "delivered" \in Status /\ left - 1 \in 0..InCall
    BY <1>2, CostIs DEF Status
  <2> QED
    BY <1>12, <1>13, <2>1
<1>14. CASE ~ok /\ left = 1 /\ Done(p, r, Set(p, r, IF Exhausted(n) THEN "failed" ELSE "pending", n))
  <2> DEFINE s == IF Exhausted(n) THEN "failed" ELSE "pending"
  <2>1. s \in Status /\ left - 1 \in 0..InCall /\ Done(p, r, Set(p, r, s, n))
    BY <1>14, CostIs DEF Status
  <2> HIDE DEF s, n
  <2> QED
    BY <1>12, <2>1
<1>15. CASE ~ok /\ left > 1
  <2> DEFINE w == Set(p, r, r.status, n + 1)
             t == [pc |-> "post", todo |-> tx[p].todo, left |-> left - 1, writes |-> w]
  <2>1. tx' = [tx EXCEPT ![p] = t] /\ p \notin Drains
    BY <1>2, <1>9, <1>15 DEF Post
  <2>2. /\ DOMAIN w = DOMAIN tx[p].writes \cup {r.id} /\ w[r.id].attempts = n + 1
        /\ \A d \in DOMAIN w : d # r.id => d \in DOMAIN tx[p].writes /\ w[d] = tx[p].writes[d]
    <3> HIDE DEF n
    <3> QED
      BY DEF Set
  <2>3. t.pc = "post" /\ t.todo = tx[p].todo /\ t.writes = w /\ t.left = left - 1
    OBVIOUS
  <2>4. tx'[p] = t
    BY <2>1 DEF IInv
  <2> HIDE DEF t, w
  <2>5. Counts(r.id)' \subseteq Counts(r.id) /\ Budget(r.id)' = Budget(r.id)
    BY <1>11, <2>1, <2>2, <2>3
  <2>6. Posting(p, r.id)' /\ tx'[p].left = left - 1
    BY <2>3, <2>4 DEF Posting, Oldest
  <2>7. ASSUME NEW k \in Counts(r.id)
        PROVE  posts'[r.id] + Remaining(k) <= Budget(r.id) + (InCall - (left - 1) - CallCost)
    <3>1. posts[r.id] + Remaining(k) <= Budget(r.id) + (InCall - left - CallCost) /\ Remaining(k) \in Nat
      BY <1>7, <2>1
    <3> HIDE DEF n
    <3> QED
      BY <1>2, <1>4, <1>8, <3>1, CostIs
  <2>8. HolderAffords(p, r.id)'
    <3> HIDE DEF n, left
    <3> QED
      BY <2>1, <2>5, <2>6, <2>7 DEF HolderAffords, Affords
  <2>9. t.writes[r.id].attempts > InCall - t.left
    <3> HIDE DEF n, left
    <3> QED
      BY <1>2, <1>9, <2>1, <2>2, <2>3, CostIs
  <2> HIDE DEF n, left
  <2> QED
    BY <1>2, <1>3, <1>4, <1>5, <2>1, <2>2, <2>3, <2>8, <2>9, WriteStep
<1> QED
  BY <1>13, <1>14, <1>15 DEF Post

-----------------------------------------------------------------------------
(* The transactions around it. *)

LEMMA VisitsStay ==
  ASSUME BudgetInv, NEW q \in Processes, tx'[q] = tx[q]
  PROVE  Visits(q)'
BY DEF BudgetInv, Visits, Holds, Oldest

(* A step of no transaction that leaves rows and requests as they are.     *)
LEMMA NobodyBudget ==
  ASSUME IInv, BudgetInv, UNCHANGED <<tx, row, posts, calls, rollbacks>>
  PROVE  BudgetInv'
<1>1. \A q \in Processes : Visits(q)'
  BY VisitsStay
<1>2. Active' = Active /\ Rows' = Rows
  BY DEF Active, Rows
<1>3. ASSUME NEW d \in Rows
      PROVE  RowAffords(d)'
  <2>1. Budget(d)' = Budget(d) /\ Counts(d)' = Counts(d)
    BY <1>2 DEF Budget, Fresh, Counts
  <2>2. \A q \in Processes : (Holds(q, d)' <=> Holds(q, d)) /\ (Posting(q, d)' <=> Posting(q, d))
    BY DEF Holds, Posting, Oldest
  <2>3. Budget(d) \in Int
    BY BudgetIs DEF BudgetInv, Shares
  <2> QED
    BY <2>1, <2>2, <2>3, RowKeeps DEF BudgetInv
<1> QED
  BY <1>1, <1>2, <1>3 DEF BudgetInv

LEMMA BeginBudget ==
  ASSUME IInv, IInv', BudgetInv, NEW p \in Processes, NEW ids \in SUBSET Rows, Begin(p, ids),
         UNCHANGED <<row, posts, rollbacks>>, Shares', \A d \in Rows : Budget(d)' = Budget(d),
         p \in Drains => \A d \in ids : row[d].attempts < MaxAttempts
  PROVE  BudgetInv'
<1> DEFINE todo == {Loaded(d) : d \in ids}
<1>1. /\ tx[p] = NoTx /\ \A q \in Processes : q # p => tx'[q] = tx[q]
      /\ tx'[p] = [pc |-> "next", todo |-> todo, left |-> 0, writes |-> [d \in {} |-> {}]]
  BY DEF Begin, NoTx, IInv, BudgetInv, Visits
<1>2. DOMAIN tx[p].writes = {} /\ DOMAIN tx'[p].writes = {} /\ tx'[p].todo = todo /\ tx'[p].pc = "next" /\ tx[p].todo = {}
  BY <1>1 DEF NoTx
<1>3. Visits(p)'
  <2>1. \A r \in todo : (p \in Drains => r.attempts < MaxAttempts) /\ \A s \in todo : s.id = r.id => s = r
    BY DEF Loaded
  <2> HIDE DEF todo
  <2> QED
    BY <1>2, <2>1 DEF Visits, Holds
<1>4. \A q \in Processes : Visits(q)'
  BY <1>1, <1>3, VisitsStay
<1>5. \A q, u \in Processes : q # u => (DOMAIN tx[q].writes \cap DOMAIN tx[u].writes = {})'
  BY <1>1, <1>2 DEF BudgetInv
<1>6. Rows' = Rows
  BY DEF Rows
<1>7. ASSUME NEW d \in Rows
      PROVE  RowAffords(d)'
  <2>1. Counts(d)' \subseteq Counts(d)
    <3>1. \A r \in todo : r.id = d => r.attempts = row[d].attempts
      BY DEF Loaded
    <3> HIDE DEF todo
    <3> QED
      BY <1>1, <1>2, <3>1 DEF Counts, Processes
  <2>2. ASSUME NEW q \in Processes
        PROVE  /\ Holds(q, d)' <=> Holds(q, d)
               /\ Holds(q, d) => /\ tx'[q].writes[d] = tx[q].writes[d]
                                 /\ Posting(q, d)' <=> Posting(q, d)
                                 /\ Posting(q, d) => tx'[q].left = tx[q].left
    <3>1. CASE q = p
      BY <1>2, <3>1 DEF Holds
    <3>2. CASE q # p
      BY <1>1, <3>2 DEF Holds, Posting, Oldest
    <3> QED
      BY <3>1, <3>2
  <2>3. Budget(d) \in Int /\ Budget(d)' = Budget(d)
    BY BudgetIs DEF BudgetInv, Shares
  <2> QED
    BY <2>1, <2>2, <2>3, RowKeeps DEF BudgetInv
<1> QED
  BY <1>4, <1>5, <1>6, <1>7 DEF BudgetInv, Shares

LEMMA DrainStartBudget ==
  ASSUME IInv, IInv', BudgetInv, NEW p \in Drains, DrainStart(p)
  PROVE  BudgetInv'
<1> DEFINE ids == Limited(Candidates)
<1>1. ids \subseteq Rows /\ \A d \in ids : row[d].attempts < MaxAttempts
  BY DEF Limited, Candidates, First
<1>2. Begin(p, ids) /\ p \in Processes /\ UNCHANGED <<row, posts, calls, rollbacks>>
  BY DEF DrainStart, data, sent, Processes
<1> HIDE DEF ids
<1>3. p \notin Callers
  BY ProcessesAssumption
<1> DEFINE t == [NoTx EXCEPT !.pc = "next", !.todo = {Loaded(d) : d \in ids}]
<1>4. tx' = [tx EXCEPT ![p] = t]
  BY <1>2 DEF Begin
<1> HIDE DEF t
<1>5. Shares'
  BY <1>2, <1>3, <1>4, ActiveAfter DEF BudgetInv, Shares
<1>6. ASSUME NEW d \in Rows PROVE Budget(d)' = Budget(d)
  <2>1. Fresh(d)' = Fresh(d) \ {p}
    BY <1>2, <1>3, <1>4, FreshAfter
  <2>2. Fresh(d)' = Fresh(d)
    BY <1>3, <2>1 DEF Fresh, Active
  <2> QED
    BY <1>2, <2>2 DEF Budget
<1> QED
  BY <1>1, <1>2, <1>5, <1>6, BeginBudget

(* A call that begins brings its share and keeps it. *)
LEMMA CallStartBudget ==
  ASSUME IInv, IInv', BudgetInv, NEW p \in Callers, NEW c \in Rows, CallStart(p, c)
  PROVE  BudgetInv'
<1>1. Begin(p, {c}) /\ p \in Processes /\ UNCHANGED <<row, posts, rollbacks>> /\ calls' = calls + 1
  BY DEF CallStart, data, sent, Processes
<1>2. p \notin Drains
  BY ProcessesAssumption
<1> DEFINE t == [NoTx EXCEPT !.pc = "next", !.todo = {Loaded(d) : d \in {c}}]
<1>3. tx' = [tx EXCEPT ![p] = t] /\ tx[p].pc = "idle"
  BY <1>1 DEF Begin
<1>4. t.pc = "next" /\ DOMAIN t.writes = {} /\ tx'[p] = t /\ \A q \in Processes : q # p => tx'[q] = tx[q]
  <2>1. t.pc = "next" /\ DOMAIN t.writes = {}
    BY DEF NoTx
  <2> HIDE DEF t
  <2> QED
    BY <1>1, <1>3, <2>1 DEF IInv
<1> HIDE DEF t
<1>5. Active' = Active \cup {p} /\ p \notin Active
  BY <1>3, <1>4 DEF Active, Processes
<1>6. calls \in Nat
  BY LimitsAssumption DEF IInv, DataTyped
<1>7. Shares'
  <2>1. /\ IsFiniteSet(Active \cup {p}) /\ Cardinality(Active \cup {p}) = Cardinality(Active) + 1
        /\ Cardinality(Active) \in Nat
    BY <1>5, FS_AddElement, FS_CardinalityType DEF BudgetInv
  <2> QED
    BY <1>1, <1>5, <1>6, <2>1 DEF BudgetInv, Shares
<1>8. ASSUME NEW d \in Rows PROVE Budget(d)' = Budget(d)
  <2>1. p \notin Fresh(d) /\ Fresh(d)' = Fresh(d) \cup {p}
    BY <1>1, <1>3, <1>4, <1>5, FreshAfter DEF Fresh
  <2>2. IsFiniteSet(Fresh(d)) /\ Cardinality(Fresh(d)) \in Nat
    BY FreshIs DEF BudgetInv, Shares
  <2>3. Cardinality(Fresh(d)') = Cardinality(Fresh(d)) + 1
    BY <2>1, <2>2, FS_AddElement
  <2>4. calls' - Cardinality(Fresh(d)') = calls - Cardinality(Fresh(d))
    BY <1>1, <1>6, <2>2, <2>3
  <2> QED
    BY <1>1, <2>4 DEF Budget
<1> QED
  BY <1>1, <1>2, <1>7, <1>8, BeginBudget

(* A transaction that ends gives back its rows. *)
LEMMA EndBudget ==
  ASSUME IInv, IInv', BudgetInv, NEW p \in Processes, tx' = [tx EXCEPT ![p] = NoTx],
         UNCHANGED <<posts, calls>>, Rows' = Rows, rollbacks' >= rollbacks,
         \A d \in Rows : ~Holds(p, d) => row'[d] = row[d],
         \A d \in Rows : Holds(p, d) =>
           \A n \in Counts(d)' : posts[d] + Remaining(n) <= Budget(d) + (rollbacks' - rollbacks)
  PROVE  BudgetInv'
<1>1. tx'[p] = NoTx /\ \A q \in Processes : q # p => tx'[q] = tx[q]
  BY DEF IInv
<1>2. NoTx.pc = "idle" /\ NoTx.todo = {} /\ DOMAIN NoTx.writes = {}
  BY DEF NoTx
<1>3. \A q \in Processes : Visits(q)'
  BY <1>1, <1>2, VisitsStay DEF Visits
<1>4. \A q, u \in Processes : q # u => (DOMAIN tx[q].writes \cap DOMAIN tx[u].writes = {})'
  BY <1>1, <1>2 DEF BudgetInv
<1>5. Shares'
  BY <1>2, ActiveAfter DEF BudgetInv, Shares
<1>6. rollbacks \in Nat /\ rollbacks' \in Nat
  BY LimitsAssumption DEF IInv, DataTyped
<1>7. ASSUME NEW d \in Rows
      PROVE  /\ Budget(d) \in Nat
             /\ p \notin Fresh(d) => Budget(d)' = Budget(d) + (rollbacks' - rollbacks)
             /\ Budget(d)' \in Nat /\ Budget(d)' >= Budget(d)
  <2>1. Fresh(d)' = Fresh(d) \ {p}
    BY <1>2, FreshAfter
  <2>2. Budget(d) \in Nat
    BY BudgetIs DEF BudgetInv, Shares
  <2>3. CASE p \notin Fresh(d)
    <3>1. Fresh(d)' = Fresh(d)
      BY <2>1, <2>3
    <3> DEFINE paid == MaxAttempts + CallCost * (calls - Cardinality(Fresh(d)))
    <3>2. Budget(d) = paid + rollbacks /\ Budget(d)' = paid + rollbacks'
      BY <3>1 DEF Budget
    <3>3. paid \in Nat
      <4> DEFINE x == calls - Cardinality(Fresh(d))
      <4>1. x \in Nat
        BY FreshIs DEF BudgetInv, Shares
      <4>2. paid = MaxAttempts + CallCost * x
        OBVIOUS
      <4> HIDE DEF x
      <4> QED
        BY <4>1, <4>2, Product, CostIs
    <3> HIDE DEF paid
    <3>4. ASSUME NEW a \in Nat, NEW b \in Nat, NEW c \in Nat, c >= b
          PROVE  a + c = (a + b) + (c - b) /\ a + c \in Nat /\ a + c >= a + b
      BY <3>4
    <3>5. /\ paid + rollbacks' = (paid + rollbacks) + (rollbacks' - rollbacks)
          /\ paid + rollbacks' \in Nat /\ paid + rollbacks' >= paid + rollbacks
      BY <1>6, <3>3, <3>4
    <3> QED
      BY <2>2, <2>3, <3>2, <3>5
  <2>4. CASE p \in Fresh(d)
    <3>1. Budget(d)' = Budget(d) + CallCost + (rollbacks' - rollbacks)
      BY <2>1, <2>4, BudgetGrows DEF BudgetInv, Shares
    <3> QED
      BY <1>6, <2>2, <2>4, <3>1, CostIs
  <2> QED
    BY <2>3, <2>4
<1>8. ASSUME NEW d \in Rows, Holds(p, d)
      PROVE  RowAffords(d)'
  <2>1. \A q \in Processes : ~Holds(q, d)'
    BY <1>1, <1>2, <1>8 DEF BudgetInv, Holds
  <2>2. p \notin Fresh(d)
    BY <1>8 DEF Fresh, Holds
  <2>3. \A n \in Counts(d)' : posts'[d] + Remaining(n) <= Budget(d)' + 0
    BY <1>7, <1>8, <2>2
  <2> QED
    BY <2>1, <2>3 DEF RowAffords, Affords
<1>9. ASSUME NEW d \in Rows, ~Holds(p, d)
      PROVE  RowAffords(d)'
  <2>1. Counts(d)' \subseteq Counts(d)
    BY <1>1, <1>2, <1>9 DEF Counts, Processes
  <2>2. ASSUME NEW q \in Processes
        PROVE  /\ Holds(q, d)' <=> Holds(q, d)
               /\ Holds(q, d) => /\ tx'[q].writes[d] = tx[q].writes[d]
                                 /\ Posting(q, d)' <=> Posting(q, d)
                                 /\ Posting(q, d) => tx'[q].left = tx[q].left
    <3>1. CASE q = p
      BY <1>1, <1>2, <1>9, <3>1 DEF Holds
    <3>2. CASE q # p
      BY <1>1, <3>2 DEF Holds, Posting, Oldest
    <3> QED
      BY <3>1, <3>2
  <2> QED
    BY <1>7, <2>1, <2>2, RowKeeps DEF BudgetInv
<1> QED
  BY <1>3, <1>4, <1>5, <1>8, <1>9 DEF BudgetInv, Shares

LEMMA RollbackBudget ==
  ASSUME IInv, IInv', BudgetInv, NEW p \in Processes, Rollback(p)
  PROVE  BudgetInv'
<1>1. tx' = [tx EXCEPT ![p] = NoTx] /\ UNCHANGED <<row, posts, calls>> /\ rollbacks' = rollbacks + 1
  BY DEF Rollback, data, sent
<1>2. rollbacks \in Nat /\ tx'[p] = NoTx /\ \A q \in Processes : q # p => tx'[q] = tx[q]
  BY <1>1, LimitsAssumption DEF IInv, DataTyped
<1>3. ASSUME NEW d \in Rows, Holds(p, d), NEW n \in Counts(d)'
      PROVE  posts[d] + Remaining(n) <= Budget(d) + (rollbacks' - rollbacks)
  <2>1. n \in Counts(d)
    BY <1>1, <1>2, <1>3 DEF Counts, NoTx, Processes
  <2>2. HolderAffords(p, d) /\ Budget(d) \in Nat /\ rollbacks' - rollbacks = 1
    BY <1>1, <1>2, <1>3, BudgetIs DEF BudgetInv, RowAffords, Shares
  <2>3. posts[d] \in Nat /\ Remaining(n) \in Nat
    BY <2>1, CountsAre, RemainingIs
  <2>4. CASE Posting(p, d) /\ p \notin Drains
    <3>1. posts[d] + Remaining(n) <= Budget(d) + (InCall - tx[p].left - CallCost)
      BY <2>1, <2>2, <2>4 DEF HolderAffords, Affords
    <3>2. tx[p].left \in 0..InCall
      BY DEF IInv, TxTrue, TxTyped
    <3> QED
      BY <2>2, <2>3, <3>1, <3>2, CostIs
  <2>5. CASE ~(Posting(p, d) /\ p \notin Drains)
    <3>1. posts[d] + Remaining(n) <= Budget(d) + 0 \/ posts[d] + Remaining(n) <= Budget(d) + 1
      BY <2>1, <2>2, <2>5 DEF HolderAffords, Affords
    <3> QED
      BY <2>2, <2>3, <3>1
  <2> QED
    BY <2>4, <2>5
<1>4. Rows' = Rows /\ rollbacks' >= rollbacks
  BY <1>1, <1>2 DEF Rows
<1> QED
  BY <1>1, <1>3, <1>4, EndBudget

(* Where the drain is alone, no count but the one it commits is left.      *)
LEMMA CommitBudget ==
  ASSUME OneDrain, IInv, IInv', BudgetInv, NEW p \in Processes, Commit(p)
  PROVE  BudgetInv'
<1>1. /\ tx' = [tx EXCEPT ![p] = NoTx] /\ tx[p].pc = "next" /\ UNCHANGED <<posts, calls, rollbacks>>
      /\ row' = [d \in Rows |-> IF d \in DOMAIN tx[p].writes THEN Stored(d, tx[p].writes[d]) ELSE row[d]]
  BY DEF Commit, sent
<1>2. tx'[p] = NoTx /\ \A q \in Processes : q # p => tx'[q] = tx[q]
  BY <1>1 DEF IInv
<1>3. Rows' = Rows /\ rollbacks' - rollbacks = 0 /\ rollbacks' >= rollbacks
  BY <1>1, LimitsAssumption DEF Rows, IInv, DataTyped
<1>4. \A d \in Rows : ~Holds(p, d) => row'[d] = row[d]
  BY <1>1 DEF Holds
<1>5. ASSUME NEW d \in Rows, Holds(p, d), NEW n \in Counts(d)'
      PROVE  posts[d] + Remaining(n) <= Budget(d) + (rollbacks' - rollbacks)
  <2> DEFINE w == tx[p].writes[d].attempts
  <2>1. row'[d].attempts = w
    <3>1. row[d] \in Row
      BY RowsAre DEF IInv
    <3>2. row'[d] = Stored(d, tx[p].writes[d])
      BY <1>1, <1>5 DEF Holds
    <3> QED
      BY <3>1, <3>2 DEF Stored, Row
  <2>2. n = w \/ (p \notin Drains /\ n \in Counts(d))
    BY <1>2, <1>5, <2>1 DEF Counts, NoTx, OneDrain, Processes
  <2>3. ~Posting(p, d) /\ HolderAffords(p, d)
    BY <1>1, <1>5 DEF Posting, BudgetInv, RowAffords
  <2>4. posts[d] + Remaining(w) <= Budget(d) + 0 /\ (p \notin Drains => \A k \in Counts(d) : posts[d] + Remaining(k) <= Budget(d) + 0)
    BY <2>3 DEF HolderAffords, Affords
  <2> HIDE DEF w
  <2> QED
    BY <1>3, <2>2, <2>4
<1> QED
  BY <1>1, <1>3, <1>4, <1>5, EndBudget

(* New rows have cost nothing, and what calls have paid is theirs to keep. *)
LEMMA EmitBudget ==
  ASSUME IInv, IInv', BudgetInv, NEW subscribed \in SUBSET Endpoints, Emit(subscribed)
  PROVE  BudgetInv'
<1>1. UNCHANGED <<tx, posts, calls, rollbacks>>
  BY DEF Emit
<1>2. PICK new \in SetToSeqs(subscribed) :
        row' = row \o [i \in DOMAIN new |-> [endpoint |-> new[i], status |-> "pending", attempts |-> 0]]
  BY DEF Emit
<1> DEFINE added == [i \in DOMAIN new |-> [endpoint |-> new[i], status |-> "pending", attempts |-> 0]]
           n == Cardinality(subscribed)
<1>3. n \in Nat
  BY EndpointsAssumption, FS_Subset, FS_CardinalityType
<1>4. new \in [1..n -> subscribed]
  BY DEF SetToSeqs
<1>5. added \in Seq(Row) /\ Len(added) = n /\ \A i \in 1..n : added[i].attempts = 0
  <2>1. \A i \in 1..n : added[i] \in Row /\ added[i].attempts = 0
    BY <1>4 DEF Row, Status
  <2>2. added \in [1..n -> Row]
    BY <1>4, <2>1
  <2> QED
    BY <1>3, <2>1, <2>2
<1>6. row \in Seq(Row) /\ row' = row \o added
  BY <1>2 DEF IInv, DataTyped
<1> HIDE DEF added, n
<1>7. /\ Len(row) \in Nat /\ Len(row') = Len(row) + n
      /\ \A i \in 1..Len(row) : row'[i] = row[i]
      /\ \A i \in (1..Len(row')) \ (1..Len(row)) : row'[i].attempts = 0
  <2>1. Len(row \o added) = Len(row) + Len(added) /\ Len(row) \in Nat
    BY <1>5, <1>6, ConcatProperties
  <2>2. \A i \in 1..Len(row) : row'[i] = row[i]
    BY <1>5, <1>6, ConcatProperties
  <2>3. ASSUME NEW i \in (1..Len(row')) \ (1..Len(row))
        PROVE  row'[i].attempts = 0
    <3>1. i \in Int /\ i > Len(row) /\ i <= Len(row) + Len(added)
      BY <1>3, <1>5, <1>6, <2>1
    <3>2. row'[i] = added[i - Len(row)] /\ i - Len(row) \in 1..n
      BY <1>3, <1>5, <1>6, <2>1, <3>1, ConcatProperties
    <3> QED
      BY <1>5, <3>2
  <2> QED
    BY <1>5, <1>6, <2>1, <2>2, <2>3
<1>8. Rows = 1..Len(row) /\ Rows' = 1..Len(row') /\ Rows \subseteq Rows' /\ Rows' \subseteq 1..MaxRows
  <2>1. Rows = 1..Len(row) /\ Rows' = 1..Len(row')
    BY <1>6, RowsAre DEF IInv, DataTyped, Rows
  <2>2. Rows' \subseteq 1..MaxRows
    BY <1>3, <1>7, <2>1, LimitsAssumption DEF IInv, DataTyped
  <2> QED
    BY <1>3, <1>7, <2>1, <2>2
<1>9. \A q \in Processes : Visits(q)'
  BY <1>1, VisitsStay
<1>10. Active' = Active /\ \A d : Budget(d)' = Budget(d)
  BY <1>1 DEF Active, Budget, Fresh
<1>11. ASSUME NEW d \in Rows
       PROVE  RowAffords(d)'
  <2>1. row'[d] = row[d]
    BY <1>7, <1>8
  <2>2. Counts(d)' = Counts(d)
    BY <1>1, <2>1 DEF Counts
  <2>3. \A q \in Processes : (Holds(q, d)' <=> Holds(q, d)) /\ (Posting(q, d)' <=> Posting(q, d))
    BY <1>1 DEF Holds, Posting, Oldest
  <2>4. Budget(d) \in Int
    BY BudgetIs DEF BudgetInv, Shares
  <2> QED
    BY <1>1, <1>10, <2>2, <2>3, <2>4, RowKeeps DEF BudgetInv
<1>12. ASSUME NEW d \in Rows' \ Rows
       PROVE  RowAffords(d)'
  <2>1. row'[d].attempts = 0 /\ posts'[d] = 0
    BY <1>1, <1>7, <1>8 DEF BudgetInv
  <2>2. \A q \in Processes : ~Holds(q, d)' /\ \A r \in tx[q].todo : r.id # d
    BY <1>1 DEF Holds, IInv, TxTrue, TxTyped
  <2>3. Counts(d)' = {0}
    BY <1>1, <2>1, <2>2 DEF Counts, Processes
  <2>4. Budget(d) \in Nat /\ MaxAttempts <= Budget(d) /\ Remaining(0) \in Nat /\ Remaining(0) <= MaxAttempts
    BY BudgetIs, RemainingIs DEF BudgetInv, Shares
  <2>5. 0 + Remaining(0) <= Budget(d) + 0
    BY <2>4, CostIs
  <2> QED
    BY <1>10, <2>1, <2>2, <2>3, <2>5 DEF RowAffords, Affords
<1> QED
  BY <1>1, <1>8, <1>9, <1>10, <1>11, <1>12 DEF BudgetInv

-----------------------------------------------------------------------------
LEMMA BudgetInit == Init => BudgetInv
<1> SUFFICES ASSUME Init PROVE BudgetInv
  OBVIOUS
<1>1. Rows = {} /\ \A p \in Processes : tx[p] = NoTx
  BY DEF Init, Rows
<1>2. Active = {} /\ Cardinality({}) = 0
  BY <1>1, FS_EmptySet DEF Active, NoTx, Processes
<1>3. \A p \in Processes : Visits(p) /\ DOMAIN tx[p].writes = {}
  BY <1>1 DEF Visits, NoTx
<1>4. IsFiniteSet(Active) /\ Cardinality(Active) <= calls
  BY <1>2, FS_EmptySet DEF Init
<1> QED
  BY <1>1, <1>3, <1>4 DEF BudgetInv, Init

LEMMA BudgetStep ==
  ASSUME OneDrain, IInv, IInv', BudgetInv, [Next]_vars
  PROVE  BudgetInv'
<1>1. ASSUME NEW e \in Endpoints, Deactivate(e) \/ Reactivate(e) \/ Delete(e) PROVE BudgetInv'
  BY <1>1, NobodyBudget DEF Deactivate, Reactivate, Delete, SetActive
<1>2. ASSUME NEW subscribed \in SUBSET Endpoints \ {{}}, Emit(subscribed) PROVE BudgetInv'
  BY <1>2, EmitBudget
<1>3. ASSUME NEW d \in Rows, Elapse(d) PROVE BudgetInv'
  BY <1>3, NobodyBudget DEF Elapse
<1>4. ASSUME NEW p \in Drains, DrainStart(p) PROVE BudgetInv'
  BY <1>4, DrainStartBudget
<1>5. ASSUME NEW p \in Callers, NEW d \in Rows, CallStart(p, d) PROVE BudgetInv'
  BY <1>5, CallStartBudget
<1>6. ASSUME NEW p \in Processes, Deliver(p) PROVE BudgetInv'
  BY <1>6, RefuseBudget, AttemptBudget, PostBudget, CommitBudget DEF Deliver
<1>7. ASSUME NEW p \in Processes, Rollback(p) PROVE BudgetInv'
  BY <1>7, RollbackBudget
<1>8. CASE UNCHANGED vars
  BY <1>8, NobodyBudget DEF vars
<1> QED
  BY <1>1, <1>2, <1>3, <1>4, <1>5, <1>6, <1>7, <1>8 DEF Next

LEMMA BudgetBounds == IInv /\ BudgetInv => AttemptsBounded
<1> SUFFICES ASSUME IInv, BudgetInv, NEW d \in Rows
             PROVE  posts[d] <= MaxAttempts + CallCost * calls + rollbacks
  BY DEF AttemptsBounded
<1> DEFINE cost == MaxAttempts + CallCost * calls + rollbacks
<1>1. Budget(d) \in Nat /\ Budget(d) <= cost /\ cost \in Nat
  <2>1. calls \in Nat /\ rollbacks \in Nat
    BY LimitsAssumption DEF IInv, DataTyped
  <2>2. CallCost * calls \in Nat
    BY <2>1, CostIs, Product
  <2> QED
    BY <2>1, <2>2, BudgetIs, CostIs DEF BudgetInv, Shares
<1>2. ASSUME NEW n \in Nat, NEW more \in Int, more <= 0, Affords(d, n, more)
      PROVE  posts[d] <= cost
  <2>1. posts[d] \in Nat /\ Remaining(n) \in Nat
    BY CountsAre, RemainingIs
  <2> HIDE DEF cost
  <2> QED
    BY <1>1, <1>2, <2>1 DEF Affords
<1> SUFFICES posts[d] <= cost
  OBVIOUS
<1> HIDE DEF cost
<1>3. row[d].attempts \in Counts(d) /\ row[d].attempts \in Nat
  BY CountsAre
<1>4. CASE \A p \in Processes : ~Holds(p, d)
  BY <1>2, <1>3, <1>4 DEF BudgetInv, RowAffords
<1>5. CASE \E p \in Processes : Holds(p, d)
  <2>1. PICK p \in Processes : Holds(p, d)
    BY <1>5
  <2>2. HolderAffords(p, d)
    BY <2>1 DEF BudgetInv, RowAffords
  <2>3. tx[p].writes[d].attempts \in Nat /\ tx[p].left \in 0..InCall
    BY <2>1 DEF IInv, TxTrue, TxTyped, Write, Holds
  <2>4. CASE Posting(p, d)
    <3> DEFINE more == IF p \in Drains THEN 0 ELSE InCall - tx[p].left - CallCost
    <3>1. more \in Int /\ more <= 0
      BY <2>3, CostIs
    <3>2. Affords(d, row[d].attempts, more)
      BY <1>3, <2>2, <2>4 DEF HolderAffords
    <3> HIDE DEF more
    <3> QED
      BY <1>2, <1>3, <3>1, <3>2
  <2>5. CASE ~Posting(p, d)
    BY <1>2, <2>2, <2>3, <2>5 DEF HolderAffords
  <2> QED
    BY <2>4, <2>5
<1> QED
  BY <1>4, <1>5

(* As long as two drains do not overlap, a receiver gets no more requests  *)
(* for a delivery than MAX_DELIVERY_ATTEMPTS and what operators' calls and *)
(* lost transactions pay for, whatever count each transaction had read.    *)
THEOREM RequestsBounded ==
  ASSUME OneDrain
  PROVE  Spec => []AttemptsBounded
<1>1. Init => IInv /\ BudgetInv
  BY InitInvariant, BudgetInit
<1>2. IInv /\ BudgetInv /\ [Next]_vars => IInv' /\ BudgetInv'
  BY StepInvariant, BudgetStep
<1>3. IInv /\ BudgetInv => AttemptsBounded
  BY BudgetBounds
<1> QED
  BY <1>1, <1>2, <1>3, PTL DEF Spec

-----------------------------------------------------------------------------
(* Waiting for rows: a transaction has updated older rows only than those  *)
(* it has still to deliver, and the one it is posting. *)
InOrder ==
  \A p \in Processes :
    /\ tx[p].pc = "idle" => DOMAIN tx[p].writes = {}
    /\ \A r, s \in tx[p].todo : r.id = s.id => r = s
    /\ \A d \in DOMAIN tx[p].writes, r \in tx[p].todo :
         d < r.id \/ (d = r.id /\ tx[p].pc = "post" /\ Oldest(p, r))

(* A step of p that leaves it ordered. *)
LEMMA OrderKept ==
  ASSUME IInv, InOrder, NEW p \in Processes, NEW t, tx' = [tx EXCEPT ![p] = t],
         t.pc = "idle" => DOMAIN t.writes = {},
         \A r, s \in t.todo : r.id = s.id => r = s,
         \A d \in DOMAIN t.writes, r \in t.todo :
           d < r.id \/ (d = r.id /\ t.pc = "post" /\ \A s \in t.todo : r.id <= s.id)
  PROVE  InOrder'
<1>1. tx'[p] = t /\ \A q \in Processes : q # p => tx'[q] = tx[q]
  BY DEF IInv
<1>2. ASSUME NEW q \in Processes
      PROVE  /\ tx'[q].pc = "idle" => DOMAIN tx'[q].writes = {}
             /\ \A r, s \in tx'[q].todo : r.id = s.id => r = s
             /\ \A d \in DOMAIN tx'[q].writes, r \in tx'[q].todo :
                  d < r.id \/ (d = r.id /\ tx'[q].pc = "post" /\ \A s \in tx'[q].todo : r.id <= s.id)
  <2>1. CASE q = p
    BY <1>1, <2>1
  <2>2. CASE q # p
    BY <1>1, <2>2 DEF InOrder, Oldest
  <2> QED
    BY <2>1, <2>2
<1> QED
  BY <1>2 DEF InOrder, Oldest

(* The row a transaction works on is the oldest of its list, and what it   *)
(* has updated is not younger. *)
LEMMA OldestWritten ==
  ASSUME IInv, InOrder, NEW p \in Processes, NEW r \in tx[p].todo, Oldest(p, r),
         NEW n, NEW s
  PROVE  /\ DOMAIN Set(p, r, s, n) = DOMAIN tx[p].writes \cup {r.id}
         /\ \A q \in tx[p].todo : r.id <= q.id
         /\ \A d \in DOMAIN Set(p, r, s, n), q \in tx[p].todo \ {r} : d < q.id
<1>1. DOMAIN Set(p, r, s, n) = DOMAIN tx[p].writes \cup {r.id}
  BY DEF Set
<1>2. \A q \in tx[p].todo : q.id \in Nat /\ r.id <= q.id
  BY DEF Oldest, IInv, TxTrue, TxTyped, Read
<1>3. \A d \in DOMAIN tx[p].writes : d \in Nat
  BY RowsAre DEF IInv, TxTrue, TxTyped
<1>4. ASSUME NEW q \in tx[p].todo \ {r}
      PROVE  r.id < q.id
  BY <1>2 DEF InOrder
<1>5. ASSUME NEW d \in DOMAIN tx[p].writes, NEW q \in tx[p].todo \ {r}
      PROVE  d < q.id
  BY <1>2, <1>3, <1>4 DEF InOrder
<1> QED
  BY <1>1, <1>2, <1>4, <1>5

LEMMA DoneOrder ==
  ASSUME IInv, InOrder, NEW p \in Processes, NEW r \in tx[p].todo, Oldest(p, r),
         NEW n, NEW s, Done(p, r, Set(p, r, s, n))
  PROVE  InOrder'
<1> DEFINE t == [pc |-> "next", todo |-> tx[p].todo \ {r}, left |-> 0, writes |-> Set(p, r, s, n)]
<1>1. tx' = [tx EXCEPT ![p] = t]
  BY DEF Done
<1>2. t.pc = "next" /\ t.todo = tx[p].todo \ {r} /\ t.writes = Set(p, r, s, n)
  OBVIOUS
<1>3. \A q, u \in tx[p].todo : q.id = u.id => q = u
  BY DEF InOrder
<1>4. \A d \in DOMAIN Set(p, r, s, n), q \in tx[p].todo \ {r} : d < q.id
  BY OldestWritten
<1> HIDE DEF t
<1> QED
  BY <1>1, <1>2, <1>3, <1>4, OrderKept

LEMMA SendingOrder ==
  ASSUME IInv, InOrder, NEW p \in Processes, NEW r \in tx[p].todo, Oldest(p, r), NEW n, NEW s, NEW l,
         tx' = [tx EXCEPT ![p] = [pc |-> "post", todo |-> tx[p].todo, left |-> l, writes |-> Set(p, r, s, n)]]
  PROVE  InOrder'
<1> DEFINE t == [pc |-> "post", todo |-> tx[p].todo, left |-> l, writes |-> Set(p, r, s, n)]
<1>1. tx' = [tx EXCEPT ![p] = t]
  OBVIOUS
<1>2. t.pc = "post" /\ t.todo = tx[p].todo /\ t.writes = Set(p, r, s, n)
  OBVIOUS
<1>3. \A q, u \in tx[p].todo : q.id = u.id => q = u
  BY DEF InOrder
<1>4. /\ DOMAIN Set(p, r, s, n) = DOMAIN tx[p].writes \cup {r.id}
      /\ \A q \in tx[p].todo : r.id <= q.id
      /\ \A d \in DOMAIN Set(p, r, s, n), q \in tx[p].todo \ {r} : d < q.id
  BY OldestWritten
<1>5. ASSUME NEW d \in DOMAIN Set(p, r, s, n), NEW q \in tx[p].todo
      PROVE  d < q.id \/ (d = q.id /\ \A u \in tx[p].todo : q.id <= u.id)
  <2>1. CASE q # r
    BY <1>4, <2>1
  <2>2. CASE q = r
    <3>1. d = r.id \/ d < r.id
      BY <1>4 DEF InOrder
    <3> QED
      BY <1>4, <2>2, <3>1
  <2> QED
    BY <2>1, <2>2
<1> HIDE DEF t
<1>6. \A q, u \in t.todo : q.id = u.id => q = u
  BY <1>2, <1>3
<1>7. \A d \in DOMAIN t.writes, q \in t.todo :
        d < q.id \/ (d = q.id /\ t.pc = "post" /\ \A u \in t.todo : q.id <= u.id)
  BY <1>2, <1>5
<1> QED
  BY <1>1, <1>2, <1>6, <1>7, OrderKept

LEMMA BeginOrder ==
  ASSUME IInv, InOrder, NEW p \in Processes, NEW ids, Begin(p, ids)
  PROVE  InOrder'
<1> DEFINE t == [NoTx EXCEPT !.pc = "next", !.todo = {Loaded(d) : d \in ids}]
<1>1. tx' = [tx EXCEPT ![p] = t]
  BY DEF Begin
<1>2. t.pc = "next" /\ t.todo = {Loaded(d) : d \in ids} /\ DOMAIN t.writes = {}
  BY DEF NoTx
<1>3. \A r, s \in {Loaded(d) : d \in ids} : r.id = s.id => r = s
  BY DEF Loaded
<1> HIDE DEF t
<1> QED
  BY <1>1, <1>2, <1>3, OrderKept

LEMMA EndOrder ==
  ASSUME IInv, InOrder, NEW p \in Processes, tx' = [tx EXCEPT ![p] = NoTx]
  PROVE  InOrder'
<1>1. NoTx.todo = {} /\ DOMAIN NoTx.writes = {}
  BY DEF NoTx
<1> QED
  BY <1>1, OrderKept

LEMMA OrderStep ==
  ASSUME IInv, InOrder, [Next]_vars
  PROVE  InOrder'
<1>1. ASSUME NEW p \in Processes, NEW r \in tx[p].todo, Oldest(p, r), Refuse(p, r)
      PROVE  InOrder'
  BY <1>1, DoneOrder DEF Refuse
<1>2. ASSUME NEW p \in Processes, NEW r \in tx[p].todo, Oldest(p, r), Attempt(p, r)
      PROVE  InOrder'
  BY <1>2, SendingOrder DEF Attempt, Begun
<1>3. ASSUME NEW p \in Processes, NEW r \in tx[p].todo, Oldest(p, r), NEW ok \in BOOLEAN, Post(p, r, ok)
      PROVE  InOrder'
  BY <1>3, DoneOrder, SendingOrder DEF Post
<1>4. ASSUME NEW p \in Processes, Commit(p) \/ Rollback(p)
      PROVE  InOrder'
  BY <1>4, EndOrder DEF Commit, Rollback
<1>5. ASSUME NEW p \in Processes, DrainStart(p) \/ \E d \in Rows : CallStart(p, d)
      PROVE  InOrder'
  BY <1>5, BeginOrder DEF DrainStart, CallStart
<1>6. CASE UNCHANGED tx
  BY <1>6 DEF InOrder, Oldest
<1> QED
  BY <1>1, <1>2, <1>3, <1>4, <1>5, <1>6
     DEF Next, vars, Deliver, Processes, Deactivate, Reactivate, Delete, SetActive, Emit, Elapse

(* A set of rows has a youngest one. *)
LEMMA YoungestRow ==
  ASSUME NEW n \in Nat, NEW S \in SUBSET (1..n), S # {}
  PROVE  \E i \in S : \A j \in S : j <= i
<1> DEFINE Back == {n - i : i \in S}
           R == OpToRel(<, Nat)
<1>1. Back \subseteq Nat /\ Back # {}
  <2>1. \A i \in S : n - i \in Nat
    OBVIOUS
  <2>2. PICK i : i \in S
    OBVIOUS
  <2>3. n - i \in Back
    BY <2>2
  <2> QED
    BY <2>1, <2>3
<1>2. \A x, y \in Nat : x < y => <<x, y>> \in R
  BY DEF OpToRel
<1>3. \E x \in Back : \A y \in Back : ~(<<y, x>> \in R)
  <2> HIDE DEF Back, R
  <2>1. IsWellFoundedOn(R, Nat)
    BY NatLessThanWellFounded DEF R
  <2> QED
    BY <1>1, <2>1, WFMin
<1>4. PICK x \in Back : \A y \in Back : ~(y < x)
  <2> HIDE DEF Back, R
  <2> QED
    BY <1>1, <1>2, <1>3
<1>5. PICK i \in S : x = n - i
  BY <1>4
<1>6. ASSUME NEW j \in S
      PROVE  j <= i
  <2>1. n - j \in Back /\ ~(n - j < n - i)
    BY <1>4, <1>5
  <2> QED
    BY <2>1
<1> QED
  BY <1>6

(* Of the rows that transactions wait for take the youngest: who has       *)
(* updated it would wait for a younger one. *)
LEMMA OneGoesOn ==
  ASSUME IInv, InOrder
  PROVE  NoDeadlock
<1> SUFFICES ASSUME NEW o \in Processes, tx[o].pc # "idle",
                    \A p \in Processes : tx[p].pc # "idle" => Waits(p)
             PROVE  FALSE
  BY DEF NoDeadlock
<1> DEFINE Wanted(d) == \E p \in Processes : \E r \in tx[p].todo :
                          tx[p].pc = "next" /\ Oldest(p, r) /\ LockedByOther(p, r.id) /\ d = r.id
           W == {d \in Rows : Wanted(d)}
<1>1. \A p \in Processes : \A r \in tx[p].todo : r.id \in Rows
  BY DEF IInv, TxTrue, TxTyped
<1>2. \A p \in Processes : tx[p].pc # "idle" =>
        tx[p].pc = "next" /\ \E r \in tx[p].todo : Oldest(p, r) /\ r.id \in W
  BY <1>1 DEF Waits
<1>3. W # {}
  BY <1>2
<1>4. W \in SUBSET (1..Len(row)) /\ Len(row) \in Nat
  BY RowsAre DEF IInv
<1>5. PICK d \in W : \A e \in W : e <= d
  <2> HIDE DEF W
  <2> QED
    BY <1>3, <1>4, YoungestRow
<1>6. PICK q \in Processes : d \in DOMAIN tx[q].writes
  BY <1>5 DEF LockedByOther
<1>7. tx[q].pc # "idle"
  BY <1>6 DEF InOrder
<1>8. PICK r \in tx[q].todo : tx[q].pc = "next" /\ r.id \in W
  BY <1>2, <1>7
<1>9. d < r.id
  BY <1>6, <1>8 DEF InOrder
<1> QED
  BY <1>4, <1>5, <1>8, <1>9

(* Transactions never block each other for good, however many drains and   *)
(* calls overlap.                                                          *)
THEOREM DeliveriesGoOn == Spec => []NoDeadlock
<1>1. Init => InOrder
  BY DEF Init, InOrder, NoTx
<1>2. IInv /\ InOrder /\ [Next]_vars => InOrder'
  BY OrderStep
<1>3. IInv /\ InOrder => NoDeadlock
  BY OneGoesOn
<1> QED
  BY <1>1, <1>2, <1>3, Invariance, PTL DEF Spec
===============================================================================
