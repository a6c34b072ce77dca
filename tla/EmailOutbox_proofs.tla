-------------------------- MODULE EmailOutbox_proofs --------------------------
(***************************************************************************)
(* Emails are delivered once, tried a bounded number of times, held by one *)
(* party at a time, within the send cap and settled for good unless a      *)
(* request goes by an old row, for every number of emails, flush runs,     *)
(* workers and requests.                                                   *)
(***************************************************************************)
EXTENDS EmailOutbox, FiniteSetTheorems, SequenceTheorems, TLAPS

(* A flush holds rows that wait and are nobody's; a row it has tried has   *)
(* one attempt more than the table says.                                   *)
Drafted(f, m) ==
  /\ m \in Ids /\ Waiting(m) /\ outbox[m].lease # "live"
  /\ draft[f][m].status \in {"pending", "failed", "sent", "skipped"}
  /\ draft[f][m].lease # "live"
  /\ \/ draft[f][m].attempts = outbox[m].attempts /\ draft[f][m].status # "sent"
     \/ draft[f][m].attempts = outbox[m].attempts + 1 /\ outbox[m].attempts < MaxAttempts

Locks ==
  /\ \A f, g \in Flushers : f # g => DOMAIN draft[f] \cap DOMAIN draft[g] = {}
  /\ \A f \in Flushers : \A m \in DOMAIN draft[f] : Drafted(f, m)

(* What is left of a batch is untouched, and no row is in it twice. *)
Left ==
  \A f \in Flushers :
    /\ \A i \in 1..Len(batch[f]) :
         batch[f][i] \in DOMAIN draft[f] /\ draft[f][batch[f][i]] = outbox[batch[f][i]]
    /\ \A i, j \in 1..Len(batch[f]) : i # j => batch[f][i] # batch[f][j]
    /\ view[f].verdict # "none" => batch[f] # << >> /\ ~Exhausted(Current(f))

(* A request in progress wants what its handler wants of the row it loaded. *)
Sound(q) ==
  /\ q.msg \in Ids
  /\ \/ q.op \in Ops /\ Accepts(q.op, q.loaded) /\ q.wanted = Wanted(q.op, q.loaded)
     \/ q.op = "complete" /\ q.loaded.status = "processing" /\ q.wanted = Completed(q.loaded)
     \/ q.op = "fail" /\ q.loaded.status = "processing" /\ q.wanted = FailedByWorker(q.loaded)

RequestsSound == \A r \in Requests : req[r] # NoReq => Sound(req[r])

(* Nothing was done about an email that is not there yet. *)
Unqueued ==
  \A m \in Msgs \ Ids : delivered[m] = 0 /\ tries[m] = 0 /\ \A w \in Workers : job[w][m] = "none"

IInv == TypeOK /\ Locks /\ Left /\ RequestsSound /\ Unqueued

-----------------------------------------------------------------------------
(* Sequences and rows. *)

LEMMA FunSeq ==
  ASSUME NEW S, NEW n \in Nat, NEW g \in [1..n -> S]
  PROVE  g \in Seq(S) /\ Len(g) = n
OBVIOUS

LEMMA Outbox ==
  ASSUME TypeOK
  PROVE  /\ Len(outbox) \in Nat /\ DOMAIN outbox = Ids /\ Ids \subseteq Msgs /\ Ids \subseteq Nat
         /\ \A m \in Ids : outbox[m] \in Row
BY OutboxAssumption DEF TypeOK, Ids, Msgs

(* A table of the same length: its rows are typed one by one. *)
LEMMA Rewritten ==
  ASSUME TypeOK, DOMAIN outbox' = Ids, outbox' = [m \in Ids |-> outbox'[m]],
         \A m \in Ids : outbox'[m] \in Row
  PROVE  outbox' \in Seq(Row) /\ Len(outbox') = Len(outbox) /\ Ids' = Ids
<1>1. outbox' \in [1..Len(outbox) -> Row] /\ Len(outbox) \in Nat
  BY Outbox DEF Ids
<1>2. outbox' \in Seq(Row) /\ Len(outbox') = Len(outbox)
  BY <1>1, FunSeq
<1> QED
  BY <1>2 DEF Ids

(* A column is set and the others stay. *)
LEMMA SetStatus ==
  ASSUME NEW row \in Row, NEW s \in Statuses
  PROVE  LET new == [row EXCEPT !.status = s]
         IN  /\ new \in Row /\ new.status = s /\ new.due = row.due /\ new.lease = row.lease
             /\ new.owner = row.owner /\ new.attempts = row.attempts /\ new.retries = row.retries
BY DEF Row

LEMMA SetDue ==
  ASSUME NEW row \in Row, NEW d \in BOOLEAN
  PROVE  LET new == [row EXCEPT !.due = d]
         IN  /\ new \in Row /\ new.status = row.status /\ new.due = d /\ new.lease = row.lease
             /\ new.owner = row.owner /\ new.attempts = row.attempts /\ new.retries = row.retries
BY DEF Row

LEMMA SetLease ==
  ASSUME NEW row \in Row, NEW l \in {"none", "live", "expired"}
  PROVE  LET new == [row EXCEPT !.lease = l]
         IN  /\ new \in Row /\ new.status = row.status /\ new.due = row.due /\ new.lease = l
             /\ new.owner = row.owner /\ new.attempts = row.attempts /\ new.retries = row.retries
BY DEF Row

LEMMA SetOwner ==
  ASSUME NEW row \in Row, NEW o \in Workers \cup {None}
  PROVE  LET new == [row EXCEPT !.owner = o]
         IN  /\ new \in Row /\ new.status = row.status /\ new.due = row.due /\ new.lease = row.lease
             /\ new.owner = o /\ new.attempts = row.attempts /\ new.retries = row.retries
BY DEF Row

LEMMA CountAttempt ==
  ASSUME NEW row \in Row
  PROVE  LET new == [row EXCEPT !.attempts = @ + 1]
         IN  /\ new \in Row /\ new.status = row.status /\ new.due = row.due /\ new.lease = row.lease
             /\ new.owner = row.owner /\ new.attempts = row.attempts + 1 /\ new.retries = row.retries
BY DEF Row

LEMMA CountRetry ==
  ASSUME NEW row \in Row
  PROVE  LET new == [row EXCEPT !.retries = @ + 1]
         IN  /\ new \in Row /\ new.status = row.status /\ new.due = row.due /\ new.lease = row.lease
             /\ new.owner = row.owner /\ new.attempts = row.attempts /\ new.retries = row.retries + 1
BY DEF Row

LEMMA UnleasedIs ==
  ASSUME NEW row \in Row
  PROVE  /\ Unleased(row) \in Row /\ Unleased(row).status = row.status
         /\ Unleased(row).attempts = row.attempts /\ Unleased(row).lease = "none"
         /\ Unleased(row).owner = None
<1> DEFINE a == [row EXCEPT !.lease = "none"]
           b == [a EXCEPT !.owner = None]
<1>1. Unleased(row) = b
  BY DEF Unleased
<1>2. a \in Row /\ a.status = row.status /\ a.attempts = row.attempts /\ a.lease = "none"
  BY SetLease
<1> HIDE DEF a
<1>3. b \in Row /\ b.status = a.status /\ b.attempts = a.attempts /\ b.lease = a.lease /\ b.owner = None
  BY <1>2, SetOwner
<1> QED
  BY <1>1, <1>2, <1>3
LEMMA StatusDue ==
  ASSUME NEW row \in Row, NEW s \in Statuses, NEW d \in BOOLEAN
  PROVE  LET new == [row EXCEPT !.status = s, !.due = d]
         IN  /\ new \in Row /\ new.status = s /\ new.due = d /\ new.lease = row.lease
             /\ new.owner = row.owner /\ new.attempts = row.attempts /\ new.retries = row.retries
<1> DEFINE a == [row EXCEPT !.status = s]
           b == [a EXCEPT !.due = d]
<1>1. a \in Row /\ a.status = s /\ a.lease = row.lease
      /\ a.owner = row.owner /\ a.attempts = row.attempts /\ a.retries = row.retries
  BY SetStatus
<1> HIDE DEF a
<1>2. b \in Row /\ b.status = a.status /\ b.due = d /\ b.lease = a.lease
      /\ b.owner = a.owner /\ b.attempts = a.attempts /\ b.retries = a.retries
  BY <1>1, SetDue
<1>3. b = [row EXCEPT !.status = s, !.due = d]
  BY DEF a
<1> QED
  BY <1>1, <1>2, <1>3

LEMMA AttemptedIs ==
  ASSUME NEW row \in Row
  PROVE  /\ Attempted(row) \in Row /\ Attempted(row).attempts = row.attempts + 1
         /\ Attempted(row).lease = "none" /\ Attempted(row).retries = row.retries
<1> DEFINE a == [row EXCEPT !.attempts = @ + 1]
           b == [a EXCEPT !.lease = "none"]
           c == [b EXCEPT !.owner = None]
<1>1. Attempted(row) = c
  BY DEF Attempted
<1>2. a \in Row /\ a.attempts = row.attempts + 1 /\ a.retries = row.retries
  BY CountAttempt
<1> HIDE DEF a
<1>3. b \in Row /\ b.attempts = a.attempts /\ b.lease = "none" /\ b.retries = a.retries
  BY <1>2, SetLease
<1> HIDE DEF b
<1>4. c \in Row /\ c.attempts = b.attempts /\ c.lease = b.lease /\ c.retries = b.retries
  BY <1>3, SetOwner
<1> QED
  BY <1>1, <1>2, <1>3, <1>4

LEMMA ReleaseIs ==
  ASSUME NEW row \in Row
  PROVE  /\ DeadLetter(row) \in Row /\ Release(row) \in Row
         /\ DeadLetter(row).status = "dead_letter" /\ DeadLetter(row).attempts = row.attempts
         /\ DeadLetter(row).lease = "none" /\ DeadLetter(row).owner = None
         /\ Release(row).status \in {"failed", "dead_letter"}
         /\ Release(row).attempts = row.attempts
         /\ Release(row).lease = "none" /\ Release(row).owner = None
<1> DEFINE u == Unleased(row)
<1>1. u \in Row /\ u.attempts = row.attempts /\ u.lease = "none" /\ u.owner = None
  BY UnleasedIs
<1>2. DeadLetter(row) = [u EXCEPT !.status = "dead_letter", !.due = TRUE]
  BY DEF DeadLetter
<1>3. Release(row) = IF row.attempts >= MaxAttempts THEN DeadLetter(row)
                     ELSE [u EXCEPT !.status = "failed", !.due = TRUE]
  BY DEF Release
<1>4. "dead_letter" \in Statuses /\ "failed" \in Statuses
  BY DEF Statuses
<1> HIDE DEF u
<1> DEFINE d == [u EXCEPT !.status = "dead_letter", !.due = TRUE]
<1>5. /\ d \in Row /\ d.status = "dead_letter" /\ d.attempts = u.attempts
      /\ d.lease = u.lease /\ d.owner = u.owner
  BY <1>1, <1>4, StatusDue
<1>8. DeadLetter(row) = d
  BY <1>2
<1> HIDE DEF d
<1> DEFINE f == [u EXCEPT !.status = "failed", !.due = TRUE]
<1>6. /\ f \in Row /\ f.status = "failed" /\ f.attempts = u.attempts
      /\ f.lease = u.lease /\ f.owner = u.owner
  BY <1>1, <1>4, StatusDue
<1> HIDE DEF f
<1>7. Release(row) = DeadLetter(row) \/ Release(row) = f
  BY <1>3 DEF f
<1> QED
  BY <1>1, <1>5, <1>6, <1>7, <1>8

LEMMA CompletedIs ==
  ASSUME NEW row \in Row
  PROVE  /\ Completed(row) \in Row /\ Completed(row).status = "sent"
         /\ Completed(row).attempts = row.attempts
         /\ Completed(row).lease = "none" /\ Completed(row).owner = None
<1> DEFINE u == Unleased(row)
<1>1. u \in Row /\ u.attempts = row.attempts /\ u.lease = "none" /\ u.owner = None
  BY UnleasedIs
<1>2. Completed(row) = [u EXCEPT !.status = "sent"]
  BY DEF Completed
<1>3. "sent" \in Statuses
  BY DEF Statuses
<1> HIDE DEF u
<1> QED
  BY <1>1, <1>2, <1>3, SetStatus

LEMMA FailedIs ==
  ASSUME NEW row \in Row
  PROVE  /\ FailedByWorker(row) \in Row
         /\ FailedByWorker(row).status =
              IF row.attempts + 1 >= MaxAttempts THEN "dead_letter" ELSE "failed"
         /\ FailedByWorker(row).attempts = row.attempts + 1
         /\ FailedByWorker(row).lease = "none" /\ FailedByWorker(row).owner = None
<1> DEFINE a == [row EXCEPT !.attempts = @ + 1]
           u == Unleased(a)
<1>1. a \in Row /\ a.attempts = row.attempts + 1
  BY CountAttempt
<1>2. FailedByWorker(row) = IF a.attempts >= MaxAttempts THEN DeadLetter(a)
                            ELSE [u EXCEPT !.status = "failed", !.due = FALSE]
  BY DEF FailedByWorker
<1> HIDE DEF a
<1>3. u \in Row /\ u.attempts = a.attempts /\ u.lease = "none" /\ u.owner = None
  BY <1>1, UnleasedIs
<1> HIDE DEF u
<1>4. "failed" \in Statuses
  BY DEF Statuses
<1> DEFINE f == [u EXCEPT !.status = "failed", !.due = FALSE]
<1>5. /\ f \in Row /\ f.status = "failed" /\ f.attempts = u.attempts
      /\ f.lease = u.lease /\ f.owner = u.owner
  BY <1>3, <1>4, StatusDue
<1>6. FailedByWorker(row) = IF a.attempts >= MaxAttempts THEN DeadLetter(a) ELSE f
  BY <1>2
<1> HIDE DEF f
<1> QED
  BY <1>1, <1>3, <1>5, <1>6, ReleaseIs

LEMMA WantedIs ==
  ASSUME NEW row \in Row, NEW op \in Ops, Accepts(op, row)
  PROVE  /\ Wanted(op, row) \in Row
         /\ Wanted(op, row).status \in {"cancelled", "sent", "failed", "dead_letter"}
         /\ op # "mark_sent" => Wanted(op, row).status # "sent"
         /\ op # "mark_failed" => /\ Wanted(op, row).attempts = row.attempts
                                  /\ Wanted(op, row).status # "failed"
         /\ op = "mark_failed" => /\ Wanted(op, row).attempts = row.attempts + 1
                                  /\ Wanted(op, row).status = "failed"
         /\ Wanted(op, row).lease \in {row.lease, "none"}
         /\ Wanted(op, row).owner \in {row.owner, None}
<1>1. {"cancelled", "sent", "failed", "dead_letter"} \subseteq Statuses
  BY DEF Statuses
<1>2. CASE op = "cancel"
  BY <1>1, <1>2, SetStatus DEF Wanted
<1>3. CASE op = "mark_sent"
  BY <1>1, <1>3, SetStatus DEF Wanted
<1>4. CASE op = "mark_failed"
  <2> DEFINE a == [row EXCEPT !.status = "failed"]
  <2>1. a \in Row /\ a.status = "failed" /\ a.lease = row.lease /\ a.owner = row.owner
        /\ a.attempts = row.attempts
    BY <1>1, SetStatus
  <2>2. Wanted(op, row) = [a EXCEPT !.attempts = @ + 1]
    BY <1>4 DEF Wanted
  <2> HIDE DEF a
  <2> QED
    BY <1>4, <2>1, <2>2, CountAttempt
<1>5. CASE op = "dead_letter"
  BY <1>5, ReleaseIs DEF Wanted
<1> QED
  BY <1>2, <1>3, <1>4, <1>5, OpsAssumption

(* A column of a row that is overlaid is the wanted one if it was changed. *)
LEMMA OverlayIs ==
  ASSUME NEW row \in Row, NEW loaded \in Row, NEW wanted \in Row
  PROVE  /\ Overlay(row, loaded, wanted) \in Row
         /\ Overlay(row, loaded, wanted).status =
              IF wanted.status # loaded.status THEN wanted.status ELSE row.status
         /\ Overlay(row, loaded, wanted).lease =
              IF wanted.lease # loaded.lease THEN wanted.lease ELSE row.lease
         /\ Overlay(row, loaded, wanted).owner =
              IF wanted.owner # loaded.owner THEN wanted.owner ELSE row.owner
         /\ Overlay(row, loaded, wanted).attempts =
              IF wanted.attempts # loaded.attempts THEN wanted.attempts ELSE row.attempts
BY DEF Overlay, Row

-----------------------------------------------------------------------------
(* The claim of a flush. *)

(* The oldest n rows of a set: as many as there are, at most n, each once. *)
LEMMA OldestIs ==
  ASSUME TypeOK, NEW ids \in SUBSET Ids, NEW n \in Nat
  PROVE  /\ Oldest(ids, n) \in Seq(Msgs) /\ Len(Oldest(ids, n)) <= n
         /\ \A i \in 1..Len(Oldest(ids, n)) : Oldest(ids, n)[i] \in ids
         /\ \A i, j \in 1..Len(Oldest(ids, n)) : i # j => Oldest(ids, n)[i] # Oldest(ids, n)[j]
<1> DEFINE rank == [m \in ids |-> Rank(m, ids)]
           before(m) == {k \in ids : k < m}
           firsts == {m \in ids : Rank(m, ids) < n}
           c == Cardinality(firsts)
           places == [m \in firsts |-> rank[m] + 1]
<1>1. ids \subseteq Nat /\ ids \subseteq Msgs /\ IsFiniteSet(ids) /\ IsFiniteSet(firsts) /\ c \in Nat
  <2>1. IsFiniteSet(Ids) /\ Ids \subseteq Nat /\ Ids \subseteq Msgs
    BY Outbox, FS_Interval DEF Ids
  <2>2. IsFiniteSet(ids)
    BY <2>1, FS_Subset
  <2>3. IsFiniteSet(firsts)
    BY <2>2, FS_Subset
  <2> QED
    BY <2>1, <2>2, <2>3, FS_CardinalityType
<1>2. /\ \A m \in ids : IsFiniteSet(before(m)) /\ rank[m] = Cardinality(before(m))
      /\ rank \in [ids -> Nat]
  <2>1. \A m \in ids : IsFiniteSet(before(m)) /\ Cardinality(before(m)) \in Nat
    BY <1>1, FS_Subset, FS_CardinalityType
  <2> QED
    BY <2>1 DEF Rank
<1>3. firsts = {m \in ids : rank[m] < n}
  OBVIOUS
<1> HIDE DEF rank, firsts
<1>4. ASSUME NEW m \in ids, NEW k \in ids, k < m PROVE before(k) \in SUBSET (before(m) \ {k}) /\ k \in before(m)
  <2>1. ASSUME NEW x \in ids, x < k PROVE x < m /\ x # k
    BY <1>1, <1>4, <2>1
  <2> QED
    BY <1>4, <2>1
<1>5. ASSUME NEW m \in ids, NEW k \in ids, k < m PROVE rank[k] < rank[m]
  <2>1. /\ IsFiniteSet(before(m) \ {k})
        /\ Cardinality(before(m) \ {k}) = Cardinality(before(m)) - 1
    BY <1>2, <1>4, <1>5, FS_RemoveElement
  <2>2. Cardinality(before(k)) <= Cardinality(before(m) \ {k})
    BY <1>4, <1>5, <2>1, FS_Subset
  <2> HIDE DEF before
  <2> QED
    BY <1>2, <2>1, <2>2
<1>6. ASSUME NEW m \in firsts, NEW k \in firsts, m # k PROVE rank[m] # rank[k]
  <2>1. m < k \/ k < m
    BY <1>1, <1>3, <1>6
  <2>2. m \in ids /\ k \in ids
    BY <1>3
  <2> QED
    BY <1>2, <1>5, <2>1, <2>2
<1>7. ASSUME NEW m \in firsts PROVE rank[m] + 1 \in 1..c /\ rank[m] + 1 \in 1..n
  <2>1. m \in ids /\ rank[m] \in Nat /\ rank[m] < n
    BY <1>2, <1>3
  <2>2. ASSUME NEW x \in before(m) PROVE x \in firsts \ {m}
    <3>1. x \in ids /\ x < m /\ x \in Nat /\ m \in Nat
      BY <1>1, <2>1
    <3>2. rank[x] < rank[m] /\ rank[x] \in Nat
      BY <1>2, <1>5, <2>1, <3>1
    <3> QED
      BY <1>3, <2>1, <3>1, <3>2
  <2>3. IsFiniteSet(firsts \ {m}) /\ Cardinality(firsts \ {m}) = c - 1
    BY <1>1, FS_RemoveElement
  <2>4. Cardinality(before(m)) <= c - 1
    BY <2>2, <2>3, FS_Subset
  <2>5. rank[m] = Cardinality(before(m))
    BY <1>2, <2>1
  <2> HIDE DEF before, c
  <2> QED
    BY <1>1, <2>1, <2>4, <2>5
<1>8. places \in Injection(firsts, 1..c) /\ places \in Injection(firsts, 1..n)
  <2>1. \A m, k \in firsts : rank[m] + 1 = rank[k] + 1 => m = k
    <3>1. \A m \in firsts : rank[m] \in Nat
      BY <1>2, <1>3
    <3> QED
      BY <1>6, <3>1
  <2> HIDE DEF c
  <2> QED
    BY <1>7, <2>1 DEF Injection, IsInjective
<1>9. \A i \in 1..c : \E m \in firsts : rank[m] = i - 1
  <2>1. IsFiniteSet(1..c) /\ Cardinality(1..c) = c
    BY <1>1, FS_Interval
  <2>2. places \in Surjection(firsts, 1..c)
    <3>1. Cardinality(firsts) = Cardinality(1..c)
      BY <2>1
    <3> QED
      BY <1>8, <2>1, <3>1, FS_Injection
  <2> SUFFICES ASSUME NEW i \in 1..c PROVE \E m \in firsts : rank[m] = i - 1
    OBVIOUS
  <2>3. PICK m \in firsts : places[m] = i
    BY <2>2 DEF Surjection
  <2>4. rank[m] \in Nat /\ rank[m] + 1 = i
    BY <1>2, <1>3, <2>3
  <2> QED
    BY <2>4
<1>10. c <= n
  <2>1. IsFiniteSet(1..n) /\ Cardinality(1..n) = n
    BY FS_Interval
  <2> QED
    BY <1>8, <2>1, FS_Injection
<1> DEFINE s == Oldest(ids, n)
<1>11. s = [i \in 1..c |-> CHOOSE m \in firsts : Rank(m, ids) = i - 1]
  BY DEF Oldest, firsts
<1>12. \A i \in 1..c : s[i] \in firsts /\ rank[s[i]] = i - 1
  <2>1. \A m \in firsts : Rank(m, ids) = rank[m]
    BY DEF rank, firsts
  <2>2. \A i \in 1..c : \E m \in firsts : Rank(m, ids) = i - 1
    BY <1>9, <2>1
  <2> QED
    BY <1>11, <2>1, <2>2
<1>13. s \in [1..c -> Msgs]
  BY <1>1, <1>3, <1>11, <1>12
<1>14. s \in Seq(Msgs) /\ Len(s) = c
  BY <1>1, <1>13, FunSeq
<1>15. \A i, j \in 1..c : i # j => s[i] # s[j]
  <2> HIDE DEF s, c
  <2> QED
    BY <1>1, <1>12
<1>16. \A i \in 1..c : s[i] \in ids
  BY <1>3, <1>12
<1> QED
  BY <1>10, <1>14, <1>15, <1>16

-----------------------------------------------------------------------------
(* The flush's session. *)

LEMMA DraftTyped ==
  ASSUME TypeOK, NEW f \in Flushers, NEW m \in DOMAIN draft[f]
  PROVE  m \in Ids /\ m \in Msgs /\ m \in Nat /\ draft[f][m] \in Row /\ outbox[m] \in Row
BY Outbox DEF TypeOK

(* The row that comes next. *)
LEMMA HeadIs ==
  ASSUME IInv, NEW f \in Flushers, batch[f] # << >>
  PROVE  LET h == Head(batch[f])
             rest == Tail(batch[f])
         IN  /\ h \in DOMAIN draft[f] /\ h \in Ids /\ h \in Msgs
             /\ Current(f) = outbox[h] /\ draft[f][h] = outbox[h] /\ outbox[h] \in Row
             /\ rest \in Seq(Msgs) /\ Len(rest) = Len(batch[f]) - 1 /\ Len(batch[f]) \in Nat
             /\ \A i \in 1..Len(rest) : /\ rest[i] = batch[f][i + 1] /\ rest[i] # h
                                        /\ rest[i] \in DOMAIN draft[f]
             /\ \A i, j \in 1..Len(rest) : i # j => rest[i] # rest[j]
<1> DEFINE h == Head(batch[f])
           rest == Tail(batch[f])
           n == Len(batch[f])
<1>1. batch[f] \in Seq(Msgs) /\ n \in Nat /\ n > 0
  <2>1. batch[f] \in Seq(Msgs)
    BY DEF IInv, TypeOK
  <2> QED
    BY <2>1
<1>2. h = batch[f][1] /\ rest \in Seq(Msgs) /\ Len(rest) = n - 1
      /\ \A i \in 1..(n - 1) : rest[i] = batch[f][i + 1]
  BY <1>1
<1>3. /\ \A i \in 1..n : batch[f][i] \in DOMAIN draft[f] /\ draft[f][batch[f][i]] = outbox[batch[f][i]]
      /\ \A i, j \in 1..n : i # j => batch[f][i] # batch[f][j]
  BY DEF IInv, Left
<1>4. 1 \in 1..n /\ \A i \in 1..(n - 1) : i + 1 \in 1..n /\ i + 1 # 1
  BY <1>1
<1>5. h \in DOMAIN draft[f] /\ draft[f][h] = outbox[h]
  BY <1>2, <1>3, <1>4
<1>6. h \in Ids /\ h \in Msgs /\ outbox[h] \in Row
  BY <1>5, DraftTyped DEF IInv
<1>7. \A i \in 1..(n - 1) : rest[i] # h /\ rest[i] \in DOMAIN draft[f]
  BY <1>2, <1>3, <1>4
<1>8. \A i, j \in 1..(n - 1) : i # j => rest[i] # rest[j]
  <2> SUFFICES ASSUME NEW i \in 1..(n - 1), NEW j \in 1..(n - 1), i # j PROVE rest[i] # rest[j]
    OBVIOUS
  <2>1. i + 1 \in 1..n /\ j + 1 \in 1..n /\ i + 1 # j + 1
    BY <1>1
  <2> QED
    BY <1>2, <1>3, <2>1
<1> QED
  BY <1>1, <1>2, <1>5, <1>6, <1>7, <1>8 DEF Current

(* A row of the batch is processed. *)
LEMMA ProcessIs ==
  ASSUME IInv, NEW f \in Flushers, NEW row \in Row, Process(f, row)
  PROVE  /\ batch' = [batch EXCEPT ![f] = Tail(batch[f])]
         /\ DOMAIN draft' = Flushers
         /\ \A g \in Flushers : DOMAIN draft'[g] = DOMAIN draft[g] /\ (g # f => draft'[g] = draft[g])
         /\ draft'[f] \in [DOMAIN draft[f] -> Row]
         /\ draft'[f][Head(batch[f])] = row
         /\ \A m \in DOMAIN draft[f] : m # Head(batch[f]) => draft'[f][m] = draft[f][m]
         /\ UNCHANGED <<outbox, quota, faults, Rest, RestState, epoch>>
<1>1. /\ DOMAIN draft = Flushers /\ draft[f] \in [DOMAIN draft[f] -> Row]
      /\ Head(batch[f]) \in DOMAIN draft[f]
  BY HeadIs DEF Process, IInv, TypeOK
<1>2. draft' = [draft EXCEPT ![f] = [draft[f] EXCEPT ![Head(batch[f])] = row]]
  BY DEF Process
<1> DEFINE d == [draft[f] EXCEPT ![Head(batch[f])] = row]
<1>3. /\ d \in [DOMAIN draft[f] -> Row] /\ d[Head(batch[f])] = row /\ DOMAIN d = DOMAIN draft[f]
      /\ \A m \in DOMAIN draft[f] : m # Head(batch[f]) => d[m] = draft[f][m]
  BY <1>1
<1> HIDE DEF d
<1>4. draft' = [draft EXCEPT ![f] = d]
  BY <1>2 DEF d
<1>5. DOMAIN draft' = Flushers /\ draft'[f] = d /\ \A g \in Flushers : g # f => draft'[g] = draft[g]
  BY <1>1, <1>4
<1> QED
  BY <1>3, <1>5 DEF Process

(* Processing a row keeps the session in order. *)
LEMMA ProcessStep ==
  ASSUME IInv, NEW f \in Flushers, NEW row \in Row, Process(f, row),
         row.status \in {"pending", "failed", "sent", "skipped"}, row.lease # "live",
         \/ row.attempts = Current(f).attempts /\ row.status # "sent"
         \/ row.attempts = Current(f).attempts + 1 /\ Current(f).attempts < MaxAttempts,
         view' \in [Flushers -> View], view'[f].verdict = "none",
         \A g \in Flushers : g # f => view'[g] = view[g],
         delivered' \in [Msgs -> Nat], tries' \in [Msgs -> Nat], spent' \in Nat,
         \A m \in Msgs \ Ids : delivered'[m] = delivered[m] /\ tries'[m] = tries[m]
  PROVE  IInv'
<1> DEFINE h == Head(batch[f])
<1>1. batch[f] # << >>
  BY DEF Process
<1>2. /\ h \in DOMAIN draft[f] /\ h \in Ids /\ Current(f) = outbox[h]
      /\ Tail(batch[f]) \in Seq(Msgs)
      /\ \A i \in 1..Len(Tail(batch[f])) : Tail(batch[f])[i] # h /\ Tail(batch[f])[i] \in DOMAIN draft[f]
      /\ \A i, j \in 1..Len(Tail(batch[f])) : i # j => Tail(batch[f])[i] # Tail(batch[f])[j]
  BY <1>1, HeadIs
<1>3. /\ batch' = [batch EXCEPT ![f] = Tail(batch[f])]
      /\ DOMAIN draft' = Flushers
      /\ \A g \in Flushers : DOMAIN draft'[g] = DOMAIN draft[g] /\ (g # f => draft'[g] = draft[g])
      /\ draft'[f] \in [DOMAIN draft[f] -> Row] /\ draft'[f][h] = row
      /\ \A m \in DOMAIN draft[f] : m # h => draft'[f][m] = draft[f][m]
      /\ outbox' = outbox /\ quota' = quota /\ faults' = faults /\ epoch' = epoch
      /\ job' = job /\ expiries' = expiries /\ req' = req /\ ops' = ops
  BY ProcessIs DEF Rest, RestState
<1>4. /\ batch' \in [Flushers -> Seq(Msgs)] /\ batch'[f] = Tail(batch[f])
      /\ \A g \in Flushers : g # f => batch'[g] = batch[g]
  BY <1>2, <1>3 DEF IInv, TypeOK
<1>5. Ids' = Ids
  BY <1>3 DEF Ids
<1>6. TypeOK'
  <2>1. \A g \in Flushers : DOMAIN draft'[g] \subseteq Ids /\ draft'[g] \in [DOMAIN draft'[g] -> Row]
    BY <1>3 DEF IInv, TypeOK
  <2> QED
    BY <1>3, <1>4, <1>5, <2>1 DEF IInv, TypeOK
<1>7. Locks'
  <2>1. ASSUME NEW g \in Flushers, NEW m \in DOMAIN draft'[g] PROVE Drafted(g, m)'
    <3>1. m \in DOMAIN draft[g] /\ Drafted(g, m)
      BY <1>3, <2>1 DEF IInv, Locks
    <3>2. Waiting(m)' = Waiting(m)
      BY <1>3 DEF Waiting
    <3>3. CASE g = f /\ m = h
      BY <1>2, <1>3, <1>5, <3>1, <3>2, <3>3 DEF Drafted
    <3>4. CASE ~(g = f /\ m = h)
      BY <1>3, <1>5, <3>1, <3>2, <3>4 DEF Drafted
    <3> QED
      BY <3>3, <3>4
  <2> QED
    BY <1>3, <2>1 DEF IInv, Locks
<1>8. Left'
  <2>1. ASSUME NEW g \in Flushers
        PROVE  /\ \A i \in 1..Len(batch'[g]) : /\ batch'[g][i] \in DOMAIN draft'[g]
                                               /\ draft'[g][batch'[g][i]] = outbox'[batch'[g][i]]
               /\ \A i, j \in 1..Len(batch'[g]) : i # j => batch'[g][i] # batch'[g][j]
               /\ view'[g].verdict # "none" => batch'[g] # << >> /\ ~Exhausted(outbox'[Head(batch'[g])])
    <3>1. CASE g # f
      <4>1. batch'[g] = batch[g] /\ draft'[g] = draft[g] /\ view'[g] = view[g] /\ outbox' = outbox
        BY <1>3, <1>4, <3>1
      <4> DEFINE Fits(b, d, o, v) == /\ \A i \in 1..Len(b) : b[i] \in DOMAIN d /\ d[b[i]] = o[b[i]]
                                     /\ \A i, j \in 1..Len(b) : i # j => b[i] # b[j]
                                     /\ v.verdict # "none" => b # << >> /\ ~Exhausted(o[Head(b)])
      <4>2. Fits(batch[g], draft[g], outbox, view[g])
        BY DEF IInv, Left, Current
      <4>3. Fits(batch'[g], draft'[g], outbox', view'[g])
        <5> HIDE DEF Fits
        <5> QED
          BY <4>1, <4>2
      <4> QED
        BY <4>3
    <3>2. CASE g = f
      <4>1. \A i \in 1..Len(Tail(batch[f])) : draft[f][Tail(batch[f])[i]] = outbox[Tail(batch[f])[i]]
        BY <1>1, HeadIs DEF IInv, Left
      <4> QED
        BY <1>2, <1>3, <1>4, <3>2, <4>1
    <3> QED
      BY <3>1, <3>2
  <2> QED
    BY <2>1 DEF Left, Current
<1>9. RequestsSound'
  BY <1>3, <1>5 DEF IInv, RequestsSound, Sound
<1>10. Unqueued'
  <2>1. job' = job
    BY <1>3
  <2>2. \A m \in Msgs \ Ids : delivered'[m] = 0 /\ tries'[m] = 0 /\ \A w \in Workers : job'[w][m] = "none"
    BY <2>1 DEF IInv, Unqueued
  <2> QED
    BY <1>5, <2>2 DEF Unqueued
<1> QED
  BY <1>6, <1>7, <1>8, <1>9, <1>10 DEF IInv

(* What becomes of the row: it is set aside without an attempt ... *)
LEMMA SetAside ==
  ASSUME IInv, NEW f \in Flushers, Suppress(f) \/ GiveUp(f) \/ Defer(f)
  PROVE  \E row \in Row : /\ Process(f, row) /\ row.status \in {"skipped", "failed", "pending"}
                          /\ row.attempts = Current(f).attempts /\ row.lease # "live"
<1>1. batch[f] # << >>
  BY DEF Suppress, GiveUp, Defer, Process
<1> DEFINE cur == Current(f)
<1>2. cur \in Row /\ cur.lease # "live"
  BY <1>1, HeadIs DEF IInv, Locks, Drafted
<1> HIDE DEF cur
<1>3. {"skipped", "failed", "pending"} \subseteq Statuses
  BY DEF Statuses
<1>4. CASE Suppress(f)
  <2> DEFINE a == [cur EXCEPT !.status = "skipped", !.due = TRUE]
  <2>1. Process(f, a)
    BY <1>4 DEF Suppress, cur
  <2>2. a \in Row /\ a.status = "skipped" /\ a.attempts = cur.attempts /\ a.lease = cur.lease
    BY <1>2, <1>3, StatusDue
  <2> HIDE DEF a
  <2> QED
    BY <1>2, <2>1, <2>2 DEF cur
<1>5. CASE GiveUp(f)
  <2> DEFINE a == [cur EXCEPT !.status = "failed"]
  <2>1. Process(f, a)
    BY <1>5 DEF GiveUp, cur
  <2>2. a \in Row /\ a.status = "failed" /\ a.attempts = cur.attempts /\ a.lease = cur.lease
    BY <1>2, <1>3, SetStatus
  <2> HIDE DEF a
  <2> QED
    BY <1>2, <2>1, <2>2 DEF cur
<1>6. CASE Defer(f)
  <2> DEFINE a == [cur EXCEPT !.status = "pending", !.due = FALSE]
             b == [a EXCEPT !.lease = "none"]
             c == [b EXCEPT !.owner = None]
  <2>1. Process(f, c)
    BY <1>6 DEF Defer, cur
  <2>2. a \in Row /\ a.status = "pending" /\ a.attempts = cur.attempts
    BY <1>2, <1>3, StatusDue
  <2> HIDE DEF a
  <2>3. b \in Row /\ b.status = a.status /\ b.attempts = a.attempts /\ b.lease = "none"
    BY <2>2, SetLease
  <2> HIDE DEF b
  <2>4. c \in Row /\ c.status = b.status /\ c.attempts = b.attempts /\ c.lease = b.lease
    BY <2>3, SetOwner
  <2> HIDE DEF c
  <2> QED
    BY <2>1, <2>2, <2>3, <2>4 DEF cur
<1> QED
  BY <1>4, <1>5, <1>6

(* ... sent ... *)
LEMMA SentRow ==
  ASSUME IInv, NEW f \in Flushers, SendOk(f)
  PROVE  \E row \in Row : /\ Process(f, row) /\ row.status = "sent" /\ row.lease # "live"
                          /\ row.attempts = Current(f).attempts + 1
<1>1. batch[f] # << >>
  BY DEF SendOk, Process
<1> DEFINE cur == Current(f)
           a == Attempted(cur)
           b == [a EXCEPT !.status = "sent", !.due = TRUE]
<1>2. cur \in Row
  BY <1>1, HeadIs
<1>3. Process(f, b)
  BY DEF SendOk
<1>4. a \in Row /\ a.attempts = cur.attempts + 1 /\ a.lease = "none"
  BY <1>2, AttemptedIs
<1> HIDE DEF a
<1>5. b \in Row /\ b.status = "sent" /\ b.attempts = a.attempts /\ b.lease = a.lease
  <2>1. "sent" \in Statuses /\ TRUE \in BOOLEAN
    BY DEF Statuses
  <2> QED
    BY <1>4, <2>1, StatusDue
<1> HIDE DEF b
<1> QED
  BY <1>3, <1>4, <1>5

(* ... or refused by the provider. *)
LEMMA FailedRow ==
  ASSUME IInv, NEW f \in Flushers, SendFail(f)
  PROVE  \E row \in Row : /\ Process(f, row) /\ row.status \in {"failed", "pending"} /\ row.lease # "live"
                          /\ row.attempts = Current(f).attempts + 1
<1>1. batch[f] # << >>
  BY DEF SendFail, Process
<1> DEFINE cur == Current(f)
           a == Attempted(cur)
           r == [a EXCEPT !.retries = @ + 1]
           last == r.retries >= MaxAttempts
           s == IF last THEN "failed" ELSE "pending"
           b == [r EXCEPT !.status = s, !.due = last]
<1>2. cur \in Row
  BY <1>1, HeadIs
<1>3. Process(f, b)
  BY DEF SendFail
<1>4. a \in Row /\ a.attempts = cur.attempts + 1 /\ a.lease = "none"
  BY <1>2, AttemptedIs
<1> HIDE DEF a
<1>5. r \in Row /\ r.attempts = a.attempts /\ r.lease = a.lease
  BY <1>4, CountRetry
<1> HIDE DEF r
<1>6. s \in {"failed", "pending"} /\ s \in Statuses /\ last \in BOOLEAN
  BY DEF Statuses
<1> HIDE DEF s, last
<1>7. b \in Row /\ b.status = s /\ b.attempts = r.attempts /\ b.lease = r.lease
  <2> DEFINE y == [r EXCEPT !.status = s, !.due = TRUE]
             n == [r EXCEPT !.status = s, !.due = FALSE]
  <2>1. y \in Row /\ y.status = s /\ y.attempts = r.attempts /\ y.lease = r.lease
    BY <1>5, <1>6, StatusDue
  <2>2. n \in Row /\ n.status = s /\ n.attempts = r.attempts /\ n.lease = r.lease
    BY <1>5, <1>6, StatusDue
  <2>3. b = y \/ b = n
    BY <1>6, Zenon
  <2> HIDE DEF y, n, b
  <2> QED
    BY <2>1, <2>2, <2>3
<1> HIDE DEF b
<1> QED
  BY <1>3, <1>4, <1>5, <1>6, <1>7

(* A row is sent only after the quota check, and not when it is exhausted. *)
LEMMA Affordable ==
  ASSUME IInv, NEW f \in Flushers, SendOk(f) \/ SendFail(f)
  PROVE  batch[f] # << >> /\ Current(f) \in Row /\ Current(f).attempts < MaxAttempts
<1>1. batch[f] # << >> /\ view[f].verdict = "allowed"
  BY DEF SendOk, SendFail, Process
<1>2. Current(f) \in Row /\ ~Exhausted(Current(f))
  BY <1>1, HeadIs DEF IInv, Left
<1>3. Current(f).attempts \in Nat /\ MaxAttempts \in Nat
  BY <1>2, OutboxAssumption DEF Row
<1> QED
  BY <1>1, <1>2, <1>3 DEF Exhausted

LEMMA SeenTyped ==
  ASSUME TypeOK, NEW f \in Flushers
  PROVE  Seen(f) \in Counter /\ Bump(Seen(f)) \in Counter
<1>1. view[f].val \in Counter /\ quota \in Counter /\ epoch \in {0, 1}
  BY DEF TypeOK, View
<1>2. Seen(f) \in Counter
  BY <1>1 DEF Seen
<1> QED
  BY <1>1, <1>2 DEF Bump, Counter

LEMMA CheckedIs ==
  ASSUME TypeOK, NEW f \in Flushers, Checked(f)
  PROVE  /\ view' \in [Flushers -> View] /\ view'[f].verdict = "none"
         /\ view'[f].dirty = view[f].dirty /\ view'[f].val = view[f].val
         /\ \A g \in Flushers : g # f => view'[g] = view[g]
<1> DEFINE v == [view[f] EXCEPT !.verdict = "none"]
<1>1. view[f] \in View /\ view \in [Flushers -> View]
  BY DEF TypeOK
<1>2. v \in View /\ v.verdict = "none" /\ v.dirty = view[f].dirty /\ v.val = view[f].val
  BY <1>1 DEF View
<1>3. view' = [view EXCEPT ![f] = v]
  BY DEF Checked
<1> HIDE DEF v
<1> QED
  BY <1>1, <1>2, <1>3

LEMMA RecordIs ==
  ASSUME TypeOK, NEW f \in Flushers, RecordSent(f)
  PROVE  /\ view' \in [Flushers -> View] /\ view'[f].verdict = "none"
         /\ view'[f].dirty = TRUE /\ view'[f].val = Bump(Seen(f))
         /\ \A g \in Flushers : g # f => view'[g] = view[g]
<1> DEFINE v == [verdict |-> "none", dirty |-> TRUE, val |-> Bump(Seen(f))]
<1>1. view \in [Flushers -> View]
  BY DEF TypeOK
<1>2. v \in View
  BY SeenTyped DEF View
<1>3. view' = [view EXCEPT ![f] = v]
  BY DEF RecordSent
<1> QED
  BY <1>1, <1>2, <1>3

LEMMA SetAsideStep ==
  ASSUME IInv, NEW f \in Flushers, Suppress(f) \/ GiveUp(f) \/ Defer(f)
  PROVE  IInv'
<1>1. PICK row \in Row : /\ Process(f, row) /\ row.status \in {"skipped", "failed", "pending"}
                         /\ row.attempts = Current(f).attempts /\ row.lease # "live"
  BY SetAside
<1>2. delivered' = delivered /\ tries' = tries /\ spent' = spent
  BY DEF Suppress, GiveUp, Defer, SendState
<1>3. /\ view' \in [Flushers -> View] /\ view'[f].verdict = "none"
      /\ \A g \in Flushers : g # f => view'[g] = view[g]
  <2>1. CASE Suppress(f)
    BY <2>1 DEF Suppress, IInv, TypeOK
  <2>2. CASE GiveUp(f)
    <3>1. view[f].verdict = "none" /\ view' = view
      BY <2>2 DEF GiveUp, IInv, Left
    <3> QED
      BY <3>1 DEF IInv, TypeOK
  <2>3. CASE Defer(f)
    BY <2>3, CheckedIs DEF Defer, IInv
  <2> QED
    BY <2>1, <2>2, <2>3
<1>4. delivered' \in [Msgs -> Nat] /\ tries' \in [Msgs -> Nat] /\ spent' \in Nat
  BY <1>2 DEF IInv, TypeOK
<1> QED
  BY <1>1, <1>2, <1>3, <1>4, ProcessStep

LEMMA SendStep ==
  ASSUME IInv, NEW f \in Flushers, SendOk(f) \/ SendFail(f)
  PROVE  IInv'
<1> DEFINE h == Head(batch[f])
<1>1. batch[f] # << >> /\ Current(f).attempts < MaxAttempts
  BY Affordable
<1>2. h \in Ids /\ h \in Msgs
  BY <1>1, HeadIs
<1>3. PICK row \in Row : /\ Process(f, row) /\ row.status \in {"sent", "failed", "pending"}
                         /\ row.lease # "live" /\ row.attempts = Current(f).attempts + 1
  BY SentRow, FailedRow
<1>4. /\ view' \in [Flushers -> View] /\ view'[f].verdict = "none"
      /\ \A g \in Flushers : g # f => view'[g] = view[g]
  BY CheckedIs, RecordIs DEF SendOk, SendFail, IInv
<1>5. /\ delivered' \in [Msgs -> Nat] /\ tries' \in [Msgs -> Nat] /\ spent' \in Nat
      /\ \A m \in Msgs : m # h => delivered'[m] = delivered[m] /\ tries'[m] = tries[m]
  <2>1. /\ delivered' = delivered \/ delivered' = [delivered EXCEPT ![h] = @ + 1]
        /\ tries' = [tries EXCEPT ![h] = @ + 1] /\ spent' \in {spent, spent + 1}
    BY DEF SendOk, SendFail
  <2>2. delivered \in [Msgs -> Nat] /\ tries \in [Msgs -> Nat] /\ spent \in Nat
    BY DEF IInv, TypeOK
  <2> HIDE DEF h
  <2> QED
    BY <1>2, <2>1, <2>2
<1> QED
  BY <1>1, <1>2, <1>3, <1>4, <1>5, ProcessStep


-----------------------------------------------------------------------------
(* The other steps. *)

(* Rows that no flush holds may change. *)
LEMMA LocksStay ==
  ASSUME IInv, UNCHANGED <<batch, draft, view>>, Ids \subseteq Ids',
         \A f \in Flushers : \A m \in DOMAIN draft[f] : outbox'[m] = outbox[m]
  PROVE  Locks' /\ Left'
<1>1. ASSUME NEW f \in Flushers, NEW m \in DOMAIN draft[f] PROVE Drafted(f, m)'
  <2>1. Drafted(f, m) /\ outbox'[m] = outbox[m] /\ draft' = draft
    BY DEF IInv, Locks
  <2> QED
    BY <2>1 DEF Drafted, Waiting
<1>2. Locks'
  BY <1>1 DEF IInv, Locks
<1>3. ASSUME NEW f \in Flushers
      PROVE  /\ \A i \in 1..Len(batch[f]) : /\ batch[f][i] \in DOMAIN draft[f]
                                            /\ draft[f][batch[f][i]] = outbox'[batch[f][i]]
             /\ \A i, j \in 1..Len(batch[f]) : i # j => batch[f][i] # batch[f][j]
             /\ view[f].verdict # "none" => batch[f] # << >> /\ ~Exhausted(outbox'[Head(batch[f])])
  <2>1. /\ \A i \in 1..Len(batch[f]) : /\ batch[f][i] \in DOMAIN draft[f]
                                        /\ draft[f][batch[f][i]] = outbox[batch[f][i]]
        /\ \A i, j \in 1..Len(batch[f]) : i # j => batch[f][i] # batch[f][j]
        /\ view[f].verdict # "none" => batch[f] # << >> /\ ~Exhausted(outbox[Head(batch[f])])
    BY DEF IInv, Left, Current
  <2>2. batch[f] # << >> => Head(batch[f]) \in DOMAIN draft[f]
    BY HeadIs
  <2> QED
    BY <2>1, <2>2
<1>4. Left'
  BY <1>3 DEF Left, Current
<1> QED
  BY <1>2, <1>4

LEMMA RequestsStay ==
  ASSUME IInv, req' = req, Ids \subseteq Ids'
  PROVE  RequestsSound'
BY DEF IInv, RequestsSound, Sound

(* A step that rewrites some unlocked rows. *)
LEMMA RowsStep ==
  ASSUME IInv, DOMAIN outbox' = Ids, outbox' = [m \in Ids |-> outbox'[m]],
         \A m \in Ids : outbox'[m] \in Row /\ (outbox'[m] # outbox[m] => ~RowLocked(m)),
         UNCHANGED <<SendState, FlushState, epoch>>, ops' \in Nat, expiries' \in Nat,
         job' \in [Workers -> [Msgs -> {"none", "claimed", "delivered", "undelivered"}]],
         \A w \in Workers : \A m \in Msgs \ Ids : job'[w][m] = job[w][m],
         req' \in [Requests -> Request \cup {NoReq}],
         \A r \in Requests : req'[r] # NoReq => req'[r] = req[r]
  PROVE  IInv' /\ Ids' = Ids
<1>1. outbox' \in Seq(Row) /\ Len(outbox') = Len(outbox) /\ Ids' = Ids
  BY Rewritten DEF IInv
<1>2. /\ delivered' = delivered /\ tries' = tries /\ batch' = batch /\ draft' = draft /\ view' = view
      /\ quota' = quota /\ spent' = spent /\ faults' = faults /\ epoch' = epoch
  BY DEF SendState, FlushState
<1>3. \A f \in Flushers : \A m \in DOMAIN draft[f] : outbox'[m] = outbox[m]
  BY DraftTyped DEF RowLocked, IInv
<1>4. Locks' /\ Left'
  BY <1>1, <1>2, <1>3, LocksStay
<1>5. TypeOK'
  BY <1>1, <1>2 DEF IInv, TypeOK
<1>6. RequestsSound'
  BY <1>1 DEF IInv, RequestsSound, Sound
<1>7. Unqueued'
  BY <1>1, <1>2 DEF IInv, Unqueued
<1> QED
  BY <1>1, <1>4, <1>5, <1>6, <1>7 DEF IInv

LEMMA QueueStep ==
  ASSUME IInv, NEW s \in {"draft", "pending", "skipped"}, NEW d \in BOOLEAN, Queue(s, d)
  PROVE  IInv'
<1> DEFINE row == [status |-> s, due |-> d, lease |-> "none", owner |-> None, attempts |-> 0, retries |-> 0]
<1>1. row \in Row
  BY DEF Row, Statuses
<1>2. outbox' = Append(outbox, row) /\ Len(outbox) < MaxMsgs
  BY DEF Queue
<1> HIDE DEF row
<1>3. /\ outbox' \in Seq(Row) /\ Len(outbox') = Len(outbox) + 1 /\ Len(outbox) \in Nat
      /\ \A m \in Ids : outbox'[m] = outbox[m]
  BY <1>1, <1>2 DEF IInv, TypeOK, Ids
<1>4. Ids \subseteq Ids' /\ Len(outbox') <= MaxMsgs
  BY <1>2, <1>3, OutboxAssumption DEF Ids
<1>5. /\ delivered' = delivered /\ tries' = tries /\ batch' = batch /\ draft' = draft /\ view' = view
      /\ quota' = quota /\ spent' = spent /\ faults' = faults /\ epoch' = epoch /\ job' = job
      /\ expiries' = expiries /\ req' = req /\ ops' = ops
  BY DEF Queue, SendState, FlushState, Rest, RestState
<1>6. Locks' /\ Left'
  BY <1>3, <1>4, <1>5, DraftTyped, LocksStay DEF IInv
<1>7. TypeOK'
  BY <1>3, <1>4, <1>5 DEF IInv, TypeOK
<1>8. RequestsSound'
  BY <1>4, <1>5, RequestsStay
<1>9. Unqueued'
  BY <1>4, <1>5 DEF IInv, Unqueued
<1> QED
  BY <1>6, <1>7, <1>8, <1>9 DEF IInv

LEMMA ElapseStep ==
  ASSUME IInv, NEW m \in Msgs, Elapse(m)
  PROVE  IInv'
<1> DEFINE row == [outbox[m] EXCEPT !.due = TRUE]
<1>1. m \in Ids /\ ~outbox[m].due /\ outbox[m] \in Row
  BY Outbox DEF Elapse, IInv
<1>2. row \in Row
  BY <1>1, SetDue
<1>3. outbox' = [outbox EXCEPT ![m] = row]
  BY DEF Elapse
<1> HIDE DEF row
<1>4. /\ DOMAIN outbox' = Ids /\ outbox' = [k \in Ids |-> outbox'[k]] /\ outbox'[m] = row
      /\ \A k \in Ids : k # m => outbox'[k] = outbox[k]
  BY <1>1, <1>3, Outbox DEF IInv
<1>5. ~RowLocked(m)
  BY <1>1 DEF RowLocked, IInv, Locks, Drafted, Waiting
<1>6. \A k \in Ids : outbox'[k] \in Row /\ (outbox'[k] # outbox[k] => ~RowLocked(k))
  BY <1>2, <1>4, <1>5, Outbox DEF IInv
<1>7. /\ UNCHANGED <<SendState, FlushState, epoch>> /\ job' = job /\ expiries' = expiries
      /\ req' = req /\ ops' = ops
  BY DEF Elapse, Rest, RestState
<1>8. /\ ops' \in Nat /\ expiries' \in Nat
      /\ job' \in [Workers -> [Msgs -> {"none", "claimed", "delivered", "undelivered"}]]
      /\ req' \in [Requests -> Request \cup {NoReq}]
  BY <1>7 DEF IInv, TypeOK
<1>9. /\ UNCHANGED <<SendState, FlushState, epoch>>
      /\ \A w \in Workers : \A k \in Msgs \ Ids : job'[w][k] = job[w][k]
      /\ \A r \in Requests : req'[r] # NoReq => req'[r] = req[r]
  BY <1>7
<1> QED
  BY <1>4, <1>6, <1>8, <1>9, RowsStep

LEMMA ExpireStep ==
  ASSUME IInv, NEW m \in Msgs, ExpireLease(m)
  PROVE  IInv'
<1> DEFINE row == [outbox[m] EXCEPT !.lease = "expired"]
<1>1. m \in Ids /\ outbox[m].lease = "live" /\ outbox[m] \in Row
  BY Outbox DEF ExpireLease, IInv
<1>2. row \in Row
  BY <1>1, SetLease
<1>3. outbox' = [outbox EXCEPT ![m] = row]
  BY DEF ExpireLease
<1> HIDE DEF row
<1>4. /\ DOMAIN outbox' = Ids /\ outbox' = [k \in Ids |-> outbox'[k]] /\ outbox'[m] = row
      /\ \A k \in Ids : k # m => outbox'[k] = outbox[k]
  BY <1>1, <1>3, Outbox DEF IInv
<1>5. ~RowLocked(m)
  BY <1>1 DEF RowLocked, IInv, Locks, Drafted
<1>6. \A k \in Ids : outbox'[k] \in Row /\ (outbox'[k] # outbox[k] => ~RowLocked(k))
  BY <1>2, <1>4, <1>5, Outbox DEF IInv
<1>7. /\ UNCHANGED <<SendState, FlushState, epoch>> /\ job' = job /\ expiries' = expiries + 1
      /\ req' = req /\ ops' = ops
  BY DEF ExpireLease, RestState
<1>8. /\ ops' \in Nat /\ expiries' \in Nat
      /\ job' \in [Workers -> [Msgs -> {"none", "claimed", "delivered", "undelivered"}]]
      /\ req' \in [Requests -> Request \cup {NoReq}]
  BY <1>7 DEF IInv, TypeOK
<1>9. /\ UNCHANGED <<SendState, FlushState, epoch>>
      /\ \A w \in Workers : \A k \in Msgs \ Ids : job'[w][k] = job[w][k]
      /\ \A r \in Requests : req'[r] # NoReq => req'[r] = req[r]
  BY <1>7
<1> QED
  BY <1>4, <1>6, <1>8, <1>9, RowsStep


LEMMA CloseStep ==
  ASSUME IInv, CloseWindow
  PROVE  IInv'
<1>1. /\ delivered' = delivered /\ tries' = tries /\ batch' = batch /\ draft' = draft /\ view' = view
      /\ quota' = quota /\ outbox' = outbox /\ faults' = faults /\ job' = job /\ req' = req
      /\ expiries' = expiries /\ ops' = ops /\ epoch' = 1 - epoch /\ spent' = 0
  BY DEF CloseWindow, SendState, Rest, RestState
<1>2. Ids' = Ids
  BY <1>1 DEF Ids
<1>3. Locks' /\ Left'
  BY <1>1, <1>2, LocksStay
<1>4. TypeOK'
  BY <1>1, <1>2 DEF IInv, TypeOK
<1>5. RequestsSound'
  BY <1>1, <1>2, RequestsStay
<1>6. Unqueued'
  BY <1>1, <1>2 DEF IInv, Unqueued
<1> QED
  BY <1>3, <1>4, <1>5, <1>6 DEF IInv

LEMMA EmptySession == << >> \in [{} -> Row] /\ DOMAIN << >> = {} /\ NoView \in View /\ NoView.verdict = "none"
BY DEF NoView, View, Counter

(* A step in which one flush changes its session and nothing else. *)
LEMMA SessionStep ==
  ASSUME IInv, NEW f \in Flushers, NEW d, NEW b \in Seq(Msgs), NEW v \in View,
         UNCHANGED <<SendState, outbox, quota, spent, Rest, RestState, epoch>>, faults' \in Nat,
         DOMAIN draft' = Flushers, draft'[f] = d, \A g \in Flushers \ {f} : draft'[g] = draft[g],
         batch' = [batch EXCEPT ![f] = b], view' = [view EXCEPT ![f] = v],
         DOMAIN d \subseteq Ids, d \in [DOMAIN d -> Row],
         \A m \in DOMAIN d : Drafted(f, m)',
         \A g \in Flushers \ {f} : DOMAIN d \cap DOMAIN draft[g] = {},
         \A i \in 1..Len(b) : b[i] \in DOMAIN d /\ d[b[i]] = outbox[b[i]],
         \A i, j \in 1..Len(b) : i # j => b[i] # b[j],
         v.verdict # "none" => b # << >> /\ ~Exhausted(outbox[Head(b)])
  PROVE  IInv'
<1>1. /\ delivered' = delivered /\ tries' = tries /\ outbox' = outbox /\ quota' = quota
      /\ job' = job /\ req' = req /\ expiries' = expiries /\ ops' = ops /\ epoch' = epoch /\ spent' = spent
  BY DEF SendState, Rest, RestState
<1>2. Ids' = Ids
  BY <1>1 DEF Ids
<1>3. /\ DOMAIN draft' = Flushers /\ draft'[f] = d /\ batch'[f] = b /\ view'[f] = v
      /\ \A g \in Flushers : g # f => draft'[g] = draft[g] /\ batch'[g] = batch[g] /\ view'[g] = view[g]
      /\ batch' \in [Flushers -> Seq(Msgs)] /\ view' \in [Flushers -> View]
  BY DEF IInv, TypeOK
<1>4. TypeOK'
  <2>1. ASSUME NEW g \in Flushers
        PROVE  DOMAIN draft'[g] \subseteq Ids /\ draft'[g] \in [DOMAIN draft'[g] -> Row]
    <3>1. CASE g = f
      BY <1>3, <3>1
    <3>2. CASE g # f
      BY <1>3, <3>2 DEF IInv, TypeOK
    <3> QED
      BY <3>1, <3>2
  <2> QED
    BY <1>1, <1>2, <1>3, <2>1 DEF IInv, TypeOK
<1>5. Locks'
  <2>1. ASSUME NEW g \in Flushers, NEW m \in DOMAIN draft'[g] PROVE Drafted(g, m)'
    <3>1. CASE g = f
      BY <1>3, <2>1, <3>1
    <3>2. CASE g # f
      <4>1. m \in DOMAIN draft[g] /\ Drafted(g, m) /\ draft'[g] = draft[g]
        BY <1>3, <2>1, <3>2 DEF IInv, Locks
      <4> QED
        BY <1>1, <1>2, <4>1 DEF Drafted, Waiting
    <3> QED
      BY <3>1, <3>2
  <2>2. ASSUME NEW g \in Flushers, NEW k \in Flushers, g # k PROVE DOMAIN draft'[g] \cap DOMAIN draft'[k] = {}
    BY <1>3, <2>2 DEF IInv, Locks
  <2> QED
    BY <2>1, <2>2 DEF Locks
<1>6. Left'
  <2>1. ASSUME NEW g \in Flushers
        PROVE  /\ \A i \in 1..Len(batch'[g]) : /\ batch'[g][i] \in DOMAIN draft'[g]
                                               /\ draft'[g][batch'[g][i]] = outbox'[batch'[g][i]]
               /\ \A i, j \in 1..Len(batch'[g]) : i # j => batch'[g][i] # batch'[g][j]
               /\ view'[g].verdict # "none" => batch'[g] # << >> /\ ~Exhausted(outbox'[Head(batch'[g])])
    <3>1. CASE g = f
      BY <1>1, <1>3, <3>1
    <3>2. CASE g # f
      <4>1. /\ \A i \in 1..Len(batch[g]) : /\ batch[g][i] \in DOMAIN draft[g]
                                            /\ draft[g][batch[g][i]] = outbox[batch[g][i]]
            /\ \A i, j \in 1..Len(batch[g]) : i # j => batch[g][i] # batch[g][j]
            /\ view[g].verdict # "none" => batch[g] # << >> /\ ~Exhausted(outbox[Head(batch[g])])
        BY DEF IInv, Left, Current
      <4> QED
        BY <1>1, <1>3, <3>2, <4>1
    <3> QED
      BY <3>1, <3>2
  <2> QED
    BY <2>1 DEF Left, Current
<1>7. RequestsSound'
  BY <1>1, <1>2, RequestsStay
<1>8. Unqueued'
  BY <1>1, <1>2 DEF IInv, Unqueued
<1> QED
  BY <1>4, <1>5, <1>6, <1>7, <1>8 DEF IInv

(* A flush claims rows that wait, that no lease holds and no other flush.  *)
LEMMA ClaimIs ==
  ASSUME IInv, NEW f \in Flushers, FlushStart(f)
  PROVE  LET mine == Oldest({m \in Ids : Claimable(m)}, Batch)
             rows == {mine[k] : k \in DOMAIN mine}
         IN  /\ mine \in Seq(Msgs) /\ Len(mine) \in Nat /\ Len(mine) <= Batch /\ mine # << >>
             /\ batch' = [batch EXCEPT ![f] = mine] /\ draft[f] = << >>
             /\ draft' = [draft EXCEPT ![f] = [m \in rows |-> outbox[m]]]
             /\ rows \subseteq Ids /\ \A m \in rows : Claimable(m)
             /\ \A i \in 1..Len(mine) : mine[i] \in rows
             /\ \A i, j \in 1..Len(mine) : i # j => mine[i] # mine[j]
<1> DEFINE ids == {m \in Ids : Claimable(m)}
           mine == Oldest(ids, Batch)
<1>1. Batch \in Nat /\ ids \in SUBSET Ids /\ \A m \in ids : Claimable(m)
  BY OutboxAssumption
<1>2. /\ mine # << >> /\ batch' = [batch EXCEPT ![f] = mine] /\ draft[f] = << >>
      /\ draft' = [draft EXCEPT ![f] = [m \in {mine[k] : k \in DOMAIN mine} |-> outbox[m]]]
  BY DEF FlushStart
<1> HIDE DEF ids
<1>3. /\ mine \in Seq(Msgs) /\ Len(mine) <= Batch /\ \A i \in 1..Len(mine) : mine[i] \in ids
      /\ \A i, j \in 1..Len(mine) : i # j => mine[i] # mine[j]
  BY <1>1, OldestIs DEF IInv
<1> HIDE DEF mine
<1>4. DOMAIN mine = 1..Len(mine) /\ Len(mine) \in Nat
  BY <1>3
<1>5. {mine[k] : k \in DOMAIN mine} \subseteq ids
  BY <1>3, <1>4
<1> QED
  BY <1>1, <1>2, <1>3, <1>4, <1>5 DEF mine, ids

LEMMA StartStep ==
  ASSUME IInv, NEW f \in Flushers, FlushStart(f)
  PROVE  IInv'
<1> DEFINE mine == Oldest({m \in Ids : Claimable(m)}, Batch)
           rows == {mine[k] : k \in DOMAIN mine}
           d == [m \in rows |-> outbox[m]]
<1>1. /\ mine \in Seq(Msgs)
      /\ batch' = [batch EXCEPT ![f] = mine] /\ draft' = [draft EXCEPT ![f] = d]
      /\ rows \subseteq Ids /\ \A m \in rows : Claimable(m)
      /\ \A i \in 1..Len(mine) : mine[i] \in rows
      /\ \A i, j \in 1..Len(mine) : i # j => mine[i] # mine[j]
  BY ClaimIs
<1>2. /\ UNCHANGED <<SendState, outbox, quota, spent, Rest, RestState, epoch>>
      /\ faults' = faults /\ view' = view /\ draft[f] = << >>
  BY DEF FlushStart
<1> HIDE DEF mine, rows
<1>3. DOMAIN d = rows /\ \A m \in rows : d[m] = outbox[m] /\ outbox[m] \in Row
  BY <1>1, Outbox DEF IInv
<1>4. d \in [DOMAIN d -> Row]
  BY <1>3
<1> HIDE DEF d
<1>5. \A m \in rows : Waiting(m) /\ outbox[m].lease # "live" /\ ~RowLocked(m)
  BY <1>1 DEF Claimable
<1>6. \A g \in Flushers \ {f} : DOMAIN d \cap DOMAIN draft[g] = {}
  BY <1>3, <1>5 DEF RowLocked
<1>7. ASSUME NEW m \in DOMAIN d PROVE Drafted(f, m)'
  <2>1. m \in Ids /\ Waiting(m) /\ outbox[m].lease # "live" /\ d[m] = outbox[m]
    BY <1>1, <1>3, <1>5, <1>7
  <2>2. draft'[f] = d /\ outbox' = outbox
    BY <1>1, <1>2 DEF IInv, TypeOK
  <2>3. outbox[m].status \in {"pending", "failed"}
    BY <2>1 DEF Waiting
  <2> QED
    BY <2>1, <2>2, <2>3 DEF Drafted, Waiting, Ids
<1>8. view[f].verdict = "none" /\ view[f] \in View /\ view' = [view EXCEPT ![f] = view[f]] /\ faults \in Nat
  <2>1. batch[f] = << >>
    <3>1. batch[f] \in Seq(Msgs) /\ \A i \in 1..Len(batch[f]) : batch[f][i] \in {}
      BY <1>2, EmptySession DEF IInv, Left, TypeOK
    <3>2. batch[f] # << >> => 1 \in 1..Len(batch[f])
      BY <3>1
    <3> QED
      BY <3>1, <3>2
  <2> QED
    BY <1>2, <2>1 DEF IInv, Left, TypeOK
<1>9. \A i \in 1..Len(mine) : mine[i] \in DOMAIN d /\ d[mine[i]] = outbox[mine[i]]
  BY <1>1, <1>3
<1>10. DOMAIN draft' = Flushers /\ draft'[f] = d /\ \A g \in Flushers \ {f} : draft'[g] = draft[g]
  BY <1>1 DEF IInv, TypeOK
<1> DEFINE v == view[f]
<1>11. /\ DOMAIN d \subseteq Ids /\ faults' \in Nat
       /\ (v.verdict # "none" => mine # << >> /\ ~Exhausted(outbox[Head(mine)]))
       /\ view' = [view EXCEPT ![f] = v] /\ batch' = [batch EXCEPT ![f] = mine]
       /\ \A i, j \in 1..Len(mine) : i # j => mine[i] # mine[j]
       /\ mine \in Seq(Msgs) /\ v \in View
  BY <1>1, <1>2, <1>3, <1>8
<1>12. \A m \in DOMAIN d : Drafted(f, m)'
  BY <1>7
<1> HIDE DEF v
<1>13. UNCHANGED <<SendState, outbox, quota, spent, Rest, RestState, epoch>>
  BY <1>2
<1>14. v.verdict # "none" => mine # << >> /\ ~Exhausted(outbox[Head(mine)])
  BY <1>11
<1> QED
  BY <1>4, <1>6, <1>9, <1>10, <1>11, <1>12, <1>13, <1>14, SessionStep

LEMMA CheckStep ==
  ASSUME IInv, NEW f \in Flushers, CheckQuota(f)
  PROVE  IInv'
<1> DEFINE s == IF Allowed(Seen(f)) THEN "allowed" ELSE "over"
           v == [view[f] EXCEPT !.verdict = s, !.val = Seen(f)]
<1>1. /\ view' = [view EXCEPT ![f] = v] /\ batch[f] # << >> /\ ~Exhausted(Current(f))
      /\ UNCHANGED <<SendState, outbox, quota, spent, Rest, RestState, epoch>>
      /\ faults' = faults /\ batch' = batch /\ draft' = draft
  BY DEF CheckQuota
<1>2. v \in View
  <2>1. view[f] \in View /\ Seen(f) \in Counter
    BY SeenTyped DEF IInv, TypeOK
  <2>2. s \in {"none", "allowed", "over"}
    OBVIOUS
  <2> HIDE DEF s
  <2> QED
    BY <2>1, <2>2 DEF View
<1> HIDE DEF v
<1>3. /\ DOMAIN draft' = Flushers /\ batch' = [batch EXCEPT ![f] = batch[f]]
      /\ batch[f] \in Seq(Msgs) /\ DOMAIN draft[f] \subseteq Ids /\ draft[f] \in [DOMAIN draft[f] -> Row]
      /\ faults \in Nat
  BY <1>1 DEF IInv, TypeOK
<1>4. \A m \in DOMAIN draft[f] : Drafted(f, m)'
  BY <1>1 DEF IInv, Locks, Drafted, Waiting, Ids
<1>5. /\ \A g \in Flushers \ {f} : DOMAIN draft[f] \cap DOMAIN draft[g] = {}
      /\ \A i \in 1..Len(batch[f]) : batch[f][i] \in DOMAIN draft[f] /\ draft[f][batch[f][i]] = outbox[batch[f][i]]
      /\ \A i, j \in 1..Len(batch[f]) : i # j => batch[f][i] # batch[f][j]
  BY DEF IInv, Locks, Left
<1> QED
  BY <1>1, <1>2, <1>3, <1>4, <1>5, SessionStep DEF Current

LEMMA AbortStep ==
  ASSUME IInv, NEW f \in Flushers, FlushAbort(f)
  PROVE  IInv'
<1> DEFINE d == << >>
           b == << >>
<1>1. /\ UNCHANGED <<SendState, outbox, quota, spent, Rest, RestState, epoch>> /\ faults' \in Nat
      /\ draft' = [draft EXCEPT ![f] = d] /\ batch' = [batch EXCEPT ![f] = b]
      /\ view' = [view EXCEPT ![f] = NoView]
  BY DEF FlushAbort, IInv, TypeOK
<1>2. b \in Seq(Msgs) /\ \A i \in 1..Len(b) : FALSE
  OBVIOUS
<1>3. DOMAIN d = {} /\ d \in [DOMAIN d -> Row] /\ NoView \in View /\ NoView.verdict = "none"
  BY EmptySession
<1> HIDE DEF d, b
<1>4. /\ DOMAIN draft' = Flushers /\ draft'[f] = d
      /\ \A g \in Flushers \ {f} : draft'[g] = draft[g]
  BY <1>1 DEF IInv, TypeOK
<1>5. /\ \A m \in DOMAIN d : Drafted(f, m)' /\ DOMAIN d \subseteq Ids
      /\ \A g \in Flushers \ {f} : DOMAIN d \cap DOMAIN draft[g] = {}
  BY <1>3
<1>6. /\ \A i \in 1..Len(b) : b[i] \in DOMAIN d /\ d[b[i]] = outbox[b[i]]
      /\ \A i, j \in 1..Len(b) : i # j => b[i] # b[j]
  BY <1>2
<1> QED
  BY <1>1, <1>2, <1>3, <1>4, <1>5, <1>6, SessionStep

(* Nothing of the batch is left: the rows the flush holds are written. *)
LEMMA CommitBatchStep ==
  ASSUME IInv, NEW f \in Flushers, FlushCommit(f)
  PROVE  IInv' /\ Ids' = Ids
<1>1. /\ batch[f] = << >>
      /\ outbox' = [m \in Ids |-> IF m \in DOMAIN draft[f] THEN draft[f][m] ELSE outbox[m]]
      /\ quota' = IF view[f].dirty THEN view[f].val ELSE quota
      /\ draft' = [draft EXCEPT ![f] = << >>] /\ view' = [view EXCEPT ![f] = NoView]
      /\ delivered' = delivered /\ tries' = tries /\ batch' = batch /\ spent' = spent /\ faults' = faults
      /\ job' = job /\ expiries' = expiries /\ req' = req /\ ops' = ops /\ epoch' = epoch
  BY DEF FlushCommit, SendState, Rest, RestState
<1>2. /\ DOMAIN outbox' = Ids /\ outbox' = [m \in Ids |-> outbox'[m]]
      /\ \A m \in Ids : outbox'[m] \in Row /\ (m \notin DOMAIN draft[f] => outbox'[m] = outbox[m])
  BY <1>1, Outbox, DraftTyped DEF IInv
<1>3. outbox' \in Seq(Row) /\ Len(outbox') = Len(outbox) /\ Ids' = Ids
  BY <1>2, Rewritten DEF IInv
<1>4. /\ DOMAIN draft' = Flushers /\ draft'[f] = << >> /\ view'[f] = NoView
      /\ \A g \in Flushers : g # f => draft'[g] = draft[g] /\ view'[g] = view[g]
      /\ view' \in [Flushers -> View]
  BY <1>1, EmptySession DEF IInv, TypeOK
<1>5. \A g \in Flushers : g # f => \A m \in DOMAIN draft[g] : outbox'[m] = outbox[m]
  BY <1>2, DraftTyped DEF IInv, Locks
<1>6. TypeOK'
  <2>1. \A g \in Flushers : DOMAIN draft'[g] \subseteq Ids /\ draft'[g] \in [DOMAIN draft'[g] -> Row]
    BY <1>4, EmptySession DEF IInv, TypeOK
  <2>2. quota' \in Counter
    BY <1>1 DEF IInv, TypeOK, View
  <2> QED
    BY <1>1, <1>3, <1>4, <2>1, <2>2 DEF IInv, TypeOK
<1>7. Locks'
  <2>1. ASSUME NEW g \in Flushers, NEW m \in DOMAIN draft'[g] PROVE Drafted(g, m)'
    <3>1. g # f /\ m \in DOMAIN draft[g] /\ draft'[g] = draft[g]
      BY <1>4, <2>1, EmptySession
    <3>2. Drafted(g, m) /\ outbox'[m] = outbox[m]
      BY <1>5, <3>1 DEF IInv, Locks
    <3> QED
      BY <1>3, <3>1, <3>2 DEF Drafted, Waiting
  <2>2. ASSUME NEW g \in Flushers, NEW k \in Flushers, g # k PROVE DOMAIN draft'[g] \cap DOMAIN draft'[k] = {}
    BY <1>4, <2>2, EmptySession DEF IInv, Locks
  <2> QED
    BY <2>1, <2>2 DEF Locks
<1>8. Left'
  <2>1. ASSUME NEW g \in Flushers
        PROVE  /\ \A i \in 1..Len(batch'[g]) : /\ batch'[g][i] \in DOMAIN draft'[g]
                                               /\ draft'[g][batch'[g][i]] = outbox'[batch'[g][i]]
               /\ \A i, j \in 1..Len(batch'[g]) : i # j => batch'[g][i] # batch'[g][j]
               /\ view'[g].verdict # "none" => batch'[g] # << >> /\ ~Exhausted(outbox'[Head(batch'[g])])
    <3>1. CASE g = f
      BY <1>1, <1>4, <3>1, EmptySession
    <3>2. CASE g # f
      <4>1. /\ \A i \in 1..Len(batch[g]) : /\ batch[g][i] \in DOMAIN draft[g]
                                            /\ draft[g][batch[g][i]] = outbox[batch[g][i]]
            /\ \A i, j \in 1..Len(batch[g]) : i # j => batch[g][i] # batch[g][j]
            /\ view[g].verdict # "none" => batch[g] # << >> /\ ~Exhausted(outbox[Head(batch[g])])
        BY DEF IInv, Left, Current
      <4>2. batch[g] # << >> => Head(batch[g]) \in DOMAIN draft[g]
        BY HeadIs
      <4>3. batch'[g] = batch[g] /\ draft'[g] = draft[g] /\ view'[g] = view[g]
        BY <1>1, <1>4, <3>2
      <4>4. \A i \in 1..Len(batch[g]) : outbox'[batch[g][i]] = outbox[batch[g][i]]
        BY <1>5, <3>2, <4>1
      <4>5. batch[g] # << >> => outbox'[Head(batch[g])] = outbox[Head(batch[g])]
        BY <1>5, <3>2, <4>2
      <4> QED
        BY <4>1, <4>3, <4>4, <4>5
    <3> QED
      BY <3>1, <3>2
  <2> QED
    BY <2>1 DEF Left, Current
<1>9. RequestsSound'
  BY <1>1, <1>3, RequestsStay
<1>10. Unqueued'
  BY <1>1, <1>3 DEF IInv, Unqueued
<1> QED
  BY <1>3, <1>6, <1>7, <1>8, <1>9, <1>10 DEF IInv


JobStates == {"none", "claimed", "delivered", "undelivered"}

(* A claim leases its rows to the worker. *)
LEMMA LeasedIs ==
  ASSUME NEW row \in Row, NEW w \in Workers
  PROVE  LET new == [row EXCEPT !.status = "processing", !.lease = "live", !.owner = w]
         IN  /\ new \in Row /\ new.status = "processing" /\ new.lease = "live" /\ new.owner = w
             /\ new.attempts = row.attempts
<1> DEFINE a == [row EXCEPT !.status = "processing"]
           b == [a EXCEPT !.lease = "live"]
           c == [b EXCEPT !.owner = w]
<1>1. a \in Row /\ a.status = "processing" /\ a.attempts = row.attempts
  BY SetStatus DEF Statuses
<1>2. c = [row EXCEPT !.status = "processing", !.lease = "live", !.owner = w]
  OBVIOUS
<1> HIDE DEF a
<1>3. b \in Row /\ b.status = a.status /\ b.attempts = a.attempts /\ b.lease = "live"
  BY <1>1, SetLease
<1> HIDE DEF b
<1>4. c \in Row /\ c.status = b.status /\ c.attempts = b.attempts /\ c.lease = b.lease /\ c.owner = w
  BY <1>3, SetOwner
<1> HIDE DEF c
<1> QED
  BY <1>1, <1>2, <1>3, <1>4

Wins(w, mine) ==
  /\ \A m \in mine : /\ Waiting(m) /\ ~RowLocked(m) /\ outbox'[m] \in Row
                     /\ outbox'[m].status = "processing" /\ outbox'[m].lease = "live"
                     /\ outbox'[m].owner = w /\ outbox'[m].attempts = outbox[m].attempts
  /\ \A m \in Ids \ mine : outbox'[m] = outbox[m]
  /\ DOMAIN outbox' = Ids /\ outbox' = [m \in Ids |-> outbox'[m]]
  /\ job' \in [Workers -> [Msgs -> JobStates]]
  /\ \A m \in mine : job'[w][m] = "claimed"
  /\ \A m \in Msgs \ mine : job'[w][m] = job[w][m]
  /\ \A u \in Workers \ {w} : job'[u] = job[u]
  /\ UNCHANGED <<SendState, FlushState, RestState, expiries, epoch>>

LEMMA WorkerClaimIs ==
  ASSUME IInv, NEW w \in Workers, NEW n \in 1..MaxMsgs, WorkerClaim(w, n)
  PROVE  \E mine \in SUBSET Ids : Wins(w, mine)
<1> DEFINE ids == {m \in Ids : Waiting(m)}
           won == Oldest(ids, n)
           mine == {won[k] : k \in DOMAIN won}
           jobs == [m \in Msgs |-> IF m \in mine THEN "claimed" ELSE job[w][m]]
<1>1. /\ \A m \in mine : ~RowLocked(m)
      /\ outbox' = [m \in Ids |-> IF m \in mine
                     THEN [outbox[m] EXCEPT !.status = "processing", !.lease = "live", !.owner = w]
                     ELSE outbox[m]]
      /\ job' = [job EXCEPT ![w] = jobs]
      /\ UNCHANGED <<SendState, FlushState, RestState, expiries, epoch>>
  BY DEF WorkerClaim
<1>2. n \in Nat /\ ids \in SUBSET Ids /\ \A m \in ids : Waiting(m)
  BY OutboxAssumption
<1> HIDE DEF ids
<1>3. won \in Seq(Msgs) /\ \A i \in 1..Len(won) : won[i] \in ids
  BY <1>2, OldestIs DEF IInv
<1> HIDE DEF won
<1>4. mine \in SUBSET Ids /\ \A m \in mine : Waiting(m)
  BY <1>2, <1>3
<1> HIDE DEF mine
<1>5. \A m \in mine : /\ outbox'[m] \in Row
                      /\ outbox'[m].status = "processing" /\ outbox'[m].lease = "live"
                      /\ outbox'[m].owner = w /\ outbox'[m].attempts = outbox[m].attempts
  <2> SUFFICES ASSUME NEW m \in mine
               PROVE  /\ outbox'[m] \in Row
                      /\ outbox'[m].status = "processing" /\ outbox'[m].lease = "live"
                      /\ outbox'[m].owner = w /\ outbox'[m].attempts = outbox[m].attempts
    OBVIOUS
  <2> DEFINE row == outbox[m]
             new == [row EXCEPT !.status = "processing", !.lease = "live", !.owner = w]
  <2>1. row \in Row /\ outbox'[m] = new
    BY <1>1, <1>4, Outbox DEF IInv
  <2> HIDE DEF row
  <2>2. /\ new \in Row /\ new.status = "processing" /\ new.lease = "live" /\ new.owner = w
        /\ new.attempts = row.attempts
    BY <2>1, LeasedIs
  <2> HIDE DEF new
  <2> QED
    BY <2>1, <2>2 DEF row
<1>6. /\ DOMAIN outbox' = Ids /\ outbox' = [m \in Ids |-> outbox'[m]]
      /\ \A m \in Ids \ mine : outbox'[m] = outbox[m]
  BY <1>1
<1>7. jobs \in [Msgs -> JobStates] /\ job \in [Workers -> [Msgs -> JobStates]]
  BY DEF IInv, TypeOK, JobStates
<1>8. (\A m \in mine : jobs[m] = "claimed") /\ \A m \in Msgs \ mine : jobs[m] = job[w][m]
  <2>1. mine \subseteq Msgs
    BY <1>4, Outbox DEF IInv
  <2> QED
    BY <2>1
<1> HIDE DEF jobs
<1>9. /\ job' \in [Workers -> [Msgs -> JobStates]] /\ job'[w] = jobs
      /\ \A u \in Workers \ {w} : job'[u] = job[u]
  BY <1>1, <1>7
<1>10. Wins(w, mine)
  BY <1>1, <1>4, <1>5, <1>6, <1>8, <1>9 DEF Wins
<1> QED
  BY <1>4, <1>10

LEMMA WorkerClaimStep ==
  ASSUME IInv, NEW w \in Workers, NEW n \in 1..MaxMsgs, WorkerClaim(w, n)
  PROVE  IInv' /\ Ids' = Ids
<1>0. PICK mine \in SUBSET Ids : Wins(w, mine)
  BY WorkerClaimIs
<1>1. /\ \A m \in mine : ~RowLocked(m) /\ outbox'[m] \in Row
      /\ \A m \in Ids \ mine : outbox'[m] = outbox[m]
      /\ DOMAIN outbox' = Ids /\ outbox' = [m \in Ids |-> outbox'[m]]
      /\ job' \in [Workers -> [Msgs -> JobStates]]
      /\ \A m \in Msgs \ mine : job'[w][m] = job[w][m]
      /\ \A u \in Workers \ {w} : job'[u] = job[u]
      /\ UNCHANGED <<SendState, FlushState, RestState, expiries, epoch>>
  BY <1>0 DEF Wins
<1>2. \A m \in Ids : outbox'[m] \in Row /\ (outbox'[m] # outbox[m] => ~RowLocked(m))
  BY <1>1, Outbox DEF IInv
<1>3. \A u \in Workers : \A m \in Msgs \ Ids : job'[u][m] = job[u][m]
  BY <1>1
<1>4. req' = req /\ ops' = ops /\ expiries' = expiries /\ UNCHANGED <<SendState, FlushState, epoch>>
  BY <1>1 DEF RestState
<1> QED
  BY <1>1, <1>2, <1>3, <1>4, RowsStep DEF IInv, TypeOK, JobStates

LEMMA WorkerSendStep ==
  ASSUME IInv, NEW w \in Workers, NEW m \in Msgs, NEW ok \in BOOLEAN, WorkerSend(w, m, ok)
  PROVE  /\ IInv' /\ m \in Ids
         /\ job'[w][m] \in {"delivered", "undelivered"} /\ (job'[w][m] = "delivered" <=> ok)
         /\ \A u \in Workers, k \in Msgs : ~(u = w /\ k = m) => job'[u][k] = job[u][k]
         /\ delivered'[m] = (IF ok THEN delivered[m] + 1 ELSE delivered[m]) /\ tries'[m] = tries[m] + 1
         /\ \A k \in Msgs : k # m => delivered'[k] = delivered[k] /\ tries'[k] = tries[k]
         /\ UNCHANGED <<outbox, FlushState, RestState, expiries, epoch>>
<1> DEFINE s == IF ok THEN "delivered" ELSE "undelivered"
           jobs == [job[w] EXCEPT ![m] = s]
           sent == IF ok THEN delivered[m] + 1 ELSE delivered[m]
<1>1. /\ job[w][m] = "claimed" /\ job' = [job EXCEPT ![w] = jobs]
      /\ tries' = [tries EXCEPT ![m] = tries[m] + 1] /\ delivered' = [delivered EXCEPT ![m] = sent]
      /\ UNCHANGED <<outbox, FlushState, RestState, expiries, epoch>>
  BY DEF WorkerSend
<1>2. /\ job \in [Workers -> [Msgs -> JobStates]] /\ delivered \in [Msgs -> Nat] /\ tries \in [Msgs -> Nat]
      /\ sent \in Nat
  BY DEF IInv, TypeOK, JobStates
<1>3. s \in JobStates /\ s \in {"delivered", "undelivered"} /\ (s = "delivered" <=> ok)
  BY DEF JobStates
<1> HIDE DEF s, sent
<1>4. jobs \in [Msgs -> JobStates] /\ jobs[m] = s /\ \A k \in Msgs : k # m => jobs[k] = job[w][k]
  BY <1>2, <1>3
<1> HIDE DEF jobs
<1>5. /\ job' \in [Workers -> [Msgs -> JobStates]] /\ job'[w] = jobs
      /\ \A u \in Workers : u # w => job'[u] = job[u]
  BY <1>1, <1>2, <1>4
<1>6. m \in Ids
  BY <1>1 DEF IInv, Unqueued
<1>7. /\ delivered' \in [Msgs -> Nat] /\ tries' \in [Msgs -> Nat]
      /\ delivered'[m] = sent /\ tries'[m] = tries[m] + 1
      /\ \A k \in Msgs : k # m => delivered'[k] = delivered[k] /\ tries'[k] = tries[k]
  BY <1>1, <1>2
<1>8. /\ outbox' = outbox /\ quota' = quota /\ batch' = batch /\ draft' = draft /\ view' = view
      /\ spent' = spent /\ faults' = faults /\ req' = req /\ ops' = ops /\ expiries' = expiries
      /\ epoch' = epoch /\ Ids' = Ids
  BY <1>1 DEF FlushState, RestState, Ids
<1>9. \A u \in Workers, k \in Msgs : ~(u = w /\ k = m) => job'[u][k] = job[u][k]
  BY <1>4, <1>5
<1>10. TypeOK'
  BY <1>5, <1>7, <1>8 DEF IInv, TypeOK, JobStates
<1>11. Locks' /\ Left'
  BY <1>8, LocksStay
<1>12. RequestsSound'
  BY <1>8, RequestsStay
<1>13. Unqueued'
  BY <1>6, <1>7, <1>8, <1>9 DEF IInv, Unqueued
<1> QED
  BY <1>1, <1>3, <1>4, <1>5, <1>6, <1>7, <1>9, <1>10, <1>11, <1>12, <1>13 DEF IInv, sent

LEMMA ReleaseStep ==
  ASSUME IInv, ReleaseExpired
  PROVE  /\ IInv' /\ Ids' = Ids
         /\ \A m \in Ids : \/ outbox'[m] = outbox[m]
                           \/ /\ outbox[m].status = "processing" /\ outbox[m].lease = "expired"
                              /\ outbox'[m] = Release(outbox[m])
         /\ \A m \in Ids : outbox'[m].status # "processing" \/ outbox'[m].lease # "expired"
         /\ UNCHANGED <<SendState, FlushState, Rest, RestState, epoch>>
<1> DEFINE stale == {m \in Ids : outbox[m].status = "processing" /\ outbox[m].lease = "expired"}
<1>1. /\ outbox' = [m \in Ids |-> IF m \in stale THEN Release(outbox[m]) ELSE outbox[m]]
      /\ UNCHANGED <<SendState, FlushState, Rest, RestState, epoch>>
  BY DEF ReleaseExpired
<1>2. /\ DOMAIN outbox' = Ids /\ outbox' = [m \in Ids |-> outbox'[m]]
      /\ \A m \in stale : outbox'[m] = Release(outbox[m])
      /\ \A m \in Ids \ stale : outbox'[m] = outbox[m]
  <2> HIDE DEF stale
  <2>1. \A m \in Ids : outbox'[m] = IF m \in stale THEN Release(outbox[m]) ELSE outbox[m]
    BY <1>1
  <2>2. stale \subseteq Ids
    BY DEF stale
  <2> QED
    BY <1>1, <2>1, <2>2
<1>3. \A m \in stale : ~RowLocked(m)
  BY DEF IInv, RowLocked, Locks, Drafted, Waiting
<1>4. \A m \in Ids : outbox'[m] \in Row /\ (outbox'[m] # outbox[m] => ~RowLocked(m))
  BY <1>2, <1>3, Outbox, ReleaseIs DEF IInv
<1>5. job' = job /\ req' = req /\ ops' = ops /\ expiries' = expiries /\ UNCHANGED <<SendState, FlushState, epoch>>
  BY <1>1 DEF Rest, RestState
<1>6. \A m \in Ids : outbox'[m].status # "processing" \/ outbox'[m].lease # "expired"
  <2> SUFFICES ASSUME NEW m \in Ids PROVE outbox'[m].status # "processing" \/ outbox'[m].lease # "expired"
    OBVIOUS
  <2>1. outbox[m] \in Row
    BY Outbox DEF IInv
  <2> QED
    BY <1>2, <2>1, ReleaseIs
<1> QED
  BY <1>1, <1>2, <1>4, <1>5, <1>6, RowsStep DEF IInv, TypeOK


(* A request loads a row and decides what it wants. *)
LEMMA LoadStep ==
  ASSUME IInv, NEW r \in Requests, NEW op \in Ops \cup {"complete", "fail"}, NEW m \in Ids, NEW wanted \in Row,
         Load(r, op, m, wanted), ops' \in Nat,
         job' \in [Workers -> [Msgs -> JobStates]],
         \A w \in Workers : \A k \in Msgs \ Ids : job'[w][k] = job[w][k],
         \/ op \in Ops /\ Accepts(op, outbox[m]) /\ wanted = Wanted(op, outbox[m])
         \/ op = "complete" /\ outbox[m].status = "processing" /\ wanted = Completed(outbox[m])
         \/ op = "fail" /\ outbox[m].status = "processing" /\ wanted = FailedByWorker(outbox[m])
  PROVE  /\ IInv' /\ Ids' = Ids
         /\ req[r] = NoReq /\ req'[r] = [op |-> op, msg |-> m, loaded |-> outbox[m], wanted |-> wanted]
         /\ \A s \in Requests : s # r => req'[s] = req[s]
         /\ UNCHANGED <<SendState, FlushState, outbox, expiries, epoch>>
<1> DEFINE q == [op |-> op, msg |-> m, loaded |-> outbox[m], wanted |-> wanted]
<1>1. /\ req[r] = NoReq /\ req' = [req EXCEPT ![r] = q]
      /\ UNCHANGED <<SendState, FlushState, outbox, expiries, epoch>>
  BY DEF Load
<1>2. outbox[m] \in Row /\ m \in Msgs
  BY Outbox DEF IInv
<1>3. q \in Request /\ q.op = op /\ q.msg = m /\ q.loaded = outbox[m] /\ q.wanted = wanted
  BY <1>2 DEF Request
<1>4. Sound(q)
  <2> HIDE DEF q
  <2> QED
    BY <1>3 DEF Sound
<1> HIDE DEF q
<1>5. /\ req' \in [Requests -> Request \cup {NoReq}] /\ req'[r] = q
      /\ \A s \in Requests : s # r => req'[s] = req[s]
  BY <1>1, <1>3 DEF IInv, TypeOK
<1>6. /\ outbox' = outbox /\ quota' = quota /\ batch' = batch /\ draft' = draft /\ view' = view
      /\ spent' = spent /\ faults' = faults /\ expiries' = expiries
      /\ epoch' = epoch /\ delivered' = delivered /\ tries' = tries /\ Ids' = Ids
  BY <1>1 DEF FlushState, SendState, Ids
<1>7. TypeOK'
  BY <1>5, <1>6 DEF IInv, TypeOK, JobStates
<1>8. Locks' /\ Left'
  BY <1>6, LocksStay
<1>9. RequestsSound'
  <2>1. ASSUME NEW s \in Requests, req'[s] # NoReq PROVE Sound(req'[s])
    <3>1. CASE s = r
      BY <1>4, <1>5, <3>1
    <3>2. CASE s # r
      BY <1>5, <2>1, <3>2 DEF IInv, RequestsSound
    <3> QED
      BY <3>1, <3>2
  <2> QED
    BY <1>6, <2>1 DEF RequestsSound, Sound
<1>10. Unqueued'
  BY <1>6 DEF IInv, Unqueued
<1> QED
  BY <1>1, <1>5, <1>6, <1>7, <1>8, <1>9, <1>10 DEF IInv, q

LEMMA OperatorStep ==
  ASSUME IInv, NEW r \in Requests, NEW op \in Ops, NEW m \in Msgs, OperatorLoad(r, op, m)
  PROVE  /\ IInv' /\ Ids' = Ids /\ m \in Ids
         /\ req'[r] = [op |-> op, msg |-> m, loaded |-> outbox[m], wanted |-> Wanted(op, outbox[m])]
         /\ req[r] = NoReq /\ \A s \in Requests : s # r => req'[s] = req[s]
         /\ UNCHANGED <<SendState, FlushState, outbox, job, expiries, epoch>> /\ ops' = ops + 1
<1>1. /\ m \in Ids /\ Accepts(op, outbox[m]) /\ ops' = ops + 1 /\ job' = job
      /\ Load(r, op, m, Wanted(op, outbox[m]))
  BY DEF OperatorLoad
<1>2. outbox[m] \in Row
  BY <1>1, Outbox DEF IInv
<1>3. Wanted(op, outbox[m]) \in Row
  BY <1>1, <1>2, WantedIs
<1>4. ops' \in Nat /\ job' \in [Workers -> [Msgs -> JobStates]]
  BY <1>1 DEF IInv, TypeOK, JobStates
<1> QED
  BY <1>1, <1>3, <1>4, LoadStep

ReportEffect(r, w, m) ==
  /\ Ids' = Ids /\ m \in Ids
  /\ job[w][m] \in {"delivered", "undelivered"} /\ job'[w][m] = "none"
  /\ \A u \in Workers, k \in Msgs : ~(u = w /\ k = m) => job'[u][k] = job[u][k]
  /\ UNCHANGED <<SendState, FlushState, outbox, ops, expiries, epoch>>
  /\ \/ /\ job[w][m] = "delivered" /\ LeasedBy(outbox[m], w) /\ req[r] = NoReq
        /\ req'[r] = [op |-> "complete", msg |-> m, loaded |-> outbox[m], wanted |-> Completed(outbox[m])]
        /\ \A s \in Requests : s # r => req'[s] = req[s]
     \/ /\ job[w][m] = "undelivered" /\ LeasedBy(outbox[m], w) /\ req[r] = NoReq
        /\ req'[r] = [op |-> "fail", msg |-> m, loaded |-> outbox[m], wanted |-> FailedByWorker(outbox[m])]
        /\ \A s \in Requests : s # r => req'[s] = req[s]
     \/ ~LeasedBy(outbox[m], w) /\ req' = req

LEMMA ReportStep ==
  ASSUME IInv, NEW r \in Requests, NEW w \in Workers, NEW m \in Msgs, WorkerReport(r, w, m)
  PROVE  IInv' /\ ReportEffect(r, w, m)
<1> DEFINE jobs == [job[w] EXCEPT ![m] = "none"]
<1>1. job[w][m] \in {"delivered", "undelivered"} /\ job' = [job EXCEPT ![w] = jobs] /\ ops' = ops
  BY DEF WorkerReport
<1>2. job \in [Workers -> [Msgs -> JobStates]] /\ jobs \in [Msgs -> JobStates] /\ jobs[m] = "none"
      /\ \A k \in Msgs : k # m => jobs[k] = job[w][k]
  BY DEF IInv, TypeOK, JobStates
<1> HIDE DEF jobs
<1>3. /\ job' \in [Workers -> [Msgs -> JobStates]] /\ job'[w] = jobs
      /\ \A u \in Workers : u # w => job'[u] = job[u]
  BY <1>1, <1>2
<1>4. job'[w][m] = "none" /\ \A u \in Workers, k \in Msgs : ~(u = w /\ k = m) => job'[u][k] = job[u][k]
  BY <1>2, <1>3
<1>5. m \in Ids
  BY <1>1 DEF IInv, Unqueued
<1>6. outbox[m] \in Row /\ ops' \in Nat
  BY <1>1, <1>5, Outbox DEF IInv, TypeOK
<1>7. \A u \in Workers : \A k \in Msgs \ Ids : job'[u][k] = job[u][k]
  BY <1>4, <1>5
<1>8. CASE LeasedBy(outbox[m], w) /\ job[w][m] = "delivered" /\ Load(r, "complete", m, Completed(outbox[m]))
  <2>1. outbox[m].status = "processing" /\ Completed(outbox[m]) \in Row
    BY <1>6, <1>8, CompletedIs DEF LeasedBy
  <2> DEFINE c == "complete"
  <2>2. c \in Ops \cup {"complete", "fail"} /\ c = "complete" /\ Load(r, c, m, Completed(outbox[m]))
    BY <1>8
  <2> HIDE DEF c
  <2>3. /\ IInv' /\ Ids' = Ids
        /\ req[r] = NoReq /\ req'[r] = [op |-> c, msg |-> m, loaded |-> outbox[m], wanted |-> Completed(outbox[m])]
        /\ \A s \in Requests : s # r => req'[s] = req[s]
        /\ UNCHANGED <<SendState, FlushState, outbox, expiries, epoch>>
    BY <1>3, <1>5, <1>6, <1>7, <2>1, <2>2, LoadStep
  <2> QED
    BY <1>1, <1>4, <1>5, <1>8, <2>3 DEF c, ReportEffect
<1>9. CASE LeasedBy(outbox[m], w) /\ job[w][m] = "undelivered" /\ Load(r, "fail", m, FailedByWorker(outbox[m]))
  <2>1. outbox[m].status = "processing" /\ FailedByWorker(outbox[m]) \in Row
    BY <1>6, <1>9, FailedIs DEF LeasedBy
  <2> DEFINE c == "fail"
  <2>2. c \in Ops \cup {"complete", "fail"} /\ c = "fail" /\ Load(r, c, m, FailedByWorker(outbox[m]))
    BY <1>9
  <2> HIDE DEF c
  <2>3. /\ IInv' /\ Ids' = Ids
        /\ req[r] = NoReq /\ req'[r] = [op |-> c, msg |-> m, loaded |-> outbox[m], wanted |-> FailedByWorker(outbox[m])]
        /\ \A s \in Requests : s # r => req'[s] = req[s]
        /\ UNCHANGED <<SendState, FlushState, outbox, expiries, epoch>>
    BY <1>3, <1>5, <1>6, <1>7, <2>1, <2>2, LoadStep
  <2> QED
    BY <1>1, <1>4, <1>5, <1>9, <2>3 DEF c, ReportEffect
<1>10. CASE ~LeasedBy(outbox[m], w) /\ UNCHANGED <<SendState, FlushState, outbox, req, expiries, epoch>>
  <2>1. /\ outbox' = outbox /\ quota' = quota /\ batch' = batch /\ draft' = draft /\ view' = view
        /\ spent' = spent /\ faults' = faults /\ expiries' = expiries /\ req' = req
        /\ epoch' = epoch /\ delivered' = delivered /\ tries' = tries /\ Ids' = Ids
    BY <1>10 DEF FlushState, SendState, Ids
  <2>2. TypeOK'
    BY <1>3, <1>6, <2>1 DEF IInv, TypeOK, JobStates
  <2>3. Locks' /\ Left' /\ RequestsSound'
    BY <2>1, LocksStay, RequestsStay
  <2>4. Unqueued'
    BY <1>7, <2>1 DEF IInv, Unqueued
  <2> QED
    BY <1>1, <1>4, <1>5, <1>10, <2>1, <2>2, <2>3, <2>4 DEF IInv, ReportEffect
<1> QED
  BY <1>8, <1>9, <1>10 DEF WorkerReport

LEMMA CommitStep ==
  ASSUME IInv, NEW r \in Requests, Commit(r)
  PROVE  LET q == req[r]
         IN  /\ IInv' /\ Ids' = Ids
             /\ q \in Request /\ Sound(q) /\ ~RowLocked(q.msg) /\ outbox[q.msg] \in Row
             /\ outbox'[q.msg] = Overlay(outbox[q.msg], q.loaded, q.wanted)
             /\ \A m \in Ids : m # q.msg => outbox'[m] = outbox[m]
             /\ req'[r] = NoReq /\ \A s \in Requests : s # r => req'[s] = req[s]
             /\ UNCHANGED <<SendState, FlushState, Rest, ops, epoch>>
<1> DEFINE q == req[r]
           new == Overlay(outbox[q.msg], q.loaded, q.wanted)
<1>1. /\ q # NoReq /\ ~RowLocked(q.msg) /\ outbox' = [outbox EXCEPT ![q.msg] = new]
      /\ req' = [req EXCEPT ![r] = NoReq]
      /\ UNCHANGED <<SendState, FlushState, Rest, ops, epoch>>
  BY DEF Commit
<1>2. q \in Request /\ Sound(q)
  BY <1>1 DEF IInv, TypeOK, RequestsSound
<1> HIDE DEF q
<1>3. q.msg \in Ids /\ outbox[q.msg] \in Row /\ q.loaded \in Row /\ q.wanted \in Row
  BY <1>2, Outbox DEF IInv, Sound, Request
<1>4. new \in Row
  BY <1>3, OverlayIs
<1> HIDE DEF new
<1>5. /\ DOMAIN outbox' = Ids /\ outbox' = [m \in Ids |-> outbox'[m]] /\ outbox'[q.msg] = new
      /\ \A m \in Ids : m # q.msg => outbox'[m] = outbox[m]
  BY <1>1, <1>3, Outbox DEF IInv
<1>6. /\ req' \in [Requests -> Request \cup {NoReq}] /\ req'[r] = NoReq
      /\ \A s \in Requests : s # r => req'[s] = req[s]
  BY <1>1 DEF IInv, TypeOK
<1>7. \A m \in Ids : outbox'[m] \in Row /\ (outbox'[m] # outbox[m] => ~RowLocked(m))
  BY <1>1, <1>4, <1>5, Outbox DEF IInv
<1>8. job' = job /\ ops' = ops /\ expiries' = expiries /\ UNCHANGED <<SendState, FlushState, epoch>>
  BY <1>1 DEF Rest
<1>9. \A s \in Requests : req'[s] # NoReq => req'[s] = req[s]
  BY <1>6
<1>10. IInv' /\ Ids' = Ids
  BY <1>5, <1>6, <1>7, <1>8, <1>9, RowsStep DEF IInv, TypeOK
<1> QED
  BY <1>1, <1>2, <1>3, <1>5, <1>6, <1>10 DEF q, new

-----------------------------------------------------------------------------
(* The invariant. *)

LEMMA Start == Init => IInv
<1> SUFFICES ASSUME Init PROVE IInv
  OBVIOUS
<1>1. outbox = << >> /\ outbox \in Seq(Row) /\ Len(outbox) = 0 /\ Ids = {}
  BY DEF Init, Ids
<1>2. \A f \in Flushers : draft[f] = << >> /\ DOMAIN draft[f] = {} /\ draft[f] \in [{} -> Row]
  BY EmptySession DEF Init
<1>3. view \in [Flushers -> View] /\ \A f \in Flushers : view[f].verdict = "none"
  BY EmptySession DEF Init
<1>4. batch \in [Flushers -> Seq(Msgs)] /\ \A f \in Flushers : \A i \in 1..Len(batch[f]) : FALSE
  BY DEF Init
<1>5. TypeOK
  <2>1. quota \in Counter /\ epoch \in {0, 1} /\ spent \in Nat /\ faults \in Nat /\ expiries \in Nat /\ ops \in Nat
    BY DEF Init, Counter
  <2>2. /\ job \in [Workers -> [Msgs -> {"none", "claimed", "delivered", "undelivered"}]]
        /\ req \in [Requests -> Request \cup {NoReq}]
        /\ delivered \in [Msgs -> Nat] /\ tries \in [Msgs -> Nat] /\ DOMAIN draft = Flushers
    BY DEF Init
  <2> QED
    BY <1>1, <1>2, <1>3, <1>4, <2>1, <2>2, OutboxAssumption DEF TypeOK
<1>6. Locks /\ Left
  BY <1>2, <1>3, <1>4 DEF Locks, Left
<1>7. RequestsSound /\ Unqueued
  BY DEF Init, RequestsSound, Unqueued
<1> QED
  BY <1>5, <1>6, <1>7 DEF IInv

(* The steps, by the party that takes them. *)
LEMMA NextCases ==
  ASSUME Next
  PROVE  \/ \E s \in {"draft", "pending", "skipped"}, d \in BOOLEAN : Queue(s, d)
         \/ \E m \in Msgs : Elapse(m)
         \/ \E m \in Msgs : ExpireLease(m)
         \/ CloseWindow
         \/ \E f \in Flushers : FlushStart(f)
         \/ \E f \in Flushers : Suppress(f) \/ GiveUp(f) \/ Defer(f)
         \/ \E f \in Flushers : CheckQuota(f)
         \/ \E f \in Flushers : SendOk(f) \/ SendFail(f)
         \/ \E f \in Flushers : FlushCommit(f)
         \/ \E f \in Flushers : FlushAbort(f)
         \/ \E w \in Workers, n \in 1..MaxMsgs : WorkerClaim(w, n)
         \/ \E w \in Workers, m \in Msgs, ok \in BOOLEAN : WorkerSend(w, m, ok)
         \/ ReleaseExpired
         \/ \E r \in Requests, op \in Ops, m \in Msgs : OperatorLoad(r, op, m)
         \/ \E r \in Requests, w \in Workers, m \in Msgs : WorkerReport(r, w, m)
         \/ \E r \in Requests : Commit(r)
BY DEF Next, FlushStep

LEMMA Inductive == IInv /\ [Next]_vars => IInv'
<1> SUFFICES ASSUME IInv, [Next]_vars PROVE IInv'
  OBVIOUS
<1>1. CASE Next
  BY <1>1, NextCases, QueueStep, ElapseStep, ExpireStep, CloseStep, StartStep, SetAsideStep, CheckStep,
     SendStep, CommitBatchStep, AbortStep, WorkerClaimStep, WorkerSendStep, ReleaseStep, OperatorStep,
     ReportStep, CommitStep
<1>2. CASE UNCHANGED vars
  <2>1. /\ delivered' = delivered /\ tries' = tries /\ batch' = batch /\ draft' = draft /\ view' = view
        /\ quota' = quota /\ outbox' = outbox /\ faults' = faults /\ job' = job /\ req' = req
        /\ expiries' = expiries /\ ops' = ops /\ epoch' = epoch /\ spent' = spent /\ Ids' = Ids
    BY <1>2 DEF vars, Ids
  <2>2. Locks' /\ Left' /\ RequestsSound'
    BY <2>1, LocksStay, RequestsStay
  <2>3. TypeOK' /\ Unqueued'
    BY <2>1 DEF IInv, TypeOK, Unqueued
  <2> QED
    BY <2>2, <2>3 DEF IInv
<1> QED
  BY <1>1, <1>2

LEMMA Invariant == Spec => []IInv
BY Start, Inductive, PTL DEF Spec

(* The types, and what the three parties rely on: a flush's rows are still *)
(* as it claimed them, and a request in progress names a row that exists.  *)
THEOREM Typed == Spec => []TypeOK
<1>1. IInv => TypeOK
  BY DEF IInv
<1> QED
  BY <1>1, Invariant, PTL


-----------------------------------------------------------------------------
(* A row that says sent was sent: so does a session's, so does what a      *)
(* worker knows, and so does the report it makes of it.                    *)
RowsSent == \A m \in Ids : outbox[m].status = "sent" => delivered[m] > 0
SessionsSent ==
  \A f \in Flushers : \A m \in DOMAIN draft[f] : draft[f][m].status = "sent" => delivered[m] > 0
JobsSent == \A w \in Workers, m \in Msgs : job[w][m] = "delivered" => delivered[m] > 0
ReportsSent == \A r \in Requests : req[r] # NoReq /\ req[r].op = "complete" => delivered[req[r].msg] > 0

SentInv == RowsSent /\ SessionsSent /\ JobsSent /\ ReportsSent

(* What a step adds has been delivered. *)
LEMMA SentKept ==
  ASSUME IInv, IInv', SentInv, \A m \in Msgs : delivered'[m] >= delivered[m],
         \A m \in Ids' : outbox'[m].status = "sent" =>
           (m \in Ids /\ outbox[m].status = "sent") \/ delivered'[m] > 0,
         \A f \in Flushers : \A m \in DOMAIN draft'[f] : draft'[f][m].status = "sent" =>
           \/ m \in DOMAIN draft[f] /\ draft[f][m].status = "sent"
           \/ m \in Ids /\ outbox[m].status = "sent"
           \/ delivered'[m] > 0,
         \A w \in Workers, m \in Msgs : job'[w][m] = "delivered" =>
           job[w][m] = "delivered" \/ delivered'[m] > 0,
         \A r \in Requests : req'[r] # NoReq /\ req'[r].op = "complete" =>
           req'[r] = req[r] \/ delivered'[req'[r].msg] > 0
  PROVE  SentInv'
<1>1. delivered \in [Msgs -> Nat] /\ delivered' \in [Msgs -> Nat] /\ Ids \subseteq Msgs /\ Ids' \subseteq Msgs
  <2>1. Ids \subseteq Msgs
    BY Outbox DEF IInv
  <2>2. Len(outbox') \in Nat /\ Len(outbox') <= MaxMsgs
    BY DEF IInv, TypeOK
  <2>3. Ids' \subseteq Msgs
    BY <2>2, OutboxAssumption DEF Ids, Msgs
  <2> QED
    BY <2>1, <2>3 DEF IInv, TypeOK
<1>2. \A m \in Msgs : delivered[m] > 0 => delivered'[m] > 0
  BY <1>1
<1>3. RowsSent'
  BY <1>1, <1>2 DEF SentInv, RowsSent
<1>4. SessionsSent'
  <2> SUFFICES ASSUME NEW f \in Flushers, NEW m \in DOMAIN draft'[f], draft'[f][m].status = "sent"
               PROVE  delivered'[m] > 0
    BY DEF SessionsSent
  <2>1. m \in DOMAIN draft[f] => m \in Msgs
    BY DraftTyped DEF IInv
  <2> QED
    BY <1>1, <1>2, <2>1 DEF SentInv, SessionsSent, RowsSent
<1>5. JobsSent'
  BY <1>2 DEF SentInv, JobsSent
<1>6. ReportsSent'
  <2> SUFFICES ASSUME NEW r \in Requests, req'[r] # NoReq, req'[r].op = "complete"
               PROVE  delivered'[req'[r].msg] > 0
    BY DEF ReportsSent
  <2>1. req'[r] = req[r] => req[r].msg \in Msgs
    BY DEF IInv, TypeOK, Request
  <2> QED
    BY <1>2, <2>1 DEF SentInv, ReportsSent
<1> QED
  BY <1>3, <1>4, <1>5, <1>6 DEF SentInv

(* A flush's row says sent only when the provider took it. *)
LEMMA ProcessSent ==
  ASSUME IInv, IInv', SentInv, NEW f \in Flushers, NEW row \in Row, Process(f, row),
         \A m \in Msgs : delivered'[m] >= delivered[m],
         row.status = "sent" => delivered'[Head(batch[f])] > 0
  PROVE  SentInv'
<1>1. /\ \A g \in Flushers : DOMAIN draft'[g] = DOMAIN draft[g] /\ (g # f => draft'[g] = draft[g])
      /\ draft'[f][Head(batch[f])] = row
      /\ \A m \in DOMAIN draft[f] : m # Head(batch[f]) => draft'[f][m] = draft[f][m]
      /\ outbox' = outbox /\ job' = job /\ req' = req /\ Ids' = Ids
  BY ProcessIs DEF Rest, RestState, Ids
<1>2. \A g \in Flushers : \A m \in DOMAIN draft'[g] : draft'[g][m].status = "sent" =>
        (m \in DOMAIN draft[g] /\ draft[g][m].status = "sent") \/ delivered'[m] > 0
  <2> SUFFICES ASSUME NEW g \in Flushers, NEW m \in DOMAIN draft'[g], draft'[g][m].status = "sent"
               PROVE  (m \in DOMAIN draft[g] /\ draft[g][m].status = "sent") \/ delivered'[m] > 0
    OBVIOUS
  <2>1. CASE g = f /\ m = Head(batch[f])
    BY <1>1, <2>1
  <2>2. CASE ~(g = f /\ m = Head(batch[f]))
    BY <1>1, <2>2
  <2> QED
    BY <2>1, <2>2
<1> QED
  BY <1>1, <1>2, SentKept

LEMMA SentStep ==
  ASSUME IInv, IInv', SentInv, "mark_sent" \notin Ops, Next
  PROVE  SentInv'
<1>1. delivered \in [Msgs -> Nat] /\ outbox \in Seq(Row)
  BY DEF IInv, TypeOK
<1>2. ASSUME NEW s \in {"draft", "pending", "skipped"}, NEW d \in BOOLEAN, Queue(s, d) PROVE SentInv'
  <2> DEFINE row == [status |-> s, due |-> d, lease |-> "none", owner |-> None, attempts |-> 0, retries |-> 0]
  <2>1. outbox' = Append(outbox, row) /\ row.status # "sent"
    BY <1>2 DEF Queue
  <2> HIDE DEF row
  <2>2. /\ \A m \in Ids' : (m \in Ids /\ outbox'[m] = outbox[m]) \/ outbox'[m] = row
    BY <1>1, <2>1 DEF Ids
  <2>3. delivered' = delivered /\ draft' = draft /\ job' = job /\ req' = req
    BY <1>2 DEF Queue, SendState, FlushState, Rest, RestState
  <2>4. \A m \in Ids' : outbox'[m].status = "sent" => m \in Ids /\ outbox[m].status = "sent"
    BY <2>1, <2>2
  <2> QED
    BY <1>1, <2>3, <2>4, SentKept
<1>3. ASSUME NEW m \in Msgs, Elapse(m) \/ ExpireLease(m) PROVE SentInv'
  <2>1. /\ m \in Ids /\ delivered' = delivered /\ draft' = draft /\ job' = job /\ req' = req
        /\ \/ outbox' = [outbox EXCEPT ![m] = [outbox[m] EXCEPT !.due = TRUE]]
           \/ outbox' = [outbox EXCEPT ![m] = [outbox[m] EXCEPT !.lease = "expired"]]
    BY <1>3 DEF Elapse, ExpireLease, SendState, FlushState, Rest, RestState
  <2>2. outbox[m] \in Row
    BY <2>1, Outbox DEF IInv
  <2>3. Ids' = Ids /\ \A k \in Ids : outbox'[k].status = outbox[k].status
    <3>1. CASE outbox' = [outbox EXCEPT ![m] = [outbox[m] EXCEPT !.due = TRUE]]
      BY <1>1, <2>1, <2>2, <3>1, SetDue DEF Ids
    <3>2. CASE outbox' = [outbox EXCEPT ![m] = [outbox[m] EXCEPT !.lease = "expired"]]
      BY <1>1, <2>1, <2>2, <3>2, SetLease DEF Ids
    <3> QED
      BY <2>1, <3>1, <3>2
  <2> QED
    BY <1>1, <2>1, <2>3, SentKept
<1>4. CASE CloseWindow
  <2>1. delivered' = delivered /\ draft' = draft /\ job' = job /\ req' = req /\ outbox' = outbox /\ Ids' = Ids
    BY <1>4 DEF CloseWindow, SendState, Rest, RestState, Ids
  <2> QED
    BY <1>1, <2>1, SentKept
<1>5. ASSUME NEW f \in Flushers, FlushStart(f) PROVE SentInv'
  <2> DEFINE mine == Oldest({m \in Ids : Claimable(m)}, Batch)
             rows == {mine[k] : k \in DOMAIN mine}
             d == [m \in rows |-> outbox[m]]
  <2>1. draft' = [draft EXCEPT ![f] = d] /\ rows \subseteq Ids
    BY <1>5, ClaimIs
  <2>2. delivered' = delivered /\ job' = job /\ req' = req /\ outbox' = outbox /\ Ids' = Ids
    BY <1>5 DEF FlushStart, SendState, Rest, RestState, Ids
  <2> HIDE DEF mine, rows
  <2>3. DOMAIN d = rows /\ \A m \in rows : d[m] = outbox[m]
    OBVIOUS
  <2> HIDE DEF d
  <2>4. draft'[f] = d /\ \A g \in Flushers : g # f => draft'[g] = draft[g]
    BY <2>1 DEF IInv, TypeOK
  <2>5. \A g \in Flushers : \A m \in DOMAIN draft'[g] : draft'[g][m].status = "sent" =>
           \/ m \in DOMAIN draft[g] /\ draft[g][m].status = "sent"
           \/ m \in Ids /\ outbox[m].status = "sent"
    BY <2>1, <2>3, <2>4
  <2> QED
    BY <1>1, <2>2, <2>5, SentKept
<1>6. ASSUME NEW f \in Flushers, Suppress(f) \/ GiveUp(f) \/ Defer(f) PROVE SentInv'
  <2>1. PICK row \in Row : Process(f, row) /\ row.status \in {"skipped", "failed", "pending"}
    BY <1>6, SetAside
  <2>2. delivered' = delivered
    BY <1>6 DEF Suppress, GiveUp, Defer, SendState
  <2> QED
    BY <1>1, <2>1, <2>2, ProcessSent
<1>7. ASSUME NEW f \in Flushers, CheckQuota(f) PROVE SentInv'
  <2>1. delivered' = delivered /\ draft' = draft /\ job' = job /\ req' = req /\ outbox' = outbox /\ Ids' = Ids
    BY <1>7 DEF CheckQuota, SendState, Rest, RestState, Ids
  <2> QED
    BY <1>1, <2>1, SentKept
<1>8. ASSUME NEW f \in Flushers, SendOk(f) PROVE SentInv'
  <2>1. PICK row \in Row : Process(f, row)
    BY <1>8, SentRow
  <2>2. delivered' = [delivered EXCEPT ![Head(batch[f])] = @ + 1]
    BY <1>8 DEF SendOk
  <2>3. Head(batch[f]) \in Msgs
    BY <1>8, Affordable, HeadIs
  <2>4. delivered'[Head(batch[f])] > 0 /\ \A m \in Msgs : delivered'[m] >= delivered[m]
    BY <1>1, <2>2, <2>3
  <2> QED
    BY <2>1, <2>4, ProcessSent
<1>9. ASSUME NEW f \in Flushers, SendFail(f) PROVE SentInv'
  <2>1. PICK row \in Row : Process(f, row) /\ row.status \in {"failed", "pending"}
    BY <1>9, FailedRow
  <2>2. delivered' = delivered
    BY <1>9 DEF SendFail
  <2> QED
    BY <1>1, <2>1, <2>2, ProcessSent
<1>10. ASSUME NEW f \in Flushers, FlushCommit(f) PROVE SentInv'
  <2>1. /\ outbox' = [m \in Ids |-> IF m \in DOMAIN draft[f] THEN draft[f][m] ELSE outbox[m]]
        /\ draft' = [draft EXCEPT ![f] = << >>] /\ delivered' = delivered /\ job' = job /\ req' = req
        /\ Ids' = Ids
    BY <1>10, CommitBatchStep DEF FlushCommit, SendState, Rest, RestState
  <2>2. draft'[f] = << >> /\ \A g \in Flushers : g # f => draft'[g] = draft[g]
    BY <2>1 DEF IInv, TypeOK
  <2>3. \A m \in Ids : outbox'[m].status = "sent" => outbox[m].status = "sent" \/ delivered'[m] > 0
    BY <2>1 DEF SentInv, SessionsSent
  <2>4. \A g \in Flushers : \A m \in DOMAIN draft'[g] : m \in DOMAIN draft[g] /\ draft'[g][m] = draft[g][m]
    BY <2>2, EmptySession
  <2> QED
    BY <1>1, <2>1, <2>3, <2>4, SentKept
<1>11. ASSUME NEW f \in Flushers, FlushAbort(f) PROVE SentInv'
  <2>1. /\ draft' = [draft EXCEPT ![f] = << >>] /\ delivered' = delivered /\ job' = job /\ req' = req
        /\ outbox' = outbox /\ Ids' = Ids
    BY <1>11 DEF FlushAbort, SendState, Rest, RestState, Ids
  <2>2. draft'[f] = << >> /\ \A g \in Flushers : g # f => draft'[g] = draft[g]
    BY <2>1 DEF IInv, TypeOK
  <2>4. \A g \in Flushers : \A m \in DOMAIN draft'[g] : m \in DOMAIN draft[g] /\ draft'[g][m] = draft[g][m]
    BY <2>2, EmptySession
  <2> QED
    BY <1>1, <2>1, <2>4, SentKept
<1>12. ASSUME NEW w \in Workers, NEW n \in 1..MaxMsgs, WorkerClaim(w, n) PROVE SentInv'
  <2>0. PICK mine \in SUBSET Ids : Wins(w, mine)
    BY <1>12, WorkerClaimIs
  <2>1.    /\ \A m \in mine : outbox'[m].status = "processing"
           /\ \A m \in Ids \ mine : outbox'[m] = outbox[m]
           /\ \A m \in mine : job'[w][m] = "claimed"
           /\ \A m \in Msgs \ mine : job'[w][m] = job[w][m]
           /\ \A u \in Workers \ {w} : job'[u] = job[u]
           /\ UNCHANGED <<SendState, FlushState, RestState, expiries, epoch>>
    BY <2>0 DEF Wins
  <2>2. delivered' = delivered /\ draft' = draft /\ req' = req /\ Ids' = Ids
    BY <1>12, <2>1, WorkerClaimStep DEF SendState, FlushState, RestState
  <2>3. \A m \in Ids : outbox'[m].status = "sent" => outbox[m].status = "sent"
    BY <2>1
  <2>4. \A u \in Workers, m \in Msgs : job'[u][m] = "delivered" => job[u][m] = "delivered"
    BY <2>1
  <2> QED
    BY <1>1, <2>2, <2>3, <2>4, SentKept
<1>13. ASSUME NEW w \in Workers, NEW m \in Msgs, NEW ok \in BOOLEAN, WorkerSend(w, m, ok) PROVE SentInv'
  <2>1. /\ job'[w][m] \in {"delivered", "undelivered"} /\ (job'[w][m] = "delivered" <=> ok)
        /\ \A u \in Workers, k \in Msgs : ~(u = w /\ k = m) => job'[u][k] = job[u][k]
        /\ delivered'[m] = (IF ok THEN delivered[m] + 1 ELSE delivered[m])
        /\ \A k \in Msgs : k # m => delivered'[k] = delivered[k]
        /\ UNCHANGED <<outbox, FlushState, RestState, expiries, epoch>>
    BY <1>13, WorkerSendStep
  <2>2. outbox' = outbox /\ draft' = draft /\ req' = req /\ Ids' = Ids
    BY <2>1 DEF FlushState, RestState, Ids
  <2>3. \A k \in Msgs : delivered'[k] >= delivered[k]
    BY <1>1, <2>1
  <2>4. \A u \in Workers, k \in Msgs : job'[u][k] = "delivered" => job[u][k] = "delivered" \/ delivered'[k] > 0
    BY <1>1, <2>1
  <2> QED
    BY <2>2, <2>3, <2>4, SentKept
<1>14. CASE ReleaseExpired
  <2>1. /\ Ids' = Ids
        /\ \A m \in Ids : outbox'[m] = outbox[m] \/ outbox'[m] = Release(outbox[m])
        /\ UNCHANGED <<SendState, FlushState, Rest, RestState, epoch>>
    BY <1>14, ReleaseStep
  <2>2. \A m \in Ids : outbox'[m].status = "sent" => outbox[m].status = "sent"
    BY <2>1, Outbox, ReleaseIs DEF IInv
  <2>3. delivered' = delivered /\ draft' = draft /\ job' = job /\ req' = req
    BY <2>1 DEF SendState, FlushState, Rest, RestState
  <2> QED
    BY <1>1, <2>1, <2>2, <2>3, SentKept
<1>15. ASSUME NEW r \in Requests, NEW op \in Ops, NEW m \in Msgs, OperatorLoad(r, op, m) PROVE SentInv'
  <2>1. /\ Ids' = Ids
        /\ req'[r] = [op |-> op, msg |-> m, loaded |-> outbox[m], wanted |-> Wanted(op, outbox[m])]
        /\ \A s \in Requests : s # r => req'[s] = req[s]
        /\ UNCHANGED <<SendState, FlushState, outbox, job, expiries, epoch>>
    BY <1>15, OperatorStep
  <2>2. delivered' = delivered /\ draft' = draft /\ job' = job /\ outbox' = outbox
    BY <2>1 DEF SendState, FlushState
  <2>3. req'[r].op # "complete"
    BY <2>1, OpsAssumption
  <2> QED
    BY <1>1, <2>1, <2>2, <2>3, SentKept
<1>16. ASSUME NEW r \in Requests, NEW w \in Workers, NEW m \in Msgs, WorkerReport(r, w, m) PROVE SentInv'
  <2>1. /\ Ids' = Ids /\ job'[w][m] = "none"
        /\ \A u \in Workers, k \in Msgs : ~(u = w /\ k = m) => job'[u][k] = job[u][k]
        /\ UNCHANGED <<SendState, FlushState, outbox, ops, expiries, epoch>>
        /\ \/ /\ job[w][m] = "delivered"
              /\ req'[r] = [op |-> "complete", msg |-> m, loaded |-> outbox[m], wanted |-> Completed(outbox[m])]
              /\ \A s \in Requests : s # r => req'[s] = req[s]
           \/ /\ req'[r] = [op |-> "fail", msg |-> m, loaded |-> outbox[m], wanted |-> FailedByWorker(outbox[m])]
              /\ \A s \in Requests : s # r => req'[s] = req[s]
           \/ req' = req
    BY <1>16, ReportStep DEF ReportEffect
  <2>2. delivered' = delivered /\ draft' = draft /\ outbox' = outbox
    BY <2>1 DEF SendState, FlushState
  <2>3. \A s \in Requests : req'[s] # NoReq /\ req'[s].op = "complete" =>
           req'[s] = req[s] \/ delivered'[req'[s].msg] > 0
    <3>1. job[w][m] = "delivered" => delivered[m] > 0
      BY DEF SentInv, JobsSent
    <3> QED
      BY <2>1, <2>2, <3>1
  <2>4. \A u \in Workers, k \in Msgs : job'[u][k] = "delivered" => job[u][k] = "delivered"
    BY <2>1
  <2> QED
    BY <1>1, <2>1, <2>2, <2>3, <2>4, SentKept
<1>17. ASSUME NEW r \in Requests, Commit(r) PROVE SentInv'
  <2> DEFINE q == req[r]
             m == q.msg
             row == outbox[m]
  <2>1. /\ Ids' = Ids /\ q \in Request /\ Sound(q) /\ row \in Row /\ m \in Ids
        /\ outbox'[m] = Overlay(row, q.loaded, q.wanted)
        /\ \A k \in Ids : k # m => outbox'[k] = outbox[k]
        /\ req'[r] = NoReq /\ \A s \in Requests : s # r => req'[s] = req[s]
        /\ UNCHANGED <<SendState, FlushState, Rest, ops, epoch>>
    BY <1>17, CommitStep DEF Sound
  <2>2. delivered' = delivered /\ draft' = draft /\ job' = job
    BY <2>1 DEF SendState, FlushState, Rest
  <2>3. q.op = "complete" => delivered[m] > 0
    BY <1>17 DEF Commit, SentInv, ReportsSent
  <2> HIDE DEF q
  <2>4. q.loaded \in Row /\ q.wanted \in Row
    BY <2>1 DEF Request
  <2>5. outbox'[m].status = IF q.wanted.status # q.loaded.status THEN q.wanted.status ELSE row.status
    BY <2>1, <2>4, OverlayIs
  <2>6. q.wanted.status = "sent" => q.op = "complete"
    <3>1. CASE q.op \in Ops /\ Accepts(q.op, q.loaded) /\ q.wanted = Wanted(q.op, q.loaded)
      BY <2>4, <3>1, WantedIs
    <3>2. CASE q.op = "fail" /\ q.wanted = FailedByWorker(q.loaded)
      BY <2>4, <3>2, FailedIs
    <3> QED
      BY <2>1, <3>1, <3>2 DEF Sound
  <2>7. \A k \in Ids : outbox'[k].status = "sent" => outbox[k].status = "sent" \/ delivered'[k] > 0
    BY <2>1, <2>2, <2>3, <2>5, <2>6
  <2> QED
    BY <1>1, <2>1, <2>2, <2>7, SentKept
<1> QED
  BY <1>2, <1>3, <1>4, <1>5, <1>6, <1>7, <1>8, <1>9, <1>10, <1>11, <1>12, <1>13, <1>14, <1>15, <1>16, <1>17,
     NextCases

(* A row that says sent was sent, by a flush or by a worker that reported  *)
(* it, whatever the order in which reports and handlers write the row:     *)
(* only an operator who marks it sent can say otherwise.                   *)
THEOREM SentTruly == Spec => []SentWasDelivered
<1>1. CASE "mark_sent" \in Ops
  <2>1. SentWasDelivered
    BY <1>1 DEF SentWasDelivered
  <2> QED
    BY <2>1, PTL
<1>2. CASE "mark_sent" \notin Ops
  <2>1. Init => SentInv
    <3> SUFFICES ASSUME Init PROVE SentInv
      OBVIOUS
    <3>1. Ids = {} /\ \A f \in Flushers : DOMAIN draft[f] = {}
      BY EmptySession DEF Init, Ids
    <3> QED
      BY <3>1 DEF Init, SentInv, RowsSent, SessionsSent, JobsSent, ReportsSent
  <2>2. IInv /\ IInv' /\ SentInv /\ [Next]_vars => SentInv'
    <3>1. CASE UNCHANGED vars
      BY <3>1 DEF vars, Ids, SentInv, RowsSent, SessionsSent, JobsSent, ReportsSent
    <3> QED
      BY <1>2, <3>1, SentStep
  <2>3. SentInv => SentWasDelivered
    BY DEF SentInv, RowsSent, SentWasDelivered
  <2> QED
    BY <2>1, <2>2, <2>3, Invariant, PTL DEF Spec
<1> QED
  BY <1>1, <1>2


-----------------------------------------------------------------------------
(* One party at a time.  While no lease has expired and no operator has    *)
(* interfered, a worker that has an email, or a report of one in progress, *)
(* owns its row; an email has one report at most, and nobody works on an   *)
(* email that is being reported.                                           *)
Calm == expiries = 0 /\ ops = 0

Reporting(r, m) == req[r] # NoReq /\ req[r].msg = m

Reported ==
  \A r \in Requests : req[r] # NoReq =>
    req[r].op \in {"complete", "fail"} /\ req[r].loaded.owner \in Workers

LeasesLive == \A m \in Ids : outbox[m].status = "processing" => outbox[m].lease # "expired"

JobsOwned == \A w \in Workers, m \in Msgs : job[w][m] # "none" => m \in Ids /\ LeasedBy(outbox[m], w)

ReportsOwned ==
  \A r \in Requests, m \in Msgs : Reporting(r, m) => m \in Ids /\ LeasedBy(outbox[m], req[r].loaded.owner)

ReportsAlone ==
  \A r \in Requests, m \in Msgs : Reporting(r, m) =>
    /\ \A s \in Requests : s # r => ~Reporting(s, m)
    /\ \A w \in Workers : job[w][m] = "none"

Exclusive == Reported /\ LeasesLive /\ JobsOwned /\ ReportsOwned /\ ReportsAlone

ExclInv == Calm => Exclusive

LEMMA ExclSame ==
  ASSUME ExclInv, UNCHANGED <<outbox, job, req, expiries, ops>>
  PROVE  ExclInv'
BY DEF ExclInv, Calm, Exclusive, Reported, LeasesLive, JobsOwned, ReportsOwned, ReportsAlone, Reporting,
       LeasedBy, Ids

(* Rows nobody works on may change, but not to an expired lease. *)
LEMMA ExclRows ==
  ASSUME ExclInv, UNCHANGED <<job, req, expiries, ops>>, Ids \subseteq Ids',
         \A m \in Ids : outbox'[m] # outbox[m] =>
           \/ outbox[m].status # "processing"
           \/ outbox'[m].status = outbox[m].status /\ outbox'[m].owner = outbox[m].owner,
         \A m \in Ids' : outbox'[m].status = "processing" =>
           m \in Ids /\ outbox[m].status = "processing" /\ outbox'[m].lease = outbox[m].lease
  PROVE  ExclInv'
<1> SUFFICES ASSUME Calm' PROVE Exclusive'
  BY DEF ExclInv
<1>1. Exclusive
  BY DEF ExclInv, Calm
<1>2. \A m \in Ids, w \in Workers : LeasedBy(outbox[m], w) => LeasedBy(outbox'[m], w)
  BY DEF LeasedBy
<1>3. Reported' /\ LeasesLive' /\ ReportsAlone'
  BY <1>1 DEF Exclusive, Reported, LeasesLive, ReportsAlone, Reporting
<1>4. JobsOwned'
  BY <1>1, <1>2 DEF Exclusive, JobsOwned
<1>5. ReportsOwned'
  BY <1>1, <1>2 DEF Exclusive, ReportsOwned, Reported, Reporting
<1> QED
  BY <1>3, <1>4, <1>5 DEF Exclusive

LEMMA ExclClaim ==
  ASSUME IInv, ExclInv, NEW w \in Workers, NEW n \in 1..MaxMsgs, WorkerClaim(w, n)
  PROVE  ExclInv'
<1> SUFFICES ASSUME Calm' PROVE Exclusive'
  BY DEF ExclInv
<1>0. PICK mine \in SUBSET Ids : Wins(w, mine)
  BY WorkerClaimIs
<1>1. /\ \A m \in mine : /\ Waiting(m) /\ outbox'[m].status = "processing" /\ outbox'[m].owner = w
                         /\ outbox'[m].lease = "live"
      /\ \A m \in Ids \ mine : outbox'[m] = outbox[m]
      /\ \A m \in mine : job'[w][m] = "claimed"
      /\ \A m \in Msgs \ mine : job'[w][m] = job[w][m]
      /\ \A u \in Workers \ {w} : job'[u] = job[u]
      /\ req' = req /\ ops' = ops /\ expiries' = expiries
  BY <1>0 DEF Wins, RestState
<1>2. Ids' = Ids
  BY WorkerClaimStep
<1>3. Exclusive
  BY <1>1 DEF ExclInv, Calm
<1>4. \A m \in mine : /\ \A u \in Workers : job[u][m] = "none"
                      /\ \A r \in Requests : ~Reporting(r, m)
  <2> SUFFICES ASSUME NEW m \in mine
               PROVE  /\ \A u \in Workers : job[u][m] = "none"
                      /\ \A r \in Requests : ~Reporting(r, m)
    OBVIOUS
  <2>1. m \in Msgs /\ outbox[m].status # "processing"
    BY <1>1, Outbox DEF IInv, Waiting
  <2> QED
    BY <1>3, <2>1 DEF Exclusive, JobsOwned, ReportsOwned, LeasedBy
<1>5. Reported'
  BY <1>1, <1>3 DEF Exclusive, Reported
<1>6. LeasesLive'
  BY <1>1, <1>2, <1>3 DEF Exclusive, LeasesLive
<1>7. JobsOwned'
  <2> SUFFICES ASSUME NEW u \in Workers, NEW m \in Msgs, job'[u][m] # "none"
               PROVE  m \in Ids /\ LeasedBy(outbox'[m], u)
    BY <1>2 DEF JobsOwned
  <2>1. CASE m \in mine
    <3>1. u = w
      BY <1>1, <1>4, <2>1
    <3> QED
      BY <1>1, <2>1, <3>1 DEF LeasedBy
  <2>2. CASE m \notin mine
    <3>1. job[u][m] # "none"
      BY <1>1, <2>2
    <3>2. m \in Ids /\ LeasedBy(outbox[m], u)
      BY <1>3, <3>1 DEF Exclusive, JobsOwned
    <3> QED
      BY <1>1, <2>2, <3>2
  <2> QED
    BY <2>1, <2>2
<1>8. ReportsOwned'
  <2> SUFFICES ASSUME NEW r \in Requests, NEW m \in Msgs, Reporting(r, m)
               PROVE  m \in Ids /\ LeasedBy(outbox'[m], req[r].loaded.owner)
    BY <1>1, <1>2 DEF ReportsOwned, Reporting
  <2>1. m \in Ids /\ m \notin mine /\ LeasedBy(outbox[m], req[r].loaded.owner)
    BY <1>3, <1>4 DEF Exclusive, ReportsOwned
  <2> QED
    BY <1>1, <2>1
<1>9. ReportsAlone'
  <2> SUFFICES ASSUME NEW r \in Requests, NEW m \in Msgs, Reporting(r, m)
               PROVE  /\ \A s \in Requests : s # r => ~Reporting(s, m)
                      /\ \A u \in Workers : job'[u][m] = "none"
    BY <1>1 DEF ReportsAlone, Reporting
  <2>1. m \notin mine /\ (\A s \in Requests : s # r => ~Reporting(s, m)) /\ \A u \in Workers : job[u][m] = "none"
    BY <1>3, <1>4 DEF Exclusive, ReportsAlone
  <2> QED
    BY <1>1, <2>1
<1> QED
  BY <1>5, <1>6, <1>7, <1>8, <1>9 DEF Exclusive

LEMMA ExclSend ==
  ASSUME IInv, ExclInv, NEW w \in Workers, NEW m \in Msgs, NEW ok \in BOOLEAN, WorkerSend(w, m, ok)
  PROVE  ExclInv'
<1> SUFFICES ASSUME Calm' PROVE Exclusive'
  BY DEF ExclInv
<1>1. /\ job[w][m] = "claimed"
      /\ \A u \in Workers, k \in Msgs : ~(u = w /\ k = m) => job'[u][k] = job[u][k]
      /\ outbox' = outbox /\ req' = req /\ ops' = ops /\ expiries' = expiries /\ Ids' = Ids
  BY WorkerSendStep DEF WorkerSend, RestState, Ids
<1>2. Exclusive
  BY <1>1 DEF ExclInv, Calm
<1>3. \A u \in Workers, k \in Msgs : job'[u][k] # "none" => job[u][k] # "none"
  BY <1>1
<1>4. Reported' /\ LeasesLive' /\ ReportsOwned'
  BY <1>1, <1>2 DEF Exclusive, Reported, LeasesLive, ReportsOwned, Reporting
<1>5. JobsOwned'
  BY <1>1, <1>2, <1>3 DEF Exclusive, JobsOwned
<1>6. ReportsAlone'
  BY <1>1, <1>2, <1>3 DEF Exclusive, ReportsAlone, Reporting
<1> QED
  BY <1>4, <1>5, <1>6 DEF Exclusive

LEMMA ExclReport ==
  ASSUME IInv, ExclInv, NEW r \in Requests, NEW w \in Workers, NEW m \in Msgs, WorkerReport(r, w, m)
  PROVE  ExclInv'
<1> SUFFICES ASSUME Calm' PROVE Exclusive'
  BY DEF ExclInv
<1>1. /\ job[w][m] # "none" /\ job'[w][m] = "none" /\ m \in Ids /\ Ids' = Ids
      /\ \A u \in Workers, k \in Msgs : ~(u = w /\ k = m) => job'[u][k] = job[u][k]
      /\ outbox' = outbox /\ ops' = ops /\ expiries' = expiries
  <2>1. ReportEffect(r, w, m)
    BY ReportStep
  <2> QED
    BY <2>1 DEF ReportEffect
<1>2. Exclusive
  BY <1>1 DEF ExclInv, Calm
<1>3. LeasedBy(outbox[m], w)
  BY <1>1, <1>2 DEF Exclusive, JobsOwned
<1>4. /\ req[r] = NoReq /\ req'[r] # NoReq /\ req'[r].op \in {"complete", "fail"} /\ req'[r].msg = m
      /\ req'[r].loaded = outbox[m] /\ \A s \in Requests : s # r => req'[s] = req[s]
  <2>1. \/ /\ req[r] = NoReq
           /\ req'[r] = [op |-> "complete", msg |-> m, loaded |-> outbox[m], wanted |-> Completed(outbox[m])]
           /\ \A s \in Requests : s # r => req'[s] = req[s]
        \/ /\ req[r] = NoReq
           /\ req'[r] = [op |-> "fail", msg |-> m, loaded |-> outbox[m], wanted |-> FailedByWorker(outbox[m])]
           /\ \A s \in Requests : s # r => req'[s] = req[s]
    BY <1>3, ReportStep DEF ReportEffect
  <2> QED
    BY <2>1 DEF NoReq, None
<1>5. \A u \in Workers, k \in Msgs : job'[u][k] # "none" => job[u][k] # "none"
  BY <1>1
<1>6. outbox[m].owner = w /\ \A u \in Workers : LeasedBy(outbox[m], u) => u = w
  BY <1>3 DEF LeasedBy
<1>7. \A s \in Requests, k \in Msgs : s # r => (Reporting(s, k)' <=> Reporting(s, k))
  BY <1>4 DEF Reporting
<1>8. \A k \in Msgs : Reporting(r, k)' <=> k = m
  BY <1>4 DEF Reporting
<1>9. \A s \in Requests : ~Reporting(s, m)
  BY <1>1, <1>2 DEF Exclusive, ReportsAlone
<1>10. Reported' /\ LeasesLive'
  BY <1>1, <1>2, <1>4, <1>6 DEF Exclusive, Reported, LeasesLive
<1>11. JobsOwned'
  BY <1>1, <1>2, <1>5 DEF Exclusive, JobsOwned
<1>12. ReportsOwned'
  <2> SUFFICES ASSUME NEW s \in Requests, NEW k \in Msgs, Reporting(s, k)'
               PROVE  k \in Ids /\ LeasedBy(outbox[k], req'[s].loaded.owner)
    BY <1>1 DEF ReportsOwned
  <2>1. CASE s = r
    BY <1>1, <1>3, <1>4, <1>6, <1>8, <2>1
  <2>2. CASE s # r
    BY <1>2, <1>4, <1>7, <2>2 DEF Exclusive, ReportsOwned
  <2> QED
    BY <2>1, <2>2
<1>13. ReportsAlone'
  <2> SUFFICES ASSUME NEW s \in Requests, NEW k \in Msgs, Reporting(s, k)'
               PROVE  /\ \A t \in Requests : t # s => ~Reporting(t, k)'
                      /\ \A u \in Workers : job'[u][k] = "none"
    BY DEF ReportsAlone
  <2>1. CASE s = r
    <3>1. k = m
      BY <1>8, <2>1
    <3>2. \A u \in Workers : job[u][m] # "none" => u = w
      BY <1>2, <1>6 DEF Exclusive, JobsOwned
    <3> QED
      BY <1>1, <1>7, <1>9, <2>1, <3>1, <3>2
  <2>2. CASE s # r
    <3>1. Reporting(s, k) /\ k # m
      BY <1>7, <1>9, <2>2
    <3> QED
      BY <1>2, <1>5, <1>7, <1>8, <3>1 DEF Exclusive, ReportsAlone
  <2> QED
    BY <2>1, <2>2
<1> QED
  BY <1>10, <1>11, <1>12, <1>13 DEF Exclusive

LEMMA ExclCommit ==
  ASSUME IInv, ExclInv, NEW r \in Requests, Commit(r)
  PROVE  ExclInv'
<1> SUFFICES ASSUME Calm' PROVE Exclusive'
  BY DEF ExclInv
<1> DEFINE q == req[r]
           m == q.msg
<1>1. /\ Ids' = Ids /\ q \in Request /\ q # NoReq /\ Sound(q) /\ m \in Ids /\ m \in Msgs
      /\ outbox[m] \in Row /\ outbox'[m] = Overlay(outbox[m], q.loaded, q.wanted)
      /\ \A k \in Ids : k # m => outbox'[k] = outbox[k]
      /\ req'[r] = NoReq /\ \A s \in Requests : s # r => req'[s] = req[s]
      /\ job' = job /\ ops' = ops /\ expiries' = expiries
  BY CommitStep, Outbox DEF Sound, Rest, Commit, IInv
<1>2. Exclusive
  BY <1>1 DEF ExclInv, Calm
<1>3. q.op \in {"complete", "fail"}
  BY <1>1, <1>2 DEF Exclusive, Reported
<1>4. /\ \A s \in Requests : s # r => ~Reporting(s, m)
      /\ \A w \in Workers : job[w][m] = "none"
  BY <1>1, <1>2 DEF Exclusive, ReportsAlone, Reporting
<1>5. \A s \in Requests, k \in Msgs : Reporting(s, k)' => Reporting(s, k) /\ s # r /\ k # m
  <2> SUFFICES ASSUME NEW s \in Requests, NEW k \in Msgs, Reporting(s, k)' PROVE Reporting(s, k) /\ s # r /\ k # m
    OBVIOUS
  <2>1. s # r
    BY <1>1 DEF Reporting
  <2>2. Reporting(s, k)
    BY <1>1, <2>1 DEF Reporting
  <2> QED
    BY <1>4, <2>1, <2>2
<1> HIDE DEF q
<1>6. outbox'[m].status # "processing"
  <2>1. q.loaded \in Row /\ q.wanted \in Row
    BY <1>1 DEF Request
  <2>2. q.loaded.status = "processing" /\ q.wanted.status # "processing"
    <3>1. CASE q.op = "complete"
      BY <1>1, <2>1, <3>1, CompletedIs, OpsAssumption DEF Sound
    <3>2. CASE q.op = "fail"
      BY <1>1, <2>1, <3>2, FailedIs, OpsAssumption DEF Sound
    <3> QED
      BY <1>3, <3>1, <3>2
  <2> QED
    BY <1>1, <2>1, <2>2, OverlayIs
<1>7. Reported'
  BY <1>1, <1>2 DEF Exclusive, Reported
<1>8. LeasesLive'
  BY <1>1, <1>2, <1>6 DEF Exclusive, LeasesLive
<1>9. JobsOwned'
  <2> SUFFICES ASSUME NEW w \in Workers, NEW k \in Msgs, job[w][k] # "none"
               PROVE  k \in Ids /\ LeasedBy(outbox'[k], w)
    BY <1>1 DEF JobsOwned
  <2>1. k # m /\ k \in Ids /\ LeasedBy(outbox[k], w)
    BY <1>2, <1>4 DEF Exclusive, JobsOwned
  <2> QED
    BY <1>1, <2>1
<1>10. ReportsOwned'
  <2> SUFFICES ASSUME NEW s \in Requests, NEW k \in Msgs, Reporting(s, k)'
               PROVE  k \in Ids /\ LeasedBy(outbox'[k], req'[s].loaded.owner)
    BY <1>1 DEF ReportsOwned
  <2>1. Reporting(s, k) /\ k # m /\ req'[s] = req[s]
    BY <1>1, <1>5
  <2>2. k \in Ids /\ LeasedBy(outbox[k], req[s].loaded.owner)
    BY <1>2, <2>1 DEF Exclusive, ReportsOwned
  <2> QED
    BY <1>1, <2>1, <2>2
<1>11. ReportsAlone'
  <2> SUFFICES ASSUME NEW s \in Requests, NEW k \in Msgs, Reporting(s, k)'
               PROVE  /\ \A t \in Requests : t # s => ~Reporting(t, k)'
                      /\ \A u \in Workers : job[u][k] = "none"
    BY <1>1 DEF ReportsAlone
  <2>1. Reporting(s, k)
    BY <1>5
  <2> QED
    BY <1>2, <1>5, <2>1 DEF Exclusive, ReportsAlone
<1> QED
  BY <1>7, <1>8, <1>9, <1>10, <1>11 DEF Exclusive

LEMMA ExclStep ==
  ASSUME IInv, ExclInv, Next
  PROVE  ExclInv'
<1>1. ASSUME NEW s \in {"draft", "pending", "skipped"}, NEW d \in BOOLEAN, Queue(s, d) PROVE ExclInv'
  <2> DEFINE row == [status |-> s, due |-> d, lease |-> "none", owner |-> None, attempts |-> 0, retries |-> 0]
  <2>1. outbox' = Append(outbox, row) /\ row.status # "processing"
    BY <1>1 DEF Queue
  <2> HIDE DEF row
  <2>2. outbox \in Seq(Row)
    BY DEF IInv, TypeOK
  <2>3. /\ Ids \subseteq Ids' /\ \A m \in Ids : outbox'[m] = outbox[m]
        /\ \A m \in Ids' : (m \in Ids /\ outbox'[m] = outbox[m]) \/ outbox'[m] = row
    BY <2>1, <2>2 DEF Ids
  <2>4. UNCHANGED <<job, req, expiries, ops>>
    BY <1>1 DEF Queue, Rest, RestState
  <2> QED
    BY <2>1, <2>3, <2>4, ExclRows
<1>2. ASSUME NEW m \in Msgs, Elapse(m) PROVE ExclInv'
  <2>1. m \in Ids /\ outbox' = [outbox EXCEPT ![m] = [outbox[m] EXCEPT !.due = TRUE]]
    BY <1>2 DEF Elapse
  <2>2. outbox[m] \in Row /\ outbox \in Seq(Row)
    BY <2>1, Outbox DEF IInv, TypeOK
  <2>3. Ids' = Ids /\ \A k \in Ids : /\ outbox'[k].status = outbox[k].status
                                     /\ outbox'[k].owner = outbox[k].owner /\ outbox'[k].lease = outbox[k].lease
    BY <2>1, <2>2, SetDue DEF Ids
  <2>4. UNCHANGED <<job, req, expiries, ops>>
    BY <1>2 DEF Elapse, Rest, RestState
  <2> QED
    BY <2>3, <2>4, ExclRows
<1>3. ASSUME NEW m \in Msgs, ExpireLease(m) PROVE ExclInv'
  <2>1. expiries' # 0
    BY <1>3 DEF ExpireLease, IInv, TypeOK
  <2> QED
    BY <2>1 DEF ExclInv, Calm
<1>4. ASSUME NEW f \in Flushers,
             FlushStart(f) \/ Suppress(f) \/ GiveUp(f) \/ Defer(f) \/ CheckQuota(f) \/ SendOk(f) \/ SendFail(f)
             \/ FlushAbort(f)
      PROVE  ExclInv'
  <2>1. UNCHANGED <<outbox, job, req, expiries, ops>>
    BY <1>4 DEF FlushStart, Suppress, GiveUp, Defer, CheckQuota, SendOk, SendFail, FlushAbort, Process,
                Rest, RestState
  <2> QED
    BY <2>1, ExclSame
<1>5. CASE CloseWindow
  <2>1. UNCHANGED <<outbox, job, req, expiries, ops>>
    BY <1>5 DEF CloseWindow, Rest, RestState
  <2> QED
    BY <2>1, ExclSame
<1>6. ASSUME NEW f \in Flushers, FlushCommit(f) PROVE ExclInv'
  <2>1. /\ outbox' = [m \in Ids |-> IF m \in DOMAIN draft[f] THEN draft[f][m] ELSE outbox[m]]
        /\ Ids' = Ids /\ UNCHANGED <<job, req, expiries, ops>>
    BY <1>6, CommitBatchStep DEF FlushCommit, Rest, RestState
  <2>2. \A m \in DOMAIN draft[f] : outbox[m].status # "processing" /\ draft[f][m].status # "processing"
    BY DEF IInv, Locks, Drafted, Waiting
  <2> QED
    BY <2>1, <2>2, ExclRows
<1>7. CASE ReleaseExpired
  <2>1. /\ Ids' = Ids
        /\ \A m \in Ids : \/ outbox'[m] = outbox[m]
                          \/ outbox[m].status = "processing" /\ outbox[m].lease = "expired"
        /\ UNCHANGED <<Rest, RestState>> /\ DOMAIN outbox' = DOMAIN outbox /\ outbox' = [m \in Ids |-> outbox'[m]]
    BY <1>7, ReleaseStep, Outbox DEF ReleaseExpired, IInv
  <2>2. UNCHANGED <<job, req, expiries, ops>>
    BY <2>1 DEF Rest, RestState
  <2>3. CASE Calm
    <3>1. \A m \in Ids : outbox'[m] = outbox[m]
      BY <2>1, <2>3 DEF ExclInv, Exclusive, LeasesLive
    <3> QED
      BY <2>1, <2>2, <3>1, ExclRows
  <2>4. CASE ~Calm
    BY <2>2, <2>4 DEF ExclInv, Calm
  <2> QED
    BY <2>3, <2>4
<1>8. ASSUME NEW r \in Requests, NEW op \in Ops, NEW m \in Msgs, OperatorLoad(r, op, m) PROVE ExclInv'
  <2>1. ops' # 0
    BY <1>8 DEF OperatorLoad, IInv, TypeOK
  <2> QED
    BY <2>1 DEF ExclInv, Calm
<1> QED
  BY <1>1, <1>2, <1>3, <1>4, <1>5, <1>6, <1>7, <1>8, ExclClaim, ExclSend, ExclReport, ExclCommit, NextCases

LEMMA ExclInit == Init => ExclInv
<1> SUFFICES ASSUME Init PROVE Exclusive
  BY DEF ExclInv
<1>1. Ids = {}
  BY DEF Init, Ids
<1> QED
  BY <1>1 DEF Init, Exclusive, Reported, LeasesLive, JobsOwned, ReportsOwned, ReportsAlone, Reporting

LEMMA ExclInductive == IInv /\ ExclInv /\ [Next]_vars => ExclInv'
<1>1. ASSUME ExclInv, UNCHANGED vars PROVE ExclInv'
  BY <1>1, ExclSame DEF vars
<1> QED
  BY <1>1, ExclStep

(* While leases last and operators keep out, an email has one party: the   *)
(* worker that holds it owns its row, no other worker has it and no flush  *)
(* has locked it.                                                          *)
THEOREM OneHolder == Spec => []LeaseExclusive
<1>1. Init => ExclInv
  BY ExclInit
<1>2. IInv /\ ExclInv /\ [Next]_vars => ExclInv'
  BY ExclInductive
<1>3. IInv /\ ExclInv => LeaseExclusive
  <2> SUFFICES ASSUME IInv, ExclInv, expiries = 0, ops = 0, NEW m \in Ids, NEW w \in Workers, job[w][m] # "none"
               PROVE  /\ outbox[m].status = "processing" /\ outbox[m].owner = w /\ ~RowLocked(m)
                      /\ \A u \in Workers \ {w} : job[u][m] = "none"
    BY DEF LeaseExclusive
  <2>1. m \in Msgs /\ JobsOwned
    BY Outbox DEF IInv, ExclInv, Calm, Exclusive
  <2>2. outbox[m].status = "processing" /\ outbox[m].owner = w
    BY <2>1 DEF JobsOwned, LeasedBy
  <2>3. ~RowLocked(m)
    BY <2>2 DEF IInv, Locks, Drafted, Waiting, RowLocked
  <2>4. \A u \in Workers \ {w} : job[u][m] = "none"
    BY <2>1, <2>2 DEF JobsOwned, LeasedBy
  <2> QED
    BY <2>2, <2>3, <2>4
<1> QED
  BY <1>1, <1>2, <1>3, Invariant, PTL DEF Spec


(* A row that changes was open, or a request that loaded it changes it.    *)
LEMMA OpenRowsMove ==
  ASSUME IInv, Next, NEW m \in Ids, outbox[m].status \in Settled, outbox'[m].status \notin Settled
  PROVE  \E r \in Requests : Commit(r)
<1>1. ASSUME NEW s \in {"draft", "pending", "skipped"}, NEW d \in BOOLEAN, Queue(s, d) PROVE FALSE
  <2> DEFINE row == [status |-> s, due |-> d, lease |-> "none", owner |-> None, attempts |-> 0, retries |-> 0]
  <2>1. outbox' = Append(outbox, row) /\ outbox \in Seq(Row)
    BY <1>1 DEF Queue, IInv, TypeOK
  <2> HIDE DEF row
  <2>2. outbox'[m] = outbox[m]
    BY <2>1 DEF Ids
  <2> QED
    BY <2>2
<1>2. ASSUME NEW k \in Msgs, Elapse(k) PROVE FALSE
  <2>1. k \in Ids /\ outbox' = [outbox EXCEPT ![k] = [outbox[k] EXCEPT !.due = TRUE]]
    BY <1>2 DEF Elapse
  <2>2. outbox[k] \in Row /\ DOMAIN outbox = Ids
    BY <2>1, Outbox DEF IInv
  <2>3. outbox'[m].status = outbox[m].status
    BY <2>1, <2>2, SetDue
  <2> QED
    BY <2>3
<1>3. ASSUME NEW k \in Msgs, ExpireLease(k) PROVE FALSE
  <2>1. k \in Ids /\ outbox' = [outbox EXCEPT ![k] = [outbox[k] EXCEPT !.lease = "expired"]]
    BY <1>3 DEF ExpireLease
  <2>2. outbox[k] \in Row /\ DOMAIN outbox = Ids
    BY <2>1, Outbox DEF IInv
  <2>3. outbox'[m].status = outbox[m].status
    BY <2>1, <2>2, SetLease
  <2> QED
    BY <2>3
<1>4. ASSUME NEW f \in Flushers, FlushCommit(f) PROVE FALSE
  <2>1. outbox' = [k \in Ids |-> IF k \in DOMAIN draft[f] THEN draft[f][k] ELSE outbox[k]]
    BY <1>4 DEF FlushCommit
  <2>2. m \notin DOMAIN draft[f]
    BY DEF IInv, Locks, Drafted, Waiting, Settled
  <2> QED
    BY <2>1, <2>2
<1>5. ASSUME NEW w \in Workers, NEW n \in 1..MaxMsgs, WorkerClaim(w, n) PROVE FALSE
  <2>1. PICK mine \in SUBSET Ids : Wins(w, mine)
    BY <1>5, WorkerClaimIs
  <2>2. m \in mine
    BY <2>1 DEF Wins
  <2> QED
    BY <2>1, <2>2 DEF Wins, Waiting, Settled
<1>6. ASSUME ReleaseExpired PROVE FALSE
  BY <1>6, ReleaseStep DEF Settled
<1>7. CASE UNCHANGED outbox
  BY <1>7
<1> QED
  BY <1>1, <1>2, <1>3, <1>4, <1>5, <1>6, <1>7, NextCases
     DEF CloseWindow, FlushStart, Suppress, GiveUp, Defer, CheckQuota, SendOk, SendFail, FlushAbort, Process,
         WorkerSend, OperatorLoad, WorkerReport, Load

(* What a committed request that opens a settled row is. *)
LEMMA OpeningRequest ==
  ASSUME IInv, ExclInv, NEW r \in Requests, Commit(r), NEW m \in Ids,
         outbox[m].status \in Settled, outbox'[m].status \notin Settled
  PROVE  /\ req[r].msg = m
         /\ \/ req[r].op = "mark_failed"
            \/ req[r].op = "fail" /\ expiries + ops > 0
<1> DEFINE q == req[r]
<1>1. /\ q \in Request /\ Sound(q) /\ outbox[q.msg] \in Row
      /\ outbox'[q.msg] = Overlay(outbox[q.msg], q.loaded, q.wanted)
      /\ \A k \in Ids : k # q.msg => outbox'[k] = outbox[k]
  BY CommitStep
<1>2. q.msg = m
  BY <1>1
<1>3. q.loaded \in Row /\ q.wanted \in Row /\ q # NoReq
  BY <1>1 DEF Request, Commit
<1>4. q.wanted.status \notin Settled
  BY <1>1, <1>2, <1>3, OverlayIs
<1>5. CASE q.op \in Ops /\ Accepts(q.op, q.loaded) /\ q.wanted = Wanted(q.op, q.loaded)
  <2>1. q.wanted.status = "failed"
    BY <1>3, <1>4, <1>5, WantedIs DEF Settled
  <2> QED
    BY <1>2, <1>3, <1>5, <2>1, WantedIs
<1>6. CASE q.op = "complete" /\ q.wanted = Completed(q.loaded)
  BY <1>3, <1>4, <1>6, CompletedIs DEF Settled
<1>7. CASE q.op = "fail"
  <2>1. m \in Msgs /\ Reporting(r, m)
    BY <1>2, <1>3, Outbox DEF Reporting, IInv
  <2>2. outbox[m].status # "processing"
    BY DEF Settled
  <2>3. ~Calm
    BY <2>1, <2>2 DEF ExclInv, Exclusive, ReportsOwned, LeasedBy
  <2>4. expiries \in Nat /\ ops \in Nat
    BY DEF IInv, TypeOK
  <2> QED
    BY <1>2, <1>7, <2>3, <2>4 DEF Calm
<1> QED
  BY <1>1, <1>5, <1>6, <1>7 DEF Sound

(* Nothing but a request that goes by an old row opens a settled email:    *)
(* what was sent is not sent again by a flush or handed to a worker.       *)
THEOREM SettledForGood == Spec => SettledStays
<1>1. Init => ExclInv
  BY ExclInit
<1>2. IInv /\ ExclInv /\ [Next]_vars => ExclInv'
  BY ExclInductive
<1>3. IInv /\ ExclInv /\ [Next]_vars =>
        [\A m \in Ids : outbox[m].status \in Settled /\ outbox'[m].status \notin Settled =>
           \E r \in Requests :
             /\ Commit(r) /\ req[r].msg = m
             /\ \/ req[r].op = "mark_failed"
                \/ req[r].op = "fail" /\ expiries + ops > 0]_vars
  BY OpenRowsMove, OpeningRequest
<1> QED
  BY <1>1, <1>2, <1>3, Invariant, PTL DEF Spec, SettledStays


-----------------------------------------------------------------------------
(* The send cap.  One flush at a time has counted sends it has not         *)
(* committed; what it counted fits its batch; the sends of the window are  *)
(* counted but for those of runs that rolled back; and every flush that    *)
(* was allowed a send still fits under the limit and the other flushes'.   *)
Num(c, e) == IF c.epoch = e THEN c.count ELSE 0
Committed == Num(quota, epoch)
Counted(f) == Num(view[f].val, epoch)
Held(f) == Cardinality(DOMAIN draft[f])
Cleared == {f \in Flushers : view[f].verdict = "allowed"}
Margin == DailyLimit + (Cardinality(Flushers) - 1)

OneCounts == \A f, g \in Flushers : f # g => ~(view[f].dirty /\ view[g].dirty)

Batches == \A f \in Flushers : Len(batch[f]) <= Held(f) /\ Held(f) <= Batch

CountsFit ==
  \A f \in Flushers : view[f].dirty =>
    Committed <= Counted(f) /\ Counted(f) <= Committed + (Held(f) - Len(batch[f]))

Spends ==
  /\ (\A f \in Flushers : ~view[f].dirty) => spent <= Committed + Batch * faults
  /\ \A f \in Flushers : view[f].dirty => spent <= Counted(f) + Batch * faults

Margins ==
  /\ Committed + Cardinality(Cleared) <= Margin
  /\ \A f \in Flushers : view[f].dirty => Counted(f) + Cardinality(Cleared) <= Margin

FirstPast == \A f \in Flushers : view[f].dirty /\ Committed < DailyLimit => Counted(f) <= DailyLimit

OwnVerdict == \A f \in Flushers : view[f].dirty /\ view[f].verdict = "allowed" => Counted(f) < DailyLimit

CapInv == OneCounts /\ Batches /\ CountsFit /\ Spends /\ Margins /\ FirstPast /\ OwnVerdict

LEMMA NumIs ==
  ASSUME NEW c \in Counter, epoch \in {0, 1}
  PROVE  /\ Num(c, epoch) \in Nat /\ (Allowed(c) <=> Num(c, epoch) < DailyLimit)
         /\ Num(Bump(c), epoch) = Num(c, epoch) + 1
BY OutboxAssumption DEF Counter, Num, Allowed, Bump

LEMMA CapTypes ==
  ASSUME IInv
  PROVE  /\ Committed \in Nat /\ spent \in Nat /\ faults \in Nat /\ Batch \in Nat /\ DailyLimit \in Nat
         /\ DailyLimit > 0 /\ Batch * faults \in Nat
         /\ Cardinality(Flushers) \in Nat /\ Margin \in Int
         /\ IsFiniteSet(Cleared) /\ Cardinality(Cleared) \in Nat /\ Cleared \subseteq Flushers
         /\ \A f \in Flushers : /\ Counted(f) \in Nat /\ Held(f) \in Nat /\ Len(batch[f]) \in Nat
                                /\ IsFiniteSet(DOMAIN draft[f])
<1>1. quota \in Counter /\ epoch \in {0, 1} /\ \A f \in Flushers : view[f].val \in Counter
  BY DEF IInv, TypeOK, View
<1>2. Committed \in Nat /\ \A f \in Flushers : Counted(f) \in Nat
  BY <1>1, NumIs DEF Committed, Counted
<1>3. Cardinality(Flushers) \in Nat
  BY PartiesAssumption, FS_CardinalityType
<1>4. Cleared \in SUBSET Flushers
  BY DEF Cleared
<1>5. IsFiniteSet(Cleared) /\ Cardinality(Cleared) \in Nat
  BY <1>4, PartiesAssumption, FS_Subset, FS_CardinalityType
<1>6. \A f \in Flushers : IsFiniteSet(DOMAIN draft[f]) /\ Held(f) \in Nat
  <2>1. IsFiniteSet(Ids)
    BY Outbox, FS_Interval DEF IInv, Ids
  <2>2. \A f \in Flushers : DOMAIN draft[f] \in SUBSET Ids
    BY DEF IInv, TypeOK
  <2> QED
    BY <2>1, <2>2, FS_Subset, FS_CardinalityType DEF Held
<1>7. spent \in Nat /\ faults \in Nat /\ \A f \in Flushers : Len(batch[f]) \in Nat
  BY DEF IInv, TypeOK
<1>8. Batch \in Nat /\ DailyLimit \in Nat /\ DailyLimit > 0 /\ Batch * faults \in Nat
  BY <1>7, OutboxAssumption
<1>9. Margin \in Int
  BY <1>3, <1>8 DEF Margin
<1> QED
  BY <1>2, <1>3, <1>4, <1>5, <1>6, <1>7, <1>8, <1>9

(* Steps that count nothing and clear no flush. *)
LEMMA CapKept ==
  ASSUME IInv, IInv', CapInv, UNCHANGED <<quota, epoch, spent, faults>>,
         \A f \in Flushers : /\ view'[f].dirty = view[f].dirty
                             /\ view[f].dirty => view'[f].val = view[f].val
                             /\ view'[f].verdict = "allowed" => view[f].verdict = "allowed"
                             /\ Held(f)' = Held(f) /\ Len(batch'[f]) <= Len(batch[f])
  PROVE  CapInv'
<1>1. /\ Committed' = Committed /\ Margin' = Margin /\ spent' = spent /\ faults' = faults
      /\ \A f \in Flushers : view[f].dirty => Counted(f)' = Counted(f)
  BY DEF Committed, Counted, Margin
<1>2. Cardinality(Cleared') <= Cardinality(Cleared) /\ Cardinality(Cleared') \in Nat
  <2>1. Cleared' \in SUBSET Cleared
    BY DEF Cleared
  <2> QED
    BY <2>1, CapTypes, FS_Subset, FS_CardinalityType
<1>3. OneCounts' /\ OwnVerdict' /\ FirstPast' /\ Spends'
  BY <1>1 DEF CapInv, OneCounts, OwnVerdict, FirstPast, Spends
<1>4. \A f \in Flushers : Len(batch'[f]) \in Nat /\ Len(batch[f]) \in Nat /\ Held(f) \in Nat /\ Counted(f) \in Nat
  BY CapTypes DEF IInv, TypeOK
<1>5. Batches'
  <2> SUFFICES ASSUME NEW f \in Flushers
               PROVE  Len(batch'[f]) <= Held(f)' /\ Held(f)' <= Batch
    BY DEF Batches
  <2>1. Len(batch[f]) <= Held(f) /\ Held(f) <= Batch
    BY DEF CapInv, Batches
  <2>2. Held(f)' = Held(f) /\ Len(batch'[f]) <= Len(batch[f])
    OBVIOUS
  <2> QED
    BY <1>4, <2>1, <2>2
<1>6. CountsFit'
  <2> SUFFICES ASSUME NEW f \in Flushers, view'[f].dirty
               PROVE  Committed <= Counted(f) /\ Counted(f) <= Committed + (Held(f) - Len(batch'[f]))
    BY <1>1 DEF CountsFit
  <2>1. Committed <= Counted(f) /\ Counted(f) <= Committed + (Held(f) - Len(batch[f]))
    BY DEF CapInv, CountsFit
  <2>2. Len(batch'[f]) <= Len(batch[f]) /\ Len(batch'[f]) \in Nat /\ Len(batch[f]) \in Nat
        /\ Held(f) \in Nat /\ Counted(f) \in Nat /\ Committed \in Nat
    BY <1>4, CapTypes
  <2> QED
    BY <2>1, <2>2
<1>7. Margins'
  <2>1. Committed \in Nat /\ Margin \in Int /\ Cardinality(Cleared) \in Nat
    BY CapTypes
  <2>2. Committed + Cardinality(Cleared') <= Margin
    <3>1. Committed + Cardinality(Cleared) <= Margin
      BY DEF CapInv, Margins
    <3> QED
      BY <1>2, <2>1, <3>1
  <2>3. ASSUME NEW f \in Flushers, view'[f].dirty
        PROVE  Counted(f)' + Cardinality(Cleared') <= Margin
    <3>1. Counted(f) + Cardinality(Cleared) <= Margin /\ Counted(f)' = Counted(f)
      BY <1>1, <2>3 DEF CapInv, Margins
    <3>2. Counted(f) \in Nat
      BY <1>4
    <3> QED
      BY <1>2, <2>1, <3>1, <3>2
  <2> QED
    BY <1>1, <2>2, <2>3 DEF Margins
<1> QED
  BY <1>3, <1>5, <1>6, <1>7 DEF CapInv

LEMMA CapSame ==
  ASSUME IInv, IInv', CapInv, UNCHANGED <<FlushState, epoch>>
  PROVE  CapInv'
<1>1. /\ batch' = batch /\ draft' = draft /\ view' = view /\ quota' = quota /\ spent' = spent
      /\ faults' = faults /\ epoch' = epoch
  BY DEF FlushState
<1>2. \A f \in Flushers : Len(batch[f]) \in Nat
  BY CapTypes
<1> QED
  BY <1>1, <1>2, CapKept DEF Held

LEMMA CapProcess ==
  ASSUME IInv, IInv', CapInv, NEW f \in Flushers,
         Suppress(f) \/ GiveUp(f) \/ Defer(f) \/ SendFail(f)
  PROVE  CapInv'
<1>1. PICK row \in Row : Process(f, row)
  BY SetAside, FailedRow
<1>2. /\ batch' = [batch EXCEPT ![f] = Tail(batch[f])] /\ quota' = quota /\ faults' = faults /\ epoch' = epoch
      /\ \A g \in Flushers : DOMAIN draft'[g] = DOMAIN draft[g]
  BY <1>1, ProcessIs
<1>3. batch[f] # << >>
  BY <1>1 DEF Process
<1>4. spent' = spent
  BY DEF Suppress, GiveUp, Defer, SendFail
<1>5. \A g \in Flushers : Len(batch'[g]) <= Len(batch[g]) /\ Held(g)' = Held(g)
  <2>1. Len(Tail(batch[f])) = Len(batch[f]) - 1
    BY <1>3, HeadIs
  <2>2. batch'[f] = Tail(batch[f]) /\ \A g \in Flushers : g # f => batch'[g] = batch[g]
    BY <1>2 DEF IInv, TypeOK
  <2> QED
    BY <1>2, <2>1, <2>2, CapTypes DEF Held
<1>6. \A g \in Flushers : /\ view'[g].dirty = view[g].dirty /\ view'[g].val = view[g].val
                          /\ view'[g].verdict = "allowed" => view[g].verdict = "allowed"
  <2>1. CASE view' = view
    BY <2>1
  <2>2. CASE Checked(f)
    BY <2>2, CheckedIs DEF IInv
  <2> QED
    BY <2>1, <2>2 DEF Suppress, GiveUp, Defer, SendFail
<1> QED
  BY <1>2, <1>4, <1>5, <1>6, CapKept

(* A send is counted by the flush that makes it, and uses its clearance.   *)
LEMMA CapSendOk ==
  ASSUME IInv, IInv', CapInv, NEW f \in Flushers, SendOk(f)
  PROVE  CapInv'
<1>1. PICK row \in Row : Process(f, row)
  BY SentRow
<1>2. /\ batch' = [batch EXCEPT ![f] = Tail(batch[f])] /\ quota' = quota /\ faults' = faults /\ epoch' = epoch
      /\ \A g \in Flushers : DOMAIN draft'[g] = DOMAIN draft[g]
  BY <1>1, ProcessIs
<1>3. batch[f] # << >> /\ view[f].verdict = "allowed" /\ spent' = spent + 1
  BY <1>1 DEF Process, SendOk
<1>4. \A g \in Flushers \ {f} : ~view[g].dirty
  BY DEF SendOk, RecordSent
<1>5. /\ view'[f].verdict = "none" /\ view'[f].dirty = TRUE /\ view'[f].val = Bump(Seen(f))
      /\ \A g \in Flushers : g # f => view'[g] = view[g]
  BY RecordIs DEF SendOk, IInv
<1>6. /\ Len(batch'[f]) = Len(batch[f]) - 1 /\ \A g \in Flushers : g # f => batch'[g] = batch[g]
      /\ \A g \in Flushers : Held(g)' = Held(g)
  <2>1. Len(Tail(batch[f])) = Len(batch[f]) - 1
    BY <1>3, HeadIs
  <2> QED
    BY <1>2, <2>1 DEF IInv, TypeOK, Held
<1>7. Committed' = Committed /\ Margin' = Margin
  BY <1>2 DEF Committed, Margin
<1>8. Counted(f)' = (IF view[f].dirty THEN Counted(f) ELSE Committed) + 1
  <2>1. Seen(f) \in Counter /\ epoch \in {0, 1}
    BY SeenTyped DEF IInv, TypeOK
  <2>2. Counted(f)' = Num(Bump(Seen(f)), epoch)
    BY <1>2, <1>5 DEF Counted
  <2>3. Num(Seen(f), epoch) = IF view[f].dirty THEN Counted(f) ELSE Committed
    BY DEF Seen, Counted, Committed
  <2> QED
    BY <2>1, <2>2, <2>3, NumIs
<1>9. Cardinality(Cleared') = Cardinality(Cleared) - 1
  <2>1. Cleared' = Cleared \ {f} /\ f \in Cleared
    BY <1>3, <1>5 DEF Cleared
  <2> QED
    BY <2>1, CapTypes, FS_RemoveElement
<1>10. /\ Committed \in Nat /\ Counted(f) \in Nat /\ Held(f) \in Nat /\ Len(batch[f]) \in Nat /\ spent \in Nat
       /\ Margin \in Int /\ Batch * faults \in Nat /\ Cardinality(Cleared) \in Nat /\ DailyLimit \in Nat
       /\ Batch \in Nat /\ view[f].dirty \in BOOLEAN
  BY CapTypes DEF IInv, TypeOK, View
<1>11. /\ view[f].dirty => /\ Committed <= Counted(f) /\ Counted(f) <= Committed + (Held(f) - Len(batch[f]))
                           /\ spent <= Counted(f) + Batch * faults
                           /\ Counted(f) + Cardinality(Cleared) <= Margin /\ Counted(f) < DailyLimit
       /\ ~view[f].dirty => spent <= Committed + Batch * faults
       /\ Committed + Cardinality(Cleared) <= Margin /\ Len(batch[f]) <= Held(f) /\ Held(f) <= Batch
  <2>1. ~view[f].dirty => \A g \in Flushers : ~view[g].dirty
    BY <1>4
  <2> QED
    BY <1>3, <2>1 DEF CapInv, CountsFit, Spends, Margins, OwnVerdict, Batches
<1>12. \A g \in Flushers : view'[g].dirty <=> g = f
  BY <1>4, <1>5
<1>13. OneCounts' /\ OwnVerdict'
  BY <1>5, <1>12 DEF OneCounts, OwnVerdict
<1>14. Batches'
  BY <1>6, <1>10 DEF CapInv, Batches
<1>15. CountsFit'
  <2> DEFINE n == Len(batch[f])
             d == Counted(f)
             e == Counted(f)'
  <2>1. Committed <= e /\ e <= Committed + (Held(f) - (n - 1))
    <3>1. CASE view[f].dirty
      <4>1. e = d + 1 /\ Committed <= d /\ d <= Committed + (Held(f) - n)
        BY <1>8, <1>11, <3>1
      <4>2. Committed \in Nat /\ d \in Nat /\ n \in Nat /\ Held(f) \in Nat
        BY <1>10
      <4> HIDE DEF d, e, n
      <4> QED
        BY <4>1, <4>2
    <3>2. CASE ~view[f].dirty
      <4>1. e = Committed + 1 /\ n <= Held(f)
        BY <1>8, <1>11, <3>2
      <4>2. Committed \in Nat /\ n \in Nat /\ Held(f) \in Nat
        BY <1>10
      <4> HIDE DEF d, e, n
      <4> QED
        BY <4>1, <4>2
    <3> QED
      BY <1>10, <3>1, <3>2
  <2> QED
    BY <1>6, <1>7, <1>12, <2>1 DEF CountsFit
<1>16. Spends'
  <2> DEFINE k == Batch * faults
             d == Counted(f)
             e == Counted(f)'
  <2>1. spent + 1 <= e + k
    <3>1. k \in Nat /\ d \in Nat /\ Committed \in Nat /\ spent \in Nat
      BY <1>10
    <3>2. (e = d + 1 /\ spent <= d + k) \/ (e = Committed + 1 /\ spent <= Committed + k)
      BY <1>8, <1>11
    <3> HIDE DEF k, d, e
    <3> QED
      BY <3>1, <3>2
  <2> QED
    BY <1>2, <1>3, <1>12, <2>1 DEF Spends
<1>17. Margins'
  <2> DEFINE d == Counted(f)
             e == Counted(f)'
             c == Cardinality(Cleared)
  <2>1. Committed + (c - 1) <= Margin /\ e + (c - 1) <= Margin
    <3>1. Committed \in Nat /\ d \in Nat /\ Margin \in Int /\ c \in Nat
      BY <1>10
    <3>2. \/ e = d + 1 /\ d + c <= Margin
          \/ e = Committed + 1
      BY <1>8, <1>11
    <3>3. Committed + c <= Margin
      BY <1>11
    <3> HIDE DEF d, e, c
    <3> QED
      BY <3>1, <3>2, <3>3
  <2> QED
    BY <1>7, <1>9, <1>12, <2>1 DEF Margins
<1>18. FirstPast'
  <2> DEFINE d == Counted(f)
             e == Counted(f)'
  <2>1. Committed < DailyLimit => e <= DailyLimit
    <3>1. Committed \in Nat /\ d \in Nat /\ DailyLimit \in Nat
      BY <1>10
    <3>2. \/ e = d + 1 /\ d < DailyLimit
          \/ e = Committed + 1
      BY <1>8, <1>11
    <3> HIDE DEF d, e
    <3> QED
      BY <3>1, <3>2
  <2> QED
    BY <1>7, <1>12, <2>1 DEF FirstPast
<1> QED
  BY <1>13, <1>14, <1>15, <1>16, <1>17, <1>18 DEF CapInv

(* A flush is cleared only while its own count, or the committed one, is   *)
(* under the limit.                                                        *)
LEMMA CapCheck ==
  ASSUME IInv, IInv', CapInv, NEW f \in Flushers, CheckQuota(f)
  PROVE  CapInv'
<1> DEFINE s == IF Allowed(Seen(f)) THEN "allowed" ELSE "over"
           v == [view[f] EXCEPT !.verdict = s, !.val = Seen(f)]
<1>1. /\ view' = [view EXCEPT ![f] = v] /\ view[f].verdict = "none"
      /\ quota' = quota /\ epoch' = epoch /\ spent' = spent /\ faults' = faults
      /\ batch' = batch /\ draft' = draft
  BY DEF CheckQuota
<1>2. view[f] \in View /\ view[f].dirty \in BOOLEAN
  BY DEF IInv, TypeOK, View
<1>3. v.verdict = s /\ v.val = Seen(f) /\ v.dirty = view[f].dirty
  BY <1>2 DEF View
<1>4. Seen(f) \in Counter /\ epoch \in {0, 1}
  BY SeenTyped DEF IInv, TypeOK
<1>5. s = "allowed" <=> Num(Seen(f), epoch) < DailyLimit
  BY <1>4, NumIs
<1> HIDE DEF v, s
<1>6. view'[f] = v /\ \A g \in Flushers : g # f => view'[g] = view[g]
  BY <1>1 DEF IInv, TypeOK
<1>7. view[f].dirty => Seen(f) = view[f].val /\ Num(Seen(f), epoch) = Counted(f)
  BY DEF Seen, Counted
<1>8. ~view[f].dirty => Num(Seen(f), epoch) = Committed
  BY DEF Seen, Committed
<1>9. \A g \in Flushers : view'[g].dirty = view[g].dirty /\ (view[g].dirty => view'[g].val = view[g].val)
  BY <1>3, <1>6, <1>7
<1>10. CASE s # "allowed"
  <2>1. \A g \in Flushers : view'[g].verdict = "allowed" => view[g].verdict = "allowed"
    BY <1>3, <1>6, <1>10
  <2>2. \A g \in Flushers : Held(g)' = Held(g) /\ Len(batch'[g]) <= Len(batch[g])
    BY <1>1, CapTypes DEF Held
  <2> QED
    BY <1>1, <1>9, <2>1, <2>2, CapKept
<1>11. CASE s = "allowed"
  <2> DEFINE n == Cardinality(Flushers)
  <2>1. Num(Seen(f), epoch) < DailyLimit
    BY <1>5, <1>11
  <2>2. /\ Committed' = Committed /\ Margin' = Margin /\ spent' = spent /\ faults' = faults
        /\ \A g \in Flushers : view[g].dirty => Counted(g)' = Counted(g)
        /\ \A g \in Flushers : Held(g)' = Held(g) /\ batch'[g] = batch[g]
    BY <1>1, <1>9 DEF Committed, Counted, Margin, Held
  <2>3. Cardinality(Cleared') <= n /\ Cardinality(Cleared') \in Nat
    <3>1. Cleared' \in SUBSET Flushers
      BY DEF Cleared
    <3> QED
      BY <3>1, PartiesAssumption, FS_Subset, FS_CardinalityType
  <2>4. n \in Nat /\ DailyLimit \in Nat /\ Committed \in Nat /\ \A g \in Flushers : Counted(g) \in Nat
    BY CapTypes
  <2>5. OwnVerdict'
    <3>1. view[f].dirty => Counted(f) < DailyLimit
      BY <1>7, <2>1
    <3>2. ASSUME NEW g \in Flushers, view'[g].dirty, view'[g].verdict = "allowed" PROVE Counted(g)' < DailyLimit
      <4>1. CASE g = f
        BY <1>9, <2>2, <3>1, <3>2, <4>1
      <4>2. CASE g # f
        <5>1. view[g].dirty /\ view[g].verdict = "allowed"
          BY <1>6, <3>2, <4>2
        <5> QED
          BY <2>2, <5>1 DEF CapInv, OwnVerdict
      <4> QED
        BY <4>1, <4>2
    <3> QED
      BY <3>2 DEF OwnVerdict
  <2>6. Committed < DailyLimit
    BY <1>7, <1>8, <2>1, <2>4, <1>2 DEF CapInv, CountsFit
  <2>7. ASSUME NEW g \in Flushers, view[g].dirty PROVE Counted(g) + Cardinality(Cleared') <= DailyLimit + (n - 1)
    <3>1. Counted(g) <= DailyLimit
      BY <2>6, <2>7 DEF CapInv, FirstPast
    <3>2. CASE Counted(g) < DailyLimit
      BY <2>3, <2>4, <3>2
    <3>3. CASE Counted(g) = DailyLimit
      <4>1. view'[g].verdict # "allowed"
        BY <1>9, <2>2, <2>4, <2>5, <2>7, <3>3 DEF OwnVerdict
      <4>2. Cleared' \in SUBSET (Flushers \ {g})
        BY <4>1 DEF Cleared
      <4>3. IsFiniteSet(Flushers \ {g}) /\ Cardinality(Flushers \ {g}) = n - 1
        BY PartiesAssumption, FS_RemoveElement
      <4>4. Cardinality(Cleared') <= n - 1
        BY <4>2, <4>3, FS_Subset
      <4> QED
        BY <2>3, <2>4, <3>3, <4>4
    <3> QED
      BY <2>4, <2>7, <3>1, <3>2, <3>3
  <2>8. Committed + Cardinality(Cleared') <= DailyLimit + (n - 1)
    BY <2>3, <2>4, <2>6
  <2>9. Margins'
    BY <1>9, <2>2, <2>7, <2>8 DEF Margins, Margin
  <2>10. OneCounts' /\ Batches' /\ CountsFit' /\ Spends' /\ FirstPast'
    BY <1>9, <2>2 DEF CapInv, OneCounts, Batches, CountsFit, Spends, FirstPast
  <2> QED
    BY <2>5, <2>9, <2>10 DEF CapInv
<1> QED
  BY <1>10, <1>11


(* A flush holds as many rows as are in its batch when it starts. *)
LEMMA ClaimSize ==
  ASSUME IInv, NEW f \in Flushers, FlushStart(f)
  PROVE  /\ DOMAIN draft[f] = {} /\ Held(f) = 0 /\ batch[f] = << >>
         /\ Held(f)' = Len(batch'[f]) /\ Len(batch'[f]) <= Batch /\ Len(batch'[f]) \in Nat
         /\ \A g \in Flushers : g # f => draft'[g] = draft[g] /\ batch'[g] = batch[g]
<1> DEFINE mine == Oldest({m \in Ids : Claimable(m)}, Batch)
           rows == {mine[k] : k \in DOMAIN mine}
           d == [m \in rows |-> outbox[m]]
           n == Len(mine)
           h == [k \in 1..n |-> mine[k]]
<1>1. /\ mine \in Seq(Msgs) /\ n \in Nat /\ n <= Batch
      /\ batch' = [batch EXCEPT ![f] = mine] /\ draft[f] = << >>
      /\ draft' = [draft EXCEPT ![f] = d]
      /\ \A i, j \in 1..n : i # j => mine[i] # mine[j]
  BY ClaimIs
<1> HIDE DEF mine
<1>2. DOMAIN mine = 1..n
  BY <1>1
<1>3. h \in Bijection(1..n, rows)
  <2>1. h \in [1..n -> rows] /\ \A t \in rows : \E k \in 1..n : h[k] = t
    BY <1>2
  <2>2. \A i, j \in 1..n : h[i] = h[j] => i = j
    BY <1>1
  <2> HIDE DEF h, rows, n
  <2> QED
    BY <2>1, <2>2 DEF Bijection, Injection, Surjection, IsInjective
<1>4. Cardinality(rows) = n
  <2>1. IsFiniteSet(1..n) /\ Cardinality(1..n) = n
    <3>1. n \in Nat
      BY <1>1
    <3> HIDE DEF n
    <3> QED
      BY <3>1, FS_Interval
  <2>2. ExistsBijection(1..n, rows)
    BY <1>3 DEF ExistsBijection
  <2> HIDE DEF rows, n
  <2> QED
    BY <2>1, <2>2, FS_Bijection
<1>5. DOMAIN d = rows
  OBVIOUS
<1> HIDE DEF d
<1>6. draft'[f] = d /\ batch'[f] = mine /\ \A g \in Flushers : g # f => draft'[g] = draft[g] /\ batch'[g] = batch[g]
  BY <1>1 DEF IInv, TypeOK
<1>7. DOMAIN draft[f] = {} /\ Held(f) = 0
  BY <1>1, EmptySession, FS_EmptySet DEF Held
<1>8. batch[f] = << >>
  <2>1. batch[f] \in Seq(Msgs) /\ \A i \in 1..Len(batch[f]) : batch[f][i] \in {}
    BY <1>7 DEF IInv, Left, TypeOK
  <2>2. batch[f] # << >> => 1 \in 1..Len(batch[f])
    BY <2>1
  <2> QED
    BY <2>1, <2>2
<1> QED
  BY <1>1, <1>4, <1>5, <1>6, <1>7, <1>8 DEF Held

LEMMA CapStart ==
  ASSUME IInv, IInv', CapInv, NEW f \in Flushers, FlushStart(f)
  PROVE  CapInv'
<1>1. view' = view /\ quota' = quota /\ spent' = spent /\ faults' = faults /\ epoch' = epoch
  BY DEF FlushStart
<1>2. /\ Held(f) = 0 /\ Len(batch[f]) = 0
      /\ Held(f)' = Len(batch'[f]) /\ Len(batch'[f]) <= Batch /\ Len(batch'[f]) \in Nat
      /\ \A g \in Flushers : g # f => Held(g)' = Held(g) /\ batch'[g] = batch[g]
  BY ClaimSize DEF Held
<1>3. /\ Committed' = Committed /\ Margin' = Margin /\ Cleared' = Cleared
      /\ \A g \in Flushers : Counted(g)' = Counted(g)
  BY <1>1 DEF Committed, Margin, Cleared, Counted
<1>4. OneCounts' /\ Spends' /\ Margins' /\ FirstPast' /\ OwnVerdict'
  BY <1>1, <1>3 DEF CapInv, OneCounts, Spends, Margins, FirstPast, OwnVerdict
<1>5. Batches'
  <2> SUFFICES ASSUME NEW g \in Flushers
               PROVE  Len(batch'[g]) <= Held(g)' /\ Held(g)' <= Batch
    BY DEF Batches
  <2>1. CASE g = f
    BY <1>2, <2>1
  <2>2. CASE g # f
    <3>1. Len(batch[g]) <= Held(g) /\ Held(g) <= Batch
      BY DEF CapInv, Batches
    <3> QED
      BY <1>2, <2>2, <3>1
  <2> QED
    BY <2>1, <2>2
<1>6. CountsFit'
  <2> SUFFICES ASSUME NEW g \in Flushers, view[g].dirty
               PROVE  Committed <= Counted(g) /\ Counted(g) <= Committed + (Held(g)' - Len(batch'[g]))
    BY <1>1, <1>3 DEF CountsFit
  <2>1. Committed <= Counted(g) /\ Counted(g) <= Committed + (Held(g) - Len(batch[g]))
    BY DEF CapInv, CountsFit
  <2>2. Held(g)' - Len(batch'[g]) = Held(g) - Len(batch[g])
    <3>1. CASE g = f
      <4>1. Held(g)' - Len(batch'[g]) = 0 /\ Held(g) - Len(batch[g]) = 0
        BY <1>2, <3>1
      <4> QED
        BY <4>1
    <3>2. CASE g # f
      BY <1>2, <3>2
    <3> QED
      BY <3>1, <3>2
  <2> QED
    BY <2>1, <2>2
<1> QED
  BY <1>4, <1>5, <1>6 DEF CapInv

(* A flush ends: it commits its count, or rolls it back with its batch. *)
LEMMA CapEnd ==
  ASSUME IInv, IInv', CapInv, NEW f \in Flushers, FlushCommit(f) \/ FlushAbort(f)
  PROVE  CapInv'
<1>1. /\ draft' = [draft EXCEPT ![f] = << >>] /\ view' = [view EXCEPT ![f] = NoView]
      /\ spent' = spent /\ epoch' = epoch
      /\ \/ FlushCommit(f) /\ batch' = batch /\ batch[f] = << >> /\ faults' = faults
            /\ quota' = IF view[f].dirty THEN view[f].val ELSE quota
         \/ FlushAbort(f) /\ batch' = [batch EXCEPT ![f] = << >>] /\ quota' = quota /\ faults' = faults + 1
  BY DEF FlushCommit, FlushAbort
<1>2. /\ draft'[f] = << >> /\ view'[f] = NoView /\ batch'[f] = << >>
      /\ \A g \in Flushers : g # f => draft'[g] = draft[g] /\ view'[g] = view[g] /\ batch'[g] = batch[g]
  BY <1>1 DEF IInv, TypeOK
<1>3. /\ Held(f)' = 0 /\ Len(batch'[f]) = 0 /\ ~view'[f].dirty /\ view'[f].verdict = "none"
      /\ \A g \in Flushers : g # f => Held(g)' = Held(g) /\ batch'[g] = batch[g] /\ view'[g] = view[g]
                                      /\ Counted(g)' = Counted(g)
  BY <1>1, <1>2, EmptySession, FS_EmptySet DEF Held, NoView, Counted
<1>4. Margin' = Margin /\ Cardinality(Cleared') <= Cardinality(Cleared) /\ Cardinality(Cleared') \in Nat
  <2>1. Cleared' \in SUBSET Cleared
    BY <1>3 DEF Cleared
  <2> QED
    BY <2>1, CapTypes, FS_Subset, FS_CardinalityType DEF Margin
<1>5. /\ Committed \in Nat /\ Counted(f) \in Nat /\ Held(f) \in Nat /\ Len(batch[f]) \in Nat /\ spent \in Nat
      /\ Margin \in Int /\ Cardinality(Cleared) \in Nat /\ Batch \in Nat /\ faults \in Nat
      /\ Batch * faults \in Nat /\ Batch * (faults + 1) = Batch * faults + Batch
  BY CapTypes
<1>6. \A g \in Flushers : view'[g].dirty => g # f /\ view[g].dirty
  BY <1>3
<1>7. Batches'
  BY <1>3, <1>5 DEF CapInv, Batches
<1>8. OneCounts' /\ OwnVerdict'
  BY <1>3, <1>6 DEF CapInv, OneCounts, OwnVerdict
<1>9. CASE Committed' = Committed /\ faults' = faults /\ ~view[f].dirty
  <2>1. CountsFit' /\ FirstPast'
    BY <1>3, <1>6, <1>9 DEF CapInv, CountsFit, FirstPast
  <2>2. Spends'
    BY <1>1, <1>3, <1>9 DEF CapInv, Spends
  <2>3. Margins'
    <3>1. \A g \in Flushers : Counted(g) \in Nat
      BY CapTypes
    <3> QED
      BY <1>3, <1>4, <1>5, <1>6, <1>9, <3>1 DEF CapInv, Margins
  <2> QED
    BY <1>7, <1>8, <2>1, <2>2, <2>3 DEF CapInv
<1>10. CASE FlushCommit(f) /\ view[f].dirty
  <2>1. Committed' = Counted(f) /\ faults' = faults
    BY <1>1, <1>10 DEF Committed, Counted, FlushAbort, FlushCommit
  <2>2. \A g \in Flushers : ~view'[g].dirty
    BY <1>6, <1>10 DEF CapInv, OneCounts
  <2>3. spent <= Counted(f) + Batch * faults /\ Counted(f) + Cardinality(Cleared) <= Margin
    BY <1>10 DEF CapInv, Spends, Margins
  <2>4. Counted(f) + Cardinality(Cleared') <= Margin
    BY <1>4, <1>5, <2>3
  <2>5. Spends' /\ Margins' /\ CountsFit' /\ FirstPast'
    BY <1>1, <1>4, <2>1, <2>2, <2>3, <2>4 DEF Spends, Margins, CountsFit, FirstPast
  <2> QED
    BY <1>7, <1>8, <2>5 DEF CapInv
<1>11. CASE FlushAbort(f)
  <2>1. Committed' = Committed /\ faults' = faults + 1 /\ spent' = spent
    BY <1>1, <1>11 DEF Committed, FlushAbort
  <2>2. CountsFit' /\ FirstPast'
    BY <1>3, <1>6, <2>1 DEF CapInv, CountsFit, FirstPast
  <2>3. Margins'
    <3>1. \A g \in Flushers : Counted(g) \in Nat
      BY CapTypes
    <3> QED
      BY <1>3, <1>4, <1>5, <1>6, <2>1, <3>1 DEF CapInv, Margins
  <2>4. (\A g \in Flushers : ~view'[g].dirty) => spent <= Committed + (Batch * faults + Batch)
    <3>1. CASE view[f].dirty
      <4>1. /\ spent <= Counted(f) + Batch * faults /\ Counted(f) <= Committed + (Held(f) - Len(batch[f]))
            /\ Held(f) <= Batch
        BY <3>1 DEF CapInv, Spends, CountsFit, Batches
      <4> DEFINE o == Batch * faults
      <4> HIDE DEF o
      <4>2. o \in Nat /\ spent <= Counted(f) + o
        BY <1>5, <4>1 DEF o
      <4> DEFINE d == Counted(f)
                 h == Held(f)
                 n == Len(batch[f])
      <4>3. spent <= Committed + (o + Batch)
        <5>1. /\ spent \in Nat /\ Committed \in Nat /\ d \in Nat /\ h \in Nat /\ n \in Nat
              /\ Batch \in Nat
          BY <1>5, CapTypes
        <5>2. spent <= d + o /\ d <= Committed + (h - n) /\ h <= Batch
          BY <4>1, <4>2
        <5> HIDE DEF d, h, n
        <5> QED
          BY <4>2, <5>1, <5>2
      <4> QED
        BY <4>3 DEF o
    <3>2. CASE ~view[f].dirty
      <4>1. (\A g \in Flushers : ~view'[g].dirty) => spent <= Committed + Batch * faults
        BY <1>3, <3>2 DEF CapInv, Spends
      <4> QED
        BY <1>5, <4>1
    <3> QED
      BY <3>1, <3>2
  <2>5. \A g \in Flushers : view'[g].dirty => spent <= Counted(g)' + (Batch * faults + Batch)
    <3>1. ASSUME NEW g \in Flushers, view'[g].dirty PROVE spent <= Counted(g) + (Batch * faults + Batch)
      <4>1. spent <= Counted(g) + Batch * faults /\ Counted(g) \in Nat
        BY <1>6, <3>1, CapTypes DEF CapInv, Spends
      <4> QED
        BY <1>5, <4>1
    <3> QED
      BY <1>3, <1>6, <3>1
  <2>6. Spends'
    BY <1>5, <2>1, <2>4, <2>5 DEF Spends
  <2> QED
    BY <1>7, <1>8, <2>2, <2>3, <2>6 DEF CapInv
<1> QED
  <2>1. CASE FlushCommit(f) /\ ~view[f].dirty
    <3>1. Committed' = Committed /\ faults' = faults
      BY <2>1 DEF Committed, FlushCommit
    <3> QED
      BY <1>9, <2>1, <3>1
  <2> QED
    BY <1>10, <1>11, <2>1

(* A new window: nothing is counted in it. *)
LEMMA CapClose ==
  ASSUME IInv, IInv', CapInv, CloseWindow
  PROVE  CapInv'
<1>1. /\ quota.epoch = epoch /\ epoch' = 1 - epoch /\ spent' = 0 /\ quota' = quota /\ view' = view
      /\ batch' = batch /\ draft' = draft /\ faults' = faults
      /\ \A f \in Flushers : view[f] = NoView \/ view[f].val.epoch = epoch
  BY DEF CloseWindow
<1>2. epoch \in {0, 1} /\ epoch' # epoch
  BY <1>1 DEF IInv, TypeOK
<1>3. Committed' = 0 /\ Cleared' = Cleared /\ Margin' = Margin
  BY <1>1, <1>2 DEF Committed, Num, Cleared, Margin
<1>4. \A f \in Flushers : view[f].dirty => Counted(f)' = 0
  BY <1>1, <1>2 DEF Counted, Num, NoView
<1>5. \A f \in Flushers : Held(f)' = Held(f)
  BY <1>1 DEF Held
<1>6. Cardinality(Cleared) <= Margin
  <2>1. Cardinality(Cleared) <= Cardinality(Flushers)
    BY CapTypes, PartiesAssumption, FS_Subset
  <2>2. Cardinality(Cleared) \in Nat /\ Cardinality(Flushers) \in Nat /\ DailyLimit \in Nat /\ DailyLimit > 0
    BY CapTypes
  <2> QED
    BY <2>1, <2>2 DEF Margin
<1>7. /\ DailyLimit > 0 /\ DailyLimit \in Nat /\ Batch * faults \in Nat /\ Cardinality(Cleared) \in Nat
      /\ \A f \in Flushers : Held(f) \in Nat /\ Len(batch[f]) \in Nat
  BY CapTypes
<1>8. OneCounts' /\ Batches'
  BY <1>1, <1>5 DEF CapInv, OneCounts, Batches
<1>9. CountsFit'
  <2> SUFFICES ASSUME NEW f \in Flushers, view[f].dirty
               PROVE  0 <= Counted(f)' /\ Counted(f)' <= 0 + (Held(f) - Len(batch[f]))
    BY <1>1, <1>3, <1>5 DEF CountsFit
  <2>1. Len(batch[f]) <= Held(f) /\ Counted(f)' = 0
    BY <1>4 DEF CapInv, Batches
  <2> QED
    BY <1>7, <2>1
<1>10. FirstPast' /\ OwnVerdict'
  BY <1>1, <1>4, <1>7 DEF FirstPast, OwnVerdict
<1>11. Spends'
  <2>1. Batch * faults >= 0
    BY <1>7
  <2> QED
    BY <1>1, <1>3, <1>4, <1>7, <2>1 DEF Spends
<1>12. Margins'
  BY <1>1, <1>3, <1>4, <1>6, <1>7 DEF Margins
<1> QED
  BY <1>8, <1>9, <1>10, <1>11, <1>12 DEF CapInv

LEMMA CapStep ==
  ASSUME IInv, IInv', CapInv, Next
  PROVE  CapInv'
<1>1. ASSUME \/ \E s \in {"draft", "pending", "skipped"}, d \in BOOLEAN : Queue(s, d)
             \/ \E m \in Msgs : Elapse(m)
             \/ \E m \in Msgs : ExpireLease(m)
      PROVE  CapInv'
  <2>1. UNCHANGED <<FlushState, epoch>>
    BY <1>1 DEF Queue, Elapse, ExpireLease
  <2> QED
    BY <2>1, CapSame
<1>2. ASSUME \/ \E w \in Workers, n \in 1..MaxMsgs : WorkerClaim(w, n)
             \/ \E w \in Workers, m \in Msgs, ok \in BOOLEAN : WorkerSend(w, m, ok)
             \/ ReleaseExpired
      PROVE  CapInv'
  <2>1. UNCHANGED <<FlushState, epoch>>
    BY <1>2 DEF WorkerClaim, WorkerSend, ReleaseExpired
  <2> QED
    BY <2>1, CapSame
<1>3. ASSUME \/ \E r \in Requests, op \in Ops, m \in Msgs : OperatorLoad(r, op, m)
             \/ \E r \in Requests, w \in Workers, m \in Msgs : WorkerReport(r, w, m)
             \/ \E r \in Requests : Commit(r)
      PROVE  CapInv'
  <2>1. UNCHANGED <<FlushState, epoch>>
    BY <1>3 DEF OperatorLoad, WorkerReport, Commit, Load
  <2> QED
    BY <2>1, CapSame
<1>4. ASSUME \E f \in Flushers : FlushStart(f) PROVE CapInv'
  BY <1>4, CapStart
<1>5. ASSUME \E f \in Flushers : Suppress(f) \/ GiveUp(f) \/ Defer(f) \/ SendFail(f) PROVE CapInv'
  BY <1>5, CapProcess
<1>6. ASSUME \E f \in Flushers : CheckQuota(f) PROVE CapInv'
  BY <1>6, CapCheck
<1>7. ASSUME \E f \in Flushers : SendOk(f) PROVE CapInv'
  BY <1>7, CapSendOk
<1>8. ASSUME \E f \in Flushers : FlushCommit(f) \/ FlushAbort(f) PROVE CapInv'
  BY <1>8, CapEnd
<1> QED
  BY <1>1, <1>2, <1>3, <1>4, <1>5, <1>6, <1>7, <1>8, CapClose, NextCases

(* However many flush runs overlap, a window's sends stay within the       *)
(* limit, but for one send per overlapping run and for what the runs that  *)
(* rolled back had sent: a run that was cleared before the limit was       *)
(* reached is counted when it sends, and cannot be cleared again.          *)
THEOREM WithinCap == Spec => []CapHolds
<1>1. Init => CapInv
  <2> SUFFICES ASSUME Init PROVE CapInv
    OBVIOUS
  <2>1. IInv
    BY Start
  <2>2. \A f \in Flushers : /\ ~view[f].dirty /\ view[f].verdict = "none" /\ Len(batch[f]) = 0 /\ Held(f) = 0
    BY EmptySession, FS_EmptySet DEF Init, NoView, Held
  <2>3. Cleared = {} /\ Cardinality(Cleared) = 0
    BY <2>2, FS_EmptySet DEF Cleared
  <2>4. Committed = 0 /\ spent = 0
    BY DEF Init, Committed, Num
  <2>5. /\ Batch \in Nat /\ Batch * faults \in Nat /\ DailyLimit \in Nat /\ DailyLimit > 0
        /\ Cardinality(Flushers) \in Nat
    BY <2>1, CapTypes
  <2>6. 0 <= Margin
    BY <2>5 DEF Margin
  <2>7. Batches /\ OneCounts /\ CountsFit /\ FirstPast /\ OwnVerdict
    BY <2>2, <2>5 DEF Batches, OneCounts, CountsFit, FirstPast, OwnVerdict
  <2>8. Spends /\ Margins
    BY <2>2, <2>3, <2>4, <2>5, <2>6 DEF Spends, Margins
  <2> QED
    BY <2>7, <2>8 DEF CapInv
<1>2. IInv /\ IInv' /\ CapInv /\ [Next]_vars => CapInv'
  <2>1. ASSUME IInv, IInv', CapInv, UNCHANGED vars PROVE CapInv'
    BY <2>1, CapSame DEF vars, FlushState
  <2> QED
    BY <2>1, CapStep
<1>3. IInv /\ CapInv => CapHolds
  <2> SUFFICES ASSUME IInv, CapInv PROVE spent <= Margin + Batch * faults
    BY DEF CapHolds, Margin
  <2> DEFINE o == Batch * faults
             c == Cardinality(Cleared)
  <2>1. o \in Nat /\ c \in Nat /\ spent \in Nat /\ Committed \in Nat /\ Margin \in Int
        /\ \A f \in Flushers : Counted(f) \in Nat
    BY CapTypes
  <2>2. CASE \E f \in Flushers : view[f].dirty
    <3>1. PICK f \in Flushers : view[f].dirty
      BY <2>2
    <3>2. spent <= Counted(f) + o /\ Counted(f) + c <= Margin
      BY <3>1 DEF CapInv, Spends, Margins
    <3> HIDE DEF o, c
    <3> QED
      BY <2>1, <3>2 DEF o
  <2>3. CASE \A f \in Flushers : ~view[f].dirty
    <3>1. spent <= Committed + o /\ Committed + c <= Margin
      BY <2>3 DEF CapInv, Spends, Margins
    <3> HIDE DEF o, c
    <3> QED
      BY <2>1, <3>1 DEF o
  <2> QED
    BY <2>2, <2>3
<1> QED
  BY <1>1, <1>2, <1>3, Invariant, PTL DEF Spec


-----------------------------------------------------------------------------
(* The budget of an email, in two currencies: copies delivered (0) and     *)
(* attempts (1).  A row costs what may still be spent on it, a claim what  *)
(* its worker may spend, a report in progress what its commit opens again; *)
(* with what is spent, these never exceed one unit, plus one for every     *)
(* lease that expired and every operator who may reopen it, plus one       *)
(* delivery or attempt for every flush that rolled back.                   *)
Unit(c) == IF c = 0 THEN 1 ELSE MaxAttempts + 1

(* What a row with a attempts may cost ... *)
Price(c, a) == IF c = 0 \/ a > MaxAttempts THEN 1 ELSE (MaxAttempts + 1) - a

(* ... and what is left when a worker reports its attempt as failed. *)
After(c, a) == IF c = 0 THEN 1 ELSE IF a + 1 >= MaxAttempts THEN 0 ELSE MaxAttempts - a

LEMMA Prices ==
  ASSUME NEW c \in {0, 1}, NEW a \in Nat
  PROVE  /\ Unit(c) \in Nat /\ Price(c, a) \in Nat /\ After(c, a) \in Nat
         /\ 1 <= Price(c, a) /\ Price(c, a) <= Unit(c) /\ After(c, a) + c <= Price(c, a)
         /\ After(c, a) <= Unit(c)
         /\ a + 1 < MaxAttempts => Price(c, a + 1) <= After(c, a)
         /\ a < MaxAttempts => Price(c, a + 1) + c <= Price(c, a)
         /\ c = 0 => Price(c, a) = 1
         /\ Price(c, 0) = Unit(c)
BY OutboxAssumption DEF Unit, Price, After

Open(c, row) ==
  IF row.status \in {"draft", "pending", "failed"} THEN Price(c, row.attempts)
  ELSE IF row.status = "processing" /\ row.lease = "expired" THEN Unit(c) ELSE 0

(* A row in a flush's session: an attempt it made is spent already. *)
InHand(c, row, d) ==
  IF d.attempts # row.attempts /\ (c = 1 \/ d.status = "sent")
  THEN Price(c, row.attempts) - 1 ELSE Price(c, row.attempts)

LeaseOf(c, row, col) ==
  IF row.status = "processing" /\ row.owner \in Workers /\ col[row.owner] = "claimed"
  THEN Price(c, row.attempts)
  ELSE IF row.status = "processing" /\ row.owner \in Workers /\ col[row.owner] = "undelivered"
       THEN After(c, row.attempts) ELSE 0

(* Workers about to send an email that is no longer theirs. *)
Dangling(row, col) == {w \in Workers : col[w] = "claimed" /\ ~LeasedBy(row, w)}

ClaimsOf(c, row, col) == LeaseOf(c, row, col) + Cardinality(Dangling(row, col))

LEMMA OpenIs ==
  ASSUME NEW c \in {0, 1}, NEW row \in Row
  PROVE  /\ Open(c, row) \in Nat /\ Open(c, row) <= Unit(c)
         /\ \A d \in Row : InHand(c, row, d) \in Nat /\ InHand(c, row, d) <= Price(c, row.attempts)
                           /\ Price(c, row.attempts) <= InHand(c, row, d) + 1
<1>1. row.attempts \in Nat
  BY DEF Row
<1>2. Unit(c) \in Nat /\ Price(c, row.attempts) \in Nat /\ 1 <= Price(c, row.attempts)
      /\ Price(c, row.attempts) <= Unit(c)
  BY <1>1, Prices
<1> QED
  BY <1>2 DEF Open, InHand

LEMMA ClaimsIs ==
  ASSUME NEW c \in {0, 1}, NEW row \in Row, NEW col \in [Workers -> JobStates]
  PROVE  /\ LeaseOf(c, row, col) \in Nat /\ ClaimsOf(c, row, col) \in Nat
         /\ IsFiniteSet(Dangling(row, col)) /\ Cardinality(Dangling(row, col)) \in Nat
<1>1. row.attempts \in Nat
  BY DEF Row
<1>2. Price(c, row.attempts) \in Nat /\ After(c, row.attempts) \in Nat
  BY <1>1, Prices
<1>3. LeaseOf(c, row, col) \in Nat
  BY <1>2 DEF LeaseOf
<1>4. Dangling(row, col) \in SUBSET Workers
  BY DEF Dangling
<1>5. IsFiniteSet(Dangling(row, col)) /\ Cardinality(Dangling(row, col)) \in Nat
  BY <1>4, PartiesAssumption, FS_Subset, FS_CardinalityType
<1> QED
  BY <1>3, <1>5 DEF ClaimsOf

(* A row that leaves its worker: a send it has not made yet is left over.  *)
LEMMA ClaimsLoosen ==
  ASSUME NEW c \in {0, 1}, NEW row \in Row, NEW new \in Row, NEW col \in [Workers -> JobStates],
         new.status = "processing" => row.status = "processing" /\ new.owner \in {row.owner, None},
         new.status = "processing" /\ new.owner \in Workers => new.attempts = row.attempts
  PROVE  ClaimsOf(c, new, col) <= ClaimsOf(c, row, col)
<1> DEFINE D == Dangling(row, col)
           E == Dangling(new, col)
           w == row.owner
           nD == Cardinality(D)
           nE == Cardinality(E)
           old == LeaseOf(c, row, col)
<1>1. IsFiniteSet(D) /\ IsFiniteSet(E) /\ nD \in Nat /\ nE \in Nat /\ old \in Nat
  BY ClaimsIs
<1>2. None \notin Workers /\ row.attempts \in Nat
  BY PartiesAssumption DEF Row
<1>3. 1 <= Price(c, row.attempts) /\ Price(c, row.attempts) \in Nat
  BY <1>2, Prices
<1>4. CASE new.status = "processing" /\ new.owner \in Workers
  <2>1. row.status = "processing" /\ new.owner = row.owner /\ new.attempts = row.attempts
    BY <1>2, <1>4
  <2>2. E = D /\ LeaseOf(c, new, col) = LeaseOf(c, row, col)
    BY <1>4, <2>1 DEF Dangling, LeasedBy, LeaseOf
  <2> QED
    BY <1>1, <2>2 DEF ClaimsOf
<1>5. CASE ~(new.status = "processing" /\ new.owner \in Workers)
  <2>1. LeaseOf(c, new, col) = 0
    BY <1>5 DEF LeaseOf
  <2>2. nE <= old + nD
    <3>1. CASE row.status = "processing" /\ w \in Workers /\ col[w] = "claimed"
      <4>1. E \subseteq D \cup {w}
        BY DEF Dangling, LeasedBy
      <4>2. 1 <= old
        BY <1>3, <3>1 DEF LeaseOf
      <4> HIDE DEF D, E, w
      <4>3. IsFiniteSet(D \cup {w}) /\ Cardinality(D \cup {w}) \in {nD, nD + 1}
        BY <1>1, FS_AddElement
      <4>4. nE <= Cardinality(D \cup {w})
        BY <4>1, <4>3, FS_Subset
      <4> HIDE DEF nD, nE, old
      <4> QED
        BY <1>1, <4>2, <4>3, <4>4
    <3>2. CASE ~(row.status = "processing" /\ w \in Workers /\ col[w] = "claimed")
      <4>1. E \subseteq D
        BY <3>2 DEF Dangling, LeasedBy
      <4>2. nE <= nD
        BY <1>1, <4>1, FS_Subset
      <4> HIDE DEF nD, nE, old
      <4> QED
        BY <1>1, <4>2
    <3> QED
      BY <3>1, <3>2
  <2> HIDE DEF nD, nE, old
  <2>3. 0 + nE <= old + nD
    BY <1>1, <2>2
  <2> QED
    BY <2>1, <2>3 DEF ClaimsOf, nD, nE, old
<1> QED
  BY <1>4, <1>5

(* A claim takes the row's price with it. *)
LEMMA ClaimsTake ==
  ASSUME NEW c \in {0, 1}, NEW row \in Row, NEW new \in Row, NEW w \in Workers,
         NEW col \in [Workers -> JobStates], NEW col2 \in [Workers -> JobStates],
         row.status # "processing", new.status = "processing", new.owner = w, new.attempts = row.attempts,
         col2[w] = "claimed", \A u \in Workers \ {w} : col2[u] = col[u]
  PROVE  ClaimsOf(c, new, col2) <= ClaimsOf(c, row, col) + Price(c, row.attempts)
<1> DEFINE D == Dangling(row, col)
           E == Dangling(new, col2)
           p == Price(c, row.attempts)
<1>1. IsFiniteSet(D) /\ IsFiniteSet(E) /\ Cardinality(D) \in Nat /\ Cardinality(E) \in Nat
  BY ClaimsIs
<1>2. p \in Nat
  BY Prices DEF Row
<1>3. LeaseOf(c, row, col) = 0 /\ LeaseOf(c, new, col2) = p
  BY DEF LeaseOf
<1>4. E \subseteq D
  BY DEF Dangling, LeasedBy
<1>5. Cardinality(E) <= Cardinality(D)
  BY <1>1, <1>4, FS_Subset
<1> HIDE DEF D, E, p
<1> QED
  BY <1>1, <1>2, <1>3, <1>5 DEF ClaimsOf, D, E, p

(* A send is paid by the claim, or by the send left over. *)
LEMMA ClaimsSend ==
  ASSUME NEW c \in {0, 1}, NEW row \in Row, NEW w \in Workers, NEW ok \in BOOLEAN, NEW n \in {0, 1},
         NEW col \in [Workers -> JobStates], NEW col2 \in [Workers -> JobStates],
         col[w] = "claimed", col2[w] \in {"delivered", "undelivered"}, col2[w] = "delivered" <=> ok,
         \A u \in Workers \ {w} : col2[u] = col[u], n = 1 <=> c = 1 \/ ok
  PROVE  ClaimsOf(c, row, col2) + n <= ClaimsOf(c, row, col)
<1> DEFINE D == Dangling(row, col)
           E == Dangling(row, col2)
           p == Price(c, row.attempts)
           a == After(c, row.attempts)
<1>1. /\ IsFiniteSet(D) /\ IsFiniteSet(E) /\ Cardinality(D) \in Nat /\ Cardinality(E) \in Nat
      /\ LeaseOf(c, row, col) \in Nat /\ LeaseOf(c, row, col2) \in Nat
  BY ClaimsIs
<1>2. p \in Nat /\ a \in Nat /\ a + c <= p /\ 1 <= p
  BY Prices DEF Row
<1>3. CASE LeasedBy(row, w)
  <2>1. E = D
    BY <1>3 DEF Dangling, LeasedBy
  <2>2. LeaseOf(c, row, col) = p /\ LeaseOf(c, row, col2) = IF ok THEN 0 ELSE a
    BY <1>3 DEF LeaseOf, LeasedBy
  <2>3. (IF ok THEN 0 ELSE a) + n <= p
    <3> HIDE DEF p, a
    <3>1. CASE ok
      BY <1>2, <3>1
    <3>2. CASE ~ok
      BY <1>2, <3>2
    <3> QED
      BY <3>1, <3>2
  <2> DEFINE nD == Cardinality(D)
             x == LeaseOf(c, row, col2)
  <2>4. nD \in Nat /\ x \in Nat /\ x + n <= p
    BY <1>1, <2>2, <2>3
  <2> HIDE DEF p, nD, x
  <2>5. (x + nD) + n <= p + nD
    BY <1>2, <2>4
  <2> QED
    BY <2>1, <2>2, <2>5 DEF ClaimsOf, nD, x, p
<1>4. CASE ~LeasedBy(row, w)
  <2>1. w \in D /\ E = D \ {w}
    BY <1>4 DEF Dangling
  <2>2. Cardinality(E) = Cardinality(D) - 1
    BY <1>1, <2>1, FS_RemoveElement
  <2>3. LeaseOf(c, row, col2) = LeaseOf(c, row, col)
    BY <1>4 DEF LeaseOf, LeasedBy
  <2> DEFINE nD == Cardinality(D)
             nE == Cardinality(E)
             x == LeaseOf(c, row, col)
  <2>4. nD \in Nat /\ nE = nD - 1 /\ x \in Nat /\ LeaseOf(c, row, col2) = x
    BY <1>1, <2>2, <2>3
  <2> HIDE DEF nD, nE, x
  <2>5. (x + nE) + n <= x + nD
    BY <2>4
  <2> QED
    BY <2>4, <2>5 DEF ClaimsOf, nD, nE, x
<1> QED
  BY <1>3, <1>4

(* A report hands on what is left of the claim. *)
LEMMA ClaimsReport ==
  ASSUME NEW c \in {0, 1}, NEW row \in Row, NEW w \in Workers,
         NEW col \in [Workers -> JobStates], NEW col2 \in [Workers -> JobStates],
         col[w] \in {"delivered", "undelivered"}, col2[w] = "none",
         \A u \in Workers \ {w} : col2[u] = col[u]
  PROVE  /\ ClaimsOf(c, row, col2) <= ClaimsOf(c, row, col)
         /\ LeasedBy(row, w) /\ col[w] = "undelivered" =>
              ClaimsOf(c, row, col2) + After(c, row.attempts) <= ClaimsOf(c, row, col)
<1> DEFINE D == Dangling(row, col)
           a == After(c, row.attempts)
           x == LeaseOf(c, row, col)
           y == LeaseOf(c, row, col2)
           nD == Cardinality(D)
<1>1. nD \in Nat /\ x \in Nat /\ y \in Nat
  BY ClaimsIs
<1>2. a \in Nat
  BY Prices DEF Row
<1>3. Dangling(row, col2) = D
  BY DEF Dangling
<1>4. CASE LeasedBy(row, w)
  <2>1. y = 0 /\ (col[w] = "undelivered" => x = a)
    BY <1>4 DEF LeaseOf, LeasedBy
  <2> HIDE DEF nD, x, y, a
  <2>2. y + nD <= x + nD /\ (col[w] = "undelivered" => (y + nD) + a <= x + nD)
    BY <1>1, <1>2, <2>1
  <2> QED
    BY <1>3, <2>2 DEF ClaimsOf, nD, x, y, a
<1>5. CASE ~LeasedBy(row, w)
  <2>1. x = y
    BY <1>5 DEF LeaseOf, LeasedBy
  <2> QED
    BY <1>1, <1>3, <1>5, <2>1 DEF ClaimsOf
<1> QED
  BY <1>4, <1>5


-----------------------------------------------------------------------------
(* What requests have pledged is counted as a heap: one brick for every    *)
(* unit a request holds.                                                   *)
Heap(p, u) == {x \in Requests \X (1..u) : x[2] <= p[x[1]]}

LEMMA HeapIs ==
  ASSUME NEW u \in Nat, NEW p \in [Requests -> 0..u]
  PROVE  /\ IsFiniteSet(Heap(p, u)) /\ Cardinality(Heap(p, u)) \in Nat
         /\ (\A r \in Requests : p[r] = 0) => Cardinality(Heap(p, u)) = 0
<1>1. IsFiniteSet(1..u)
  BY FS_Interval
<1>2. IsFiniteSet(Requests \X (1..u))
  BY <1>1, PartiesAssumption, FS_Product
<1>3. Heap(p, u) \subseteq Requests \X (1..u)
  BY DEF Heap
<1>4. IsFiniteSet(Heap(p, u)) /\ Cardinality(Heap(p, u)) \in Nat
  BY <1>2, <1>3, FS_Subset, FS_CardinalityType
<1>5. (\A r \in Requests : p[r] = 0) => Heap(p, u) = {}
  BY DEF Heap
<1> QED
  BY <1>4, <1>5, FS_EmptySet

(* The bricks of one request, and the others. *)
LEMMA HeapSplit ==
  ASSUME NEW u \in Nat, NEW p \in [Requests -> 0..u], NEW r \in Requests
  PROVE  LET others == {x \in Heap(p, u) : x[1] # r}
         IN  Cardinality(others) \in Nat /\ Cardinality(Heap(p, u)) = Cardinality(others) + p[r]
<1> DEFINE H == Heap(p, u)
           others == {x \in H : x[1] # r}
           own == {r} \X (1..p[r])
<1>1. IsFiniteSet(H)
  BY HeapIs
<1>2. IsFiniteSet(others) /\ Cardinality(others) \in Nat
  <2>1. others \subseteq H
    OBVIOUS
  <2> HIDE DEF others, H
  <2> QED
    BY <1>1, <2>1, FS_Subset, FS_CardinalityType
<1>3. p[r] \in Nat /\ p[r] <= u
  OBVIOUS
<1>4. H = others \cup own /\ others \cap own = {}
  BY <1>3 DEF Heap
<1>5. IsFiniteSet(own) /\ Cardinality(own) = p[r]
  <2>1. IsFiniteSet({r}) /\ Cardinality({r}) = 1
    BY FS_Singleton
  <2>2. IsFiniteSet(1..p[r]) /\ Cardinality(1..p[r]) = p[r]
    BY <1>3, FS_Interval
  <2>3. IsFiniteSet(own) /\ Cardinality(own) = Cardinality({r}) * Cardinality(1..p[r])
    BY <2>1, <2>2, FS_Product
  <2> HIDE DEF own
  <2> QED
    BY <1>3, <2>1, <2>2, <2>3
<1> HIDE DEF H, others, own
<1>6. Cardinality(others \cup own) = Cardinality(others) + Cardinality(own) - Cardinality(others \cap own)
  BY <1>2, <1>5, FS_Union
<1>7. Cardinality(others \cap own) = 0
  BY <1>4, FS_EmptySet
<1>8. Cardinality(H) = Cardinality(others) + p[r]
  BY <1>2, <1>3, <1>4, <1>5, <1>6, <1>7
<1> QED
  BY <1>2, <1>8 DEF H, others

(* A request that starts or ends changes the heap by what it holds. *)
LEMMA HeapShift ==
  ASSUME NEW u \in Nat, NEW p \in [Requests -> 0..u], NEW q \in [Requests -> 0..u], NEW r \in Requests,
         \A s \in Requests : s # r => q[s] = p[s]
  PROVE  Cardinality(Heap(q, u)) + p[r] = Cardinality(Heap(p, u)) + q[r]
<1> DEFINE D == {x \in Heap(p, u) : x[1] # r}
           E == {x \in Heap(q, u) : x[1] # r}
<1>1. D = E
  BY DEF Heap
<1>2. Cardinality(D) \in Nat /\ Cardinality(Heap(p, u)) = Cardinality(D) + p[r]
  BY HeapSplit
<1>3. Cardinality(Heap(q, u)) = Cardinality(E) + q[r]
  BY HeapSplit
<1>4. p[r] \in Nat /\ q[r] \in Nat
  OBVIOUS
<1> HIDE DEF D, E
<1> QED
  BY <1>1, <1>2, <1>3, <1>4

-----------------------------------------------------------------------------
Column(m) == [w \in Workers |-> job[w][m]]

Used(c, m) == IF c = 0 THEN delivered[m] ELSE tries[m]

Pledge(c, q, m) ==
  IF q = NoReq \/ q.msg # m THEN 0
  ELSE IF q.op = "fail" THEN After(c, q.loaded.attempts)
  ELSE IF q.op = "mark_failed" THEN Unit(c) ELSE 0

Reports(c, m) == Cardinality(Heap([r \in Requests |-> Pledge(c, req[r], m)], Unit(c)))

Owed(c, m) == Used(c, m) + ClaimsOf(c, outbox[m], Column(m)) + Reports(c, m)

Bound(c) == Unit(c) * (1 + expiries + Reopened) + faults

Afford(c, m) ==
  /\ ~RowLocked(m) => Owed(c, m) + Open(c, outbox[m]) <= Bound(c)
  /\ \A f \in Flushers : m \in DOMAIN draft[f] =>
       Owed(c, m) + InHand(c, outbox[m], draft[f][m]) <= Bound(c)

Budget == \A c \in {0, 1}, m \in Ids : Afford(c, m)


LEMMA ColumnIs ==
  ASSUME TypeOK, NEW m \in Msgs
  PROVE  Column(m) \in [Workers -> JobStates] /\ \A w \in Workers : Column(m)[w] = job[w][m]
BY DEF TypeOK, Column, JobStates

LEMMA PledgeIs ==
  ASSUME NEW c \in {0, 1}, NEW q \in Request \cup {NoReq}, NEW m
  PROVE  Pledge(c, q, m) \in 0..Unit(c)
<1>1. Unit(c) \in Nat
  BY OutboxAssumption DEF Unit
<1>2. CASE q = NoReq \/ q.msg # m
  BY <1>1, <1>2 DEF Pledge
<1>3. CASE q # NoReq /\ q.msg = m
  <2>1. q.loaded.attempts \in Nat
    BY <1>3 DEF Request, Row
  <2>2. After(c, q.loaded.attempts) \in 0..Unit(c)
    BY <1>1, <2>1, Prices
  <2> QED
    BY <1>1, <1>3, <2>2 DEF Pledge
<1> QED
  BY <1>2, <1>3

LEMMA ReportsIs ==
  ASSUME TypeOK, NEW c \in {0, 1}, NEW m
  PROVE  Reports(c, m) \in Nat /\ ((\A r \in Requests : Pledge(c, req[r], m) = 0) => Reports(c, m) = 0)
<1>1. Unit(c) \in Nat
  BY OutboxAssumption DEF Unit
<1>2. \A r \in Requests : Pledge(c, req[r], m) \in 0..Unit(c)
  BY PledgeIs DEF TypeOK
<1>3. [r \in Requests |-> Pledge(c, req[r], m)] \in [Requests -> 0..Unit(c)]
  BY <1>2
<1> QED
  BY <1>1, <1>3, HeapIs DEF Reports

(* A request that starts or ends. *)
LEMMA ReportsMove ==
  ASSUME TypeOK, TypeOK', NEW c \in {0, 1}, NEW m, NEW r \in Requests,
         \A s \in Requests : s # r => req'[s] = req[s]
  PROVE  Reports(c, m)' + Pledge(c, req[r], m) = Reports(c, m) + Pledge(c, req'[r], m)
<1> DEFINE p == [s \in Requests |-> Pledge(c, req[s], m)]
           q == [s \in Requests |-> Pledge(c, req'[s], m)]
<1>1. Unit(c) \in Nat
  BY OutboxAssumption DEF Unit
<1>2. \A s \in Requests : Pledge(c, req[s], m) \in 0..Unit(c) /\ Pledge(c, req'[s], m) \in 0..Unit(c)
  BY PledgeIs DEF TypeOK
<1>3. p \in [Requests -> 0..Unit(c)] /\ q \in [Requests -> 0..Unit(c)]
  BY <1>2
<1>4. \A s \in Requests : s # r => q[s] = p[s]
  OBVIOUS
<1>5. p[r] = Pledge(c, req[r], m) /\ q[r] = Pledge(c, req'[r], m)
  OBVIOUS
<1>6. Reports(c, m) = Cardinality(Heap(p, Unit(c))) /\ Reports(c, m)' = Cardinality(Heap(q, Unit(c)))
  BY DEF Reports
<1> HIDE DEF p, q
<1>7. Cardinality(Heap(q, Unit(c))) + p[r] = Cardinality(Heap(p, Unit(c))) + q[r]
  BY <1>1, <1>3, <1>4, HeapShift
<1> QED
  BY <1>5, <1>6, <1>7

LEMMA OwedIs ==
  ASSUME TypeOK, NEW c \in {0, 1}, NEW m \in Ids
  PROVE  /\ Used(c, m) \in Nat /\ ClaimsOf(c, outbox[m], Column(m)) \in Nat /\ Reports(c, m) \in Nat
         /\ Owed(c, m) \in Nat /\ Open(c, outbox[m]) \in Nat /\ m \in Msgs /\ outbox[m] \in Row
<1>1. m \in Msgs /\ outbox[m] \in Row
  BY Outbox
<1>2. Used(c, m) \in Nat
  BY <1>1 DEF Used, TypeOK
<1>3. ClaimsOf(c, outbox[m], Column(m)) \in Nat /\ Open(c, outbox[m]) \in Nat
  BY <1>1, ColumnIs, ClaimsIs, OpenIs
<1>4. Reports(c, m) \in Nat
  BY ReportsIs
<1> QED
  BY <1>1, <1>2, <1>3, <1>4 DEF Owed

LEMMA BoundIs ==
  ASSUME TypeOK, NEW c \in {0, 1}
  PROVE  Bound(c) \in Nat /\ Unit(c) \in Nat /\ Unit(c) <= Bound(c)
<1> DEFINE u == Unit(c)
           n == expiries + Reopened
<1>1. u \in Nat /\ n \in Nat /\ faults \in Nat
  BY OutboxAssumption DEF Unit, Reopened, TypeOK
<1>2. 1 + expiries + Reopened = n + 1
  BY OutboxAssumption DEF Reopened, TypeOK
<1>3. Bound(c) = u * (n + 1) + faults
  BY <1>2 DEF Bound
<1> HIDE DEF u, n
<1>4. u * (n + 1) = u * n + u /\ u * n \in Nat
  BY <1>1
<1>5. u * n + u + faults \in Nat /\ u <= u * n + u + faults
  BY <1>1, <1>4
<1> QED
  BY <1>1, <1>3, <1>4, <1>5 DEF u

AccountsTyped ==
  /\ \A c \in {0, 1} : Bound(c) \in Nat /\ Unit(c) <= Bound(c)
  /\ \A c \in {0, 1}, m \in Ids : /\ Owed(c, m) \in Nat /\ Open(c, outbox[m]) \in Nat
                                /\ outbox[m] \in Row

LEMMA Accounts == TypeOK => AccountsTyped
BY OwedIs, BoundIs DEF AccountsTyped

LEMMA AccountsNext == TypeOK' => AccountsTyped'
BY Accounts, PTL

(* What an expired lease, an operator or a rollback pays in. *)
LEMMA BoundGrows ==
  ASSUME TypeOK, TypeOK', NEW c \in {0, 1}, NEW k \in {0, 1}, NEW j \in {0, 1},
         expiries' + Reopened' = expiries + Reopened + k, faults' = faults + j
  PROVE  Bound(c)' = Bound(c) + (IF k = 1 THEN Unit(c) ELSE 0) + j
<1> DEFINE u == Unit(c)
           n == expiries + Reopened
           n2 == expiries' + Reopened'
<1>0. Reopened \in Nat /\ Reopened' \in Nat /\ expiries \in Nat /\ expiries' \in Nat
  BY DEF Reopened, TypeOK
<1>7. n2 = n + k
  OBVIOUS
<1>1. u \in Nat /\ n \in Nat /\ n2 \in Nat /\ faults \in Nat
  <2>1. u \in Nat
    BY OutboxAssumption DEF Unit
  <2>2. faults \in Nat
    BY DEF TypeOK
  <2>3. n \in Nat
    BY <1>0
  <2>4. n2 \in Nat
    <3> HIDE DEF n, n2
    <3> QED
      BY <1>7, <2>3
  <2> QED
    BY <2>1, <2>2, <2>3, <2>4
<1>2. 1 + expiries + Reopened = n + 1 /\ 1 + expiries' + Reopened' = n2 + 1
  BY OutboxAssumption DEF Reopened, TypeOK
<1>3. Bound(c) = u * (n + 1) + faults /\ Bound(c)' = u * (n2 + 1) + faults'
  BY <1>2 DEF Bound
<1> HIDE DEF u, n, n2
<1>4. u * (n + 1) \in Nat /\ u * ((n + 1) + 1) = u * (n + 1) + u
  BY <1>1
<1>5. CASE k = 0
  BY <1>1, <1>3, <1>4, <1>5, <1>7 DEF u
<1>6. CASE k = 1
  <2>1. u * (n2 + 1) = u * (n + 1) + u
    BY <1>1, <1>4, <1>6, <1>7
  <2> QED
    BY <1>1, <1>3, <1>4, <1>6, <2>1 DEF u
<1> QED
  BY <1>5, <1>6

(* Rows that differ in nothing that costs. *)
Alike(a, b) == a.status = b.status /\ a.lease = b.lease /\ a.owner = b.owner /\ a.attempts = b.attempts

LEMMA AlikeCost ==
  ASSUME NEW c \in {0, 1}, NEW a \in Row, NEW b \in Row, Alike(a, b)
  PROVE  /\ Open(c, a) = Open(c, b) /\ \A d : InHand(c, a, d) = InHand(c, b, d)
         /\ \A col : ClaimsOf(c, a, col) = ClaimsOf(c, b, col)
BY DEF Alike, Open, InHand, ClaimsOf, LeaseOf, Dangling, LeasedBy

(* A step that pays for what it adds to an email's account leaves it in    *)
(* order ...                                                               *)
LEMMA AffordKept ==
  ASSUME TypeOK, TypeOK', NEW c \in {0, 1}, NEW m \in Ids, m \in Ids', Afford(c, m), draft' = draft,
         Alike(outbox'[m], outbox[m]), Owed(c, m)' + Bound(c) <= Owed(c, m) + Bound(c)'
  PROVE  Afford(c, m)'
<1> DEFINE x == Owed(c, m)
           y == Owed(c, m)'
           b == Bound(c)
           e == Bound(c)'
           o == Open(c, outbox[m])
           h(f) == InHand(c, outbox[m], draft[f][m])
<1>1. outbox[m] \in Row /\ outbox'[m] \in Row /\ x \in Nat /\ y \in Nat /\ o \in Nat
  BY Accounts, AccountsNext DEF AccountsTyped
<1>2. b \in Nat /\ e \in Nat
  BY Accounts, AccountsNext DEF AccountsTyped
<1>3. Open(c, outbox'[m]) = o /\ \A f \in Flushers : InHand(c, outbox'[m], draft[f][m]) = h(f)
  BY <1>1, AlikeCost
<1>4. y + b <= x + e
  OBVIOUS
<1>5. RowLocked(m)' = RowLocked(m)
  BY DEF RowLocked
<1>6. ~RowLocked(m) => x + o <= b
  BY DEF Afford
<1>7. ~RowLocked(m) => y + o <= e
  <2> HIDE DEF x, y, b, e, o
  <2> QED
    BY <1>1, <1>2, <1>4, <1>6
<1>8. ASSUME NEW f \in Flushers, m \in DOMAIN draft[f] PROVE y + h(f) <= e
  <2> DEFINE i == h(f)
  <2>1. i \in Nat
    <3>1. draft[f][m] \in Row
      BY <1>8 DEF TypeOK
    <3> QED
      BY <1>1, <3>1, OpenIs
  <2>2. x + i <= b
    BY <1>8 DEF Afford
  <2> HIDE DEF x, y, b, e, i
  <2>3. y + i <= e
    BY <1>1, <1>2, <1>4, <2>1, <2>2
  <2> QED
    BY <2>3 DEF i
<1>9. \A f \in Flushers : m \in DOMAIN draft[f] => y + h(f) <= e
  BY <1>8
<1> QED
  BY <1>3, <1>5, <1>7, <1>9 DEF Afford

(* ... and so does one that changes a row no flush holds. *)
LEMMA AffordOpen ==
  ASSUME TypeOK, TypeOK', NEW c \in {0, 1}, NEW m \in Ids, m \in Ids', Afford(c, m), draft' = draft,
         ~RowLocked(m),
         Owed(c, m)' + Open(c, outbox'[m]) + Bound(c) <= Owed(c, m) + Open(c, outbox[m]) + Bound(c)'
  PROVE  Afford(c, m)'
<1> DEFINE x == Owed(c, m)
           y == Owed(c, m)'
           b == Bound(c)
           e == Bound(c)'
           o == Open(c, outbox[m])
           p == Open(c, outbox'[m])
<1>1. x \in Nat /\ y \in Nat /\ o \in Nat
  BY Accounts, AccountsNext DEF AccountsTyped
<1>2. p \in Nat
  BY AccountsNext DEF AccountsTyped
<1>3. b \in Nat /\ e \in Nat
  BY Accounts, AccountsNext DEF AccountsTyped
<1>4. x + o <= b /\ y + p + b <= x + o + e
  BY DEF Afford
<1>5. \A f \in Flushers : m \notin DOMAIN draft'[f]
  BY DEF RowLocked
<1>6. y + p <= e
  <2> HIDE DEF x, y, b, e, o, p
  <2> QED
    BY <1>1, <1>2, <1>3, <1>4
<1> QED
  BY <1>5, <1>6 DEF Afford


Bill(c, m) == ClaimsOf(c, outbox[m], Column(m))

(* An email a step has nothing to do with. *)
LEMMA Untouched ==
  ASSUME TypeOK, TypeOK', NEW c \in {0, 1}, NEW m \in Ids, m \in Ids', Afford(c, m), draft' = draft,
         Alike(outbox'[m], outbox[m]), Column(m)' = Column(m),
         delivered'[m] = delivered[m], tries'[m] = tries[m],
         \A r \in Requests : Pledge(c, req'[r], m) = Pledge(c, req[r], m),
         Bound(c) <= Bound(c)'
  PROVE  Afford(c, m)'
<1>1. outbox[m] \in Row /\ outbox'[m] \in Row /\ Owed(c, m) \in Nat /\ Bound(c) \in Nat /\ Bound(c)' \in Nat
  BY Accounts, AccountsNext DEF AccountsTyped
<1>2. Bill(c, m)' = Bill(c, m)
  BY <1>1, AlikeCost DEF Bill
<1>3. Reports(c, m)' = Reports(c, m)
  BY DEF Reports
<1>4. Used(c, m)' = Used(c, m)
  BY DEF Used
<1>5. Owed(c, m)' = Owed(c, m)
  BY <1>2, <1>3, <1>4 DEF Owed, Bill
<1>6. Owed(c, m)' + Bound(c) <= Owed(c, m) + Bound(c)'
  <2> DEFINE x == Owed(c, m)
             b == Bound(c)
             e == Bound(c)'
  <2>1. b <= e
    OBVIOUS
  <2> HIDE DEF x, b, e
  <2>2. x \in Nat /\ b \in Nat /\ e \in Nat
    BY <1>1 DEF x, b, e
  <2>3. x + b <= x + e
    BY <2>1, <2>2
  <2> QED
    BY <1>5, <2>3 DEF x, b, e
<1> QED
  BY <1>6, AffordKept

(* Nothing paid in, nothing lost. *)
LEMMA BoundStays ==
  ASSUME TypeOK, TypeOK', NEW c \in {0, 1}, UNCHANGED <<expiries, ops, faults>>
  PROVE  Bound(c)' = Bound(c) /\ Bound(c) <= Bound(c)'
<1>1. Bound(c)' = Bound(c)
  BY DEF Bound, Reopened
<1>2. Bound(c) \in Nat
  BY Accounts DEF AccountsTyped
<1> QED
  BY <1>1, <1>2

LEMMA BudgetQueue ==
  ASSUME IInv, IInv', Budget, NEW s \in {"draft", "pending", "skipped"}, NEW d \in BOOLEAN, Queue(s, d)
  PROVE  Budget'
<1> DEFINE row == [status |-> s, due |-> d, lease |-> "none", owner |-> None, attempts |-> 0, retries |-> 0]
<1>1. outbox' = Append(outbox, row) /\ UNCHANGED <<SendState, FlushState, Rest, RestState, epoch>>
  BY DEF Queue
<1>2. row.status \in {"draft", "pending", "skipped"} /\ row.attempts = 0
  OBVIOUS
<1> HIDE DEF row
<1>3. outbox \in Seq(Row) /\ TypeOK /\ TypeOK'
  BY DEF IInv, TypeOK
<1>4. /\ Ids \subseteq Ids' /\ \A m \in Ids : outbox'[m] = outbox[m]
      /\ \A m \in Ids' : m \in Ids \/ outbox'[m] = row
  BY <1>1, <1>3 DEF Ids
<1>5. UNCHANGED <<delivered, tries, draft, job, req, expiries, ops, faults>>
  BY <1>1 DEF SendState, FlushState, Rest, RestState
<1> SUFFICES ASSUME NEW c \in {0, 1}, NEW m \in Ids' PROVE Afford(c, m)'
  BY DEF Budget
<1>6. CASE m \in Ids
  <2>1. Afford(c, m) /\ Alike(outbox'[m], outbox[m])
    BY <1>4, <1>6 DEF Budget, Alike
  <2>2. Column(m)' = Column(m)
    BY <1>5 DEF Column
  <2> QED
    BY <1>3, <1>5, <1>6, <2>1, <2>2, Untouched, BoundStays
<1>7. CASE m \notin Ids
  <2>1. m \in Msgs
    BY <1>3, Outbox, OutboxAssumption DEF Ids, Msgs, TypeOK
  <2>2. Used(c, m)' = 0 /\ \A w \in Workers : job'[w][m] = "none"
    BY <1>5, <1>7, <2>1 DEF Used, IInv, Unqueued
  <2>3. outbox'[m] = row /\ outbox'[m] \in Row
    BY <1>3, <1>4, <1>7, AccountsNext DEF AccountsTyped
  <2>4. LeaseOf(c, outbox'[m], Column(m)') = 0
    BY <1>2, <2>3 DEF LeaseOf
  <2>5. Dangling(outbox'[m], Column(m)') = {}
    <3>1. \A w \in Workers : Column(m)'[w] = "none"
      BY <2>2 DEF Column
    <3> QED
      BY <3>1 DEF Dangling
  <2>6. Bill(c, m)' = 0
    BY <2>4, <2>5, FS_EmptySet DEF Bill, ClaimsOf
  <2>7. Reports(c, m)' = 0
    <3>1. \A r \in Requests : Pledge(c, req[r], m) = 0
      BY <1>7 DEF Pledge, IInv, RequestsSound, Sound
    <3>2. Reports(c, m) = 0
      BY <1>3, <3>1, ReportsIs
    <3> QED
      BY <1>5, <3>2 DEF Reports
  <2>8. Owed(c, m)' = 0
    BY <2>2, <2>6, <2>7 DEF Owed, Bill
  <2>9. Open(c, outbox'[m]) <= Bound(c)' /\ Open(c, outbox'[m]) \in Nat
    <3> DEFINE o == Open(c, outbox'[m])
               u == Unit(c)
               e == Bound(c)'
    <3>1. o \in Nat /\ o <= u /\ e \in Nat /\ u <= e
      <4>1. o \in Nat /\ o <= u
        BY <2>3, OpenIs
      <4>2. e \in Nat /\ u <= e
        BY <1>3, AccountsNext DEF AccountsTyped
      <4> QED
        BY <4>1, <4>2
    <3>2. u \in Nat
      BY OutboxAssumption DEF Unit
    <3> HIDE DEF o, u, e
    <3>3. o <= e
      BY <3>1, <3>2
    <3> QED
      BY <3>1, <3>3 DEF o, e
  <2>10. \A f \in Flushers : m \notin DOMAIN draft'[f]
    BY <1>5, <1>7 DEF IInv, TypeOK
  <2> QED
    BY <2>8, <2>9, <2>10 DEF Afford
<1> QED
  BY <1>6, <1>7

LEMMA BudgetElapse ==
  ASSUME IInv, IInv', Budget, NEW k \in Msgs, Elapse(k)
  PROVE  Budget'
<1>1. k \in Ids /\ outbox' = [outbox EXCEPT ![k] = [outbox[k] EXCEPT !.due = TRUE]]
      /\ UNCHANGED <<delivered, tries, draft, job, req, expiries, ops, faults>>
  BY DEF Elapse, SendState, FlushState, Rest, RestState
<1>2. TypeOK /\ TypeOK' /\ outbox \in Seq(Row) /\ outbox[k] \in Row
  BY <1>1, Outbox DEF IInv, TypeOK
<1>3. Ids' = Ids /\ \A m \in Ids : Alike(outbox'[m], outbox[m])
  BY <1>1, <1>2, SetDue DEF Ids, Alike
<1> SUFFICES ASSUME NEW c \in {0, 1}, NEW m \in Ids PROVE Afford(c, m)'
  BY <1>3 DEF Budget
<1>4. Afford(c, m) /\ Column(m)' = Column(m)
  BY <1>1 DEF Budget, Column
<1> QED
  BY <1>1, <1>2, <1>3, <1>4, Untouched, BoundStays

LEMMA BudgetExpire ==
  ASSUME IInv, IInv', Budget, NEW k \in Msgs, ExpireLease(k)
  PROVE  Budget'
<1> DEFINE row == [outbox[k] EXCEPT !.lease = "expired"]
<1>1. k \in Ids /\ outbox' = [outbox EXCEPT ![k] = row]
      /\ UNCHANGED <<delivered, tries, draft, job, req, ops, faults>> /\ expiries' = expiries + 1
      /\ outbox[k].lease = "live"
  BY DEF ExpireLease, SendState, FlushState, RestState
<1>2. TypeOK /\ TypeOK' /\ outbox \in Seq(Row) /\ outbox[k] \in Row
  BY <1>1, Outbox DEF IInv, TypeOK
<1>8. /\ row \in Row /\ row.status = outbox[k].status /\ row.owner = outbox[k].owner
      /\ row.attempts = outbox[k].attempts
  BY <1>2, SetLease
<1> HIDE DEF row
<1>9. Ids' = Ids /\ outbox'[k] = row /\ \A m \in Ids : m # k => outbox'[m] = outbox[m]
  BY <1>1, <1>2 DEF Ids
<1>3. /\ Ids' = Ids /\ \A m \in Ids : m # k => outbox'[m] = outbox[m]
      /\ outbox'[k] \in Row /\ outbox'[k].status = outbox[k].status /\ outbox'[k].owner = outbox[k].owner
      /\ outbox'[k].attempts = outbox[k].attempts
  BY <1>8, <1>9
<1> SUFFICES ASSUME NEW c \in {0, 1}, NEW m \in Ids PROVE Afford(c, m)'
  BY <1>3 DEF Budget
<1>4. Bound(c)' = Bound(c) + Unit(c) /\ Bound(c) \in Nat /\ Unit(c) \in Nat
  <2>1. Bound(c) \in Nat /\ Unit(c) \in Nat
    BY <1>2, BoundIs
  <2>2. Reopened' = Reopened /\ Reopened \in Nat /\ expiries \in Nat /\ faults \in Nat
    BY <1>1, <1>2 DEF Reopened, TypeOK
  <2>3. expiries' + Reopened' = expiries + Reopened + 1 /\ faults' = faults + 0
    BY <1>1, <2>2
  <2>4. Bound(c)' = Bound(c) + (IF 1 = 1 THEN Unit(c) ELSE 0) + 0
    BY <1>2, <2>3, BoundGrows
  <2> QED
    BY <2>1, <2>4
<1>5. Afford(c, m) /\ Column(m)' = Column(m)
  BY <1>1 DEF Budget, Column
<1>6. CASE m # k
  <2>1. Alike(outbox'[m], outbox[m]) /\ Bound(c) <= Bound(c)'
    BY <1>3, <1>4, <1>6 DEF Alike
  <2> QED
    BY <1>1, <1>2, <1>3, <1>5, <2>1, Untouched
<1>7. CASE m = k
  <2>1. ~RowLocked(m)
    BY <1>1, <1>7 DEF RowLocked, IInv, Locks, Drafted
  <2>2. Bill(c, m)' = Bill(c, m)
    BY <1>3, <1>5, <1>7 DEF Bill, ClaimsOf, LeaseOf, Dangling, LeasedBy
  <2>3. Owed(c, m)' = Owed(c, m)
    BY <1>1, <2>2 DEF Owed, Bill, Used, Reports
  <2> DEFINE x == Owed(c, m)
             b == Bound(c)
             u == Unit(c)
             o == Open(c, outbox[m])
             p == Open(c, outbox'[m])
  <2>4. x \in Nat /\ b \in Nat /\ u \in Nat /\ o \in Nat /\ p \in Nat /\ p <= u
    <3>1. p <= u
      BY <1>3, <1>7, OpenIs
    <3> QED
      BY <1>2, <1>3, <1>4, <3>1, Accounts, AccountsNext DEF AccountsTyped
  <2>5. x + p + b <= x + o + (b + u)
    <3> HIDE DEF x, b, u, o, p
    <3> QED
      BY <2>4
  <2>6. Owed(c, m)' + Open(c, outbox'[m]) + Bound(c) <= Owed(c, m) + Open(c, outbox[m]) + Bound(c)'
    BY <1>4, <2>3, <2>5
  <2> QED
    BY <1>1, <1>2, <1>3, <1>5, <2>1, <2>6, AffordOpen
<1> QED
  BY <1>6, <1>7


(* The sessions of the flushes: what a flush claims, ... *)
LEMMA BudgetStart ==
  ASSUME IInv, IInv', Budget, NEW f \in Flushers, FlushStart(f)
  PROVE  Budget'
<1> DEFINE mine == Oldest({m \in Ids : Claimable(m)}, Batch)
           rows == {mine[k] : k \in DOMAIN mine}
           d == [m \in rows |-> outbox[m]]
<1>1. draft[f] = << >> /\ draft' = [draft EXCEPT ![f] = d] /\ rows \subseteq Ids /\ \A m \in rows : Claimable(m)
  BY ClaimIs
<1> HIDE DEF mine
<1>2. DOMAIN d = rows /\ \A m \in rows : d[m] = outbox[m]
  OBVIOUS
<1> HIDE DEF rows, d
<1>3. UNCHANGED <<outbox, delivered, tries, job, req, expiries, ops, faults>>
  BY DEF FlushStart, SendState, Rest, RestState
<1>4. TypeOK /\ TypeOK' /\ Ids' = Ids
  BY <1>3 DEF IInv, Ids
<1>5. draft'[f] = d /\ DOMAIN draft[f] = {} /\ \A g \in Flushers : g # f => draft'[g] = draft[g]
  BY <1>1, <1>4, EmptySession DEF TypeOK
<1> SUFFICES ASSUME NEW c \in {0, 1}, NEW m \in Ids PROVE Afford(c, m)'
  BY <1>4 DEF Budget
<1>6. Afford(c, m) /\ Owed(c, m)' = Owed(c, m) /\ Bound(c)' = Bound(c)
  BY <1>3 DEF Budget, Owed, Used, Column, Reports, Bound, Reopened
<1>7. RowLocked(m) => RowLocked(m)'
  BY <1>5 DEF RowLocked
<1>8. ASSUME NEW g \in Flushers, m \in DOMAIN draft'[g]
      PROVE  Owed(c, m) + InHand(c, outbox[m], draft'[g][m]) <= Bound(c)
  <2>1. CASE g # f
    <3>1. m \in DOMAIN draft[g] /\ draft'[g][m] = draft[g][m]
      BY <1>5, <1>8, <2>1
    <3> QED
      BY <1>6, <3>1 DEF Afford
  <2>2. CASE g = f
    <3>1. m \in rows /\ draft'[g][m] = outbox[m]
      BY <1>2, <1>5, <1>8, <2>2
    <3>2. ~RowLocked(m) /\ outbox[m].status \in {"pending", "failed"}
      BY <1>1, <3>1 DEF Claimable, Waiting
    <3>3. InHand(c, outbox[m], draft'[g][m]) = Open(c, outbox[m])
      BY <3>1, <3>2 DEF InHand, Open
    <3> QED
      BY <1>6, <3>2, <3>3 DEF Afford
  <2> QED
    BY <2>1, <2>2
<1> QED
  BY <1>3, <1>6, <1>7, <1>8 DEF Afford

(* ... what it does with the next row of its batch, ... *)
LEMMA BudgetProcess ==
  ASSUME IInv, IInv', Budget, NEW f \in Flushers, NEW row \in Row, Process(f, row), NEW h, h = Head(batch[f]),
         \A c \in {0, 1} : /\ Used(c, h)' + InHand(c, Current(f), row) <= Used(c, h) + Price(c, Current(f).attempts)
                           /\ Used(c, h)' \in Nat,
         \A k \in Msgs : k # h => delivered'[k] = delivered[k] /\ tries'[k] = tries[k]
  PROVE  Budget'
<1>1. /\ \A g \in Flushers : DOMAIN draft'[g] = DOMAIN draft[g] /\ (g # f => draft'[g] = draft[g])
      /\ draft'[f][h] = row
      /\ \A m \in DOMAIN draft[f] : m # h => draft'[f][m] = draft[f][m]
      /\ UNCHANGED <<outbox, job, req, expiries, ops, faults>>
  BY ProcessIs DEF Rest, RestState
<1>2. h \in DOMAIN draft[f] /\ h \in Msgs /\ Current(f) = outbox[h] /\ draft[f][h] = outbox[h] /\ outbox[h] \in Row
  <2>1. batch[f] # << >>
    BY DEF Process
  <2> QED
    BY <2>1, HeadIs
<1>3. TypeOK /\ TypeOK' /\ Ids' = Ids
  BY <1>1 DEF IInv, Ids
<1>11. \A c \in {0, 1} : /\ Used(c, h)' + InHand(c, outbox[h], row) <= Used(c, h) + Price(c, outbox[h].attempts)
                         /\ Used(c, h)' \in Nat
  BY <1>2
<1> SUFFICES ASSUME NEW c \in {0, 1}, NEW m \in Ids PROVE Afford(c, m)'
  BY <1>3 DEF Budget
<1>5. Afford(c, m) /\ Bill(c, m)' = Bill(c, m) /\ Reports(c, m)' = Reports(c, m) /\ Bound(c)' = Bound(c)
      /\ RowLocked(m)' = RowLocked(m)
  BY <1>1 DEF Budget, Bill, Column, Reports, Bound, Reopened, RowLocked
<1>6. m \in Msgs /\ outbox[m] \in Row
  BY <1>3, Outbox
<1>7. CASE m # h
  <2>1. Owed(c, m)' = Owed(c, m)
    BY <1>5, <1>6, <1>7 DEF Owed, Bill, Used
  <2>2. \A g \in Flushers : m \in DOMAIN draft[g] => draft'[g][m] = draft[g][m]
    BY <1>1, <1>7
  <2> QED
    BY <1>1, <1>5, <2>1, <2>2 DEF Afford
<1>8. CASE m = h
  <2>1. RowLocked(m)
    BY <1>2, <1>8 DEF RowLocked
  <2>2. \A g \in Flushers : m \in DOMAIN draft[g] => g = f
    BY <1>2, <1>8 DEF IInv, Locks
  <2> DEFINE x == Used(c, m)
             y == Used(c, m)'
             b == Bill(c, m)
             p == Reports(c, m)
             e == Bound(c)
             i == InHand(c, outbox[m], row)
             a == Price(c, outbox[m].attempts)
  <2>3. y + i <= x + a /\ y \in Nat
    BY <1>8, <1>11
  <2>4. x \in Nat /\ b \in Nat /\ p \in Nat /\ e \in Nat /\ i \in Nat /\ a \in Nat
    <3>1. a \in Nat
      BY <1>6, Prices DEF Row
    <3>2. i \in Nat
      BY <1>6, OpenIs
    <3> QED
      BY <1>3, <3>1, <3>2, OwedIs, BoundIs DEF Bill
  <2>5. x + b + p + a <= e
    <3>1. InHand(c, outbox[m], draft[f][m]) = a
      BY <1>2, <1>8 DEF InHand
    <3>2. Owed(c, m) + InHand(c, outbox[m], draft[f][m]) <= Bound(c)
      BY <1>2, <1>5, <1>8 DEF Afford
    <3> QED
      BY <3>1, <3>2 DEF Owed, Bill
  <2>6. y + b + p + i <= e
    <3> HIDE DEF x, y, b, p, e, i, a
    <3> QED
      BY <2>3, <2>4, <2>5
  <2>7. Owed(c, m)' + InHand(c, outbox[m], row) <= Bound(c)
    BY <1>5, <2>6 DEF Owed, Bill
  <2> QED
    BY <1>1, <1>5, <1>8, <2>1, <2>2, <2>7 DEF Afford
<1> QED
  BY <1>7, <1>8

LEMMA BudgetSetAside ==
  ASSUME IInv, IInv', Budget, NEW f \in Flushers, Suppress(f) \/ GiveUp(f) \/ Defer(f)
  PROVE  Budget'
<1>1. PICK row \in Row : Process(f, row) /\ row.attempts = Current(f).attempts
  BY SetAside
<1>2. UNCHANGED <<delivered, tries>>
  BY DEF Suppress, GiveUp, Defer, SendState
<1>3. PICK h \in Msgs : h = Head(batch[f])
  BY <1>1, HeadIs DEF Process
<1>4. ASSUME NEW c \in {0, 1}
      PROVE  /\ Used(c, h)' + InHand(c, Current(f), row) <= Used(c, h) + Price(c, Current(f).attempts)
             /\ Used(c, h)' \in Nat
  <2>1. Used(c, h) \in Nat /\ Used(c, h)' = Used(c, h)
    BY <1>2 DEF Used, IInv, TypeOK
  <2>2. InHand(c, Current(f), row) = Price(c, Current(f).attempts)
    BY <1>1 DEF InHand
  <2>3. Price(c, Current(f).attempts) \in Nat
    <3>1. Current(f) \in Row
      BY <1>1, HeadIs DEF Process
    <3> QED
      BY <3>1, Prices DEF Row
  <2> QED
    BY <2>1, <2>2, <2>3
<1> QED
  BY <1>1, <1>2, <1>3, <1>4, BudgetProcess


LEMMA BudgetSend ==
  ASSUME IInv, IInv', Budget, NEW f \in Flushers, SendOk(f) \/ SendFail(f)
  PROVE  Budget'
<1>1. PICK row \in Row : /\ Process(f, row) /\ row.attempts = Current(f).attempts + 1
                         /\ SendOk(f) => row.status = "sent"
                         /\ SendOk(f) \/ row.status # "sent"
  <2>1. CASE SendOk(f)
    BY <2>1, SentRow
  <2>2. CASE ~SendOk(f)
    BY <2>2, FailedRow
  <2> QED
    BY <2>1, <2>2
<1>2. PICK h \in Msgs : h = Head(batch[f])
  BY <1>1, HeadIs DEF Process
<1>3. Current(f) \in Row /\ Current(f).attempts \in Nat
  BY Affordable DEF Row
<1>4. /\ tries' = [tries EXCEPT ![h] = @ + 1]
      /\ SendOk(f) => delivered' = [delivered EXCEPT ![h] = @ + 1]
      /\ SendOk(f) \/ delivered' = delivered
  BY <1>2 DEF SendOk, SendFail
<1>5. tries \in [Msgs -> Nat] /\ delivered \in [Msgs -> Nat]
  BY DEF IInv, TypeOK
<1>6. \A k \in Msgs : k # h => delivered'[k] = delivered[k] /\ tries'[k] = tries[k]
  BY <1>4, <1>5
<1>7. ASSUME NEW c \in {0, 1}
      PROVE  /\ Used(c, h)' + InHand(c, Current(f), row) <= Used(c, h) + Price(c, Current(f).attempts)
             /\ Used(c, h)' \in Nat
  <2> DEFINE a == Price(c, Current(f).attempts)
  <2>1. a \in Nat /\ 1 <= a
    BY <1>3, Prices
  <2>2. CASE c = 1 \/ SendOk(f)
    <3>1. Used(c, h)' = Used(c, h) + 1 /\ Used(c, h) \in Nat
      BY <1>4, <1>5, <2>2 DEF Used
    <3>2. InHand(c, Current(f), row) = a - 1
      BY <1>1, <1>3, <2>2 DEF InHand
    <3> HIDE DEF a
    <3>3. (Used(c, h) + 1) + (a - 1) <= Used(c, h) + a /\ Used(c, h) + 1 \in Nat
      BY <2>1, <3>1
    <3> QED
      BY <3>1, <3>2, <3>3 DEF a
  <2>3. CASE c = 0 /\ ~SendOk(f)
    <3>1. Used(c, h)' = Used(c, h) /\ Used(c, h) \in Nat
      BY <1>4, <1>5, <2>3 DEF Used
    <3>2. InHand(c, Current(f), row) = a
      BY <1>1, <2>3 DEF InHand
    <3> HIDE DEF a
    <3>3. Used(c, h) + a <= Used(c, h) + a
      BY <2>1, <3>1
    <3> QED
      BY <3>1, <3>2, <3>3 DEF a
  <2> QED
    BY <2>2, <2>3
<1> QED
  BY <1>1, <1>2, <1>6, <1>7, BudgetProcess

(* ... the rows it commits, ... *)
LEMMA BudgetCommitBatch ==
  ASSUME IInv, IInv', Budget, NEW f \in Flushers, FlushCommit(f)
  PROVE  Budget'
<1>1. /\ outbox' = [m \in Ids |-> IF m \in DOMAIN draft[f] THEN draft[f][m] ELSE outbox[m]]
      /\ draft' = [draft EXCEPT ![f] = << >>]
      /\ UNCHANGED <<delivered, tries, job, req, expiries, ops, faults>>
  BY DEF FlushCommit, SendState, Rest, RestState
<1>2. Ids' = Ids
  BY CommitBatchStep
<1>3. TypeOK /\ TypeOK' /\ DOMAIN draft = Flushers
  BY DEF IInv, TypeOK
<1>4. DOMAIN draft'[f] = {} /\ \A g \in Flushers : g # f => draft'[g] = draft[g]
  BY <1>1, <1>3, EmptySession
<1> SUFFICES ASSUME NEW c \in {0, 1}, NEW m \in Ids PROVE Afford(c, m)'
  BY <1>2 DEF Budget
<1>5. /\ Afford(c, m) /\ Column(m)' = Column(m) /\ Used(c, m)' = Used(c, m) /\ Reports(c, m)' = Reports(c, m)
      /\ Bound(c)' = Bound(c)
  BY <1>1 DEF Budget, Used, Column, Reports, Bound, Reopened
<1>6. CASE m \notin DOMAIN draft[f]
  <2>1. outbox'[m] = outbox[m]
    BY <1>1, <1>6
  <2>2. RowLocked(m)' = RowLocked(m)
    BY <1>4, <1>6 DEF RowLocked
  <2>3. Owed(c, m)' = Owed(c, m)
    BY <1>5, <2>1 DEF Owed
  <2>4. \A g \in Flushers : m \in DOMAIN draft'[g] => m \in DOMAIN draft[g] /\ draft'[g][m] = draft[g][m]
    BY <1>4
  <2> QED
    BY <1>5, <2>1, <2>2, <2>3, <2>4 DEF Afford
<1>7. CASE m \in DOMAIN draft[f]
  <2> DEFINE row == outbox[m]
             d == draft[f][m]
  <2>1. outbox'[m] = d
    BY <1>1, <1>7
  <2>2. Drafted(f, m)
    BY <1>7 DEF IInv, Locks
  <2>3. row \in Row /\ d \in Row /\ m \in Msgs
    BY <1>3, <1>7, DraftTyped
  <2>4. \A g \in Flushers : m \notin DOMAIN draft'[g]
    BY <1>4, <1>7 DEF IInv, Locks
  <2>5. row.status \in {"pending", "failed"} /\ d.status \in {"pending", "failed", "sent", "skipped"}
        /\ (\/ d.attempts = row.attempts /\ d.status # "sent"
            \/ d.attempts = row.attempts + 1 /\ row.attempts < MaxAttempts)
    BY <2>2 DEF Drafted, Waiting
  <2>6. Column(m) \in [Workers -> JobStates]
    BY <1>3, <2>3, ColumnIs
  <2> HIDE DEF row, d
  <2>7. ClaimsOf(c, d, Column(m)) <= ClaimsOf(c, row, Column(m))
    <3>1. d.status # "processing"
      BY <2>5
    <3> QED
      BY <2>3, <2>6, <3>1, ClaimsLoosen
  <2>8. Open(c, d) <= InHand(c, row, d)
    <3>1. InHand(c, row, d) \in Nat /\ row.attempts \in Nat /\ d.attempts \in Nat
      BY <2>3, OpenIs DEF Row
    <3>2. CASE d.status \in {"sent", "skipped"}
      BY <3>1, <3>2 DEF Open
    <3>3. CASE d.status \in {"pending", "failed"} /\ d.attempts = row.attempts
      <4>1. Open(c, d) = Price(c, row.attempts) /\ InHand(c, row, d) = Price(c, row.attempts)
        BY <3>3 DEF Open, InHand
      <4> QED
        BY <3>1, <4>1
    <3>4. CASE d.status \in {"pending", "failed"} /\ d.attempts # row.attempts
      <4>1. d.attempts = row.attempts + 1 /\ row.attempts < MaxAttempts
        BY <2>5, <3>4
      <4>2. Price(c, d.attempts) + c <= Price(c, row.attempts)
        BY <3>1, <4>1, Prices
      <4>3. Price(c, d.attempts) \in Nat /\ Price(c, row.attempts) \in Nat
        BY <3>1, Prices
      <4>4. Open(c, d) = Price(c, d.attempts)
        BY <3>4 DEF Open
      <4>5. InHand(c, row, d) = IF c = 1 THEN Price(c, row.attempts) - 1 ELSE Price(c, row.attempts)
        BY <3>4 DEF InHand
      <4> DEFINE p == Price(c, d.attempts)
                 q == Price(c, row.attempts)
      <4> HIDE DEF p, q
      <4>6. p \in Nat /\ q \in Nat /\ p + c <= q
        BY <4>2, <4>3 DEF p, q
      <4>7. p <= IF c = 1 THEN q - 1 ELSE q
        BY <4>6
      <4> QED
        BY <4>4, <4>5, <4>7 DEF p, q
    <3> QED
      BY <2>5, <3>2, <3>3, <3>4
  <2> DEFINE u == Used(c, m)
             r == Reports(c, m)
             x == ClaimsOf(c, row, Column(m))
             y == ClaimsOf(c, d, Column(m))
             i == InHand(c, row, d)
             o == Open(c, d)
             b == Bound(c)
  <2>9. u \in Nat /\ r \in Nat /\ x \in Nat /\ y \in Nat /\ i \in Nat /\ o \in Nat /\ b \in Nat
    <3>1. u \in Nat /\ r \in Nat /\ b \in Nat
      BY <1>3, OwedIs, BoundIs
    <3>2. x \in Nat /\ y \in Nat
      BY <2>3, <2>6, ClaimsIs
    <3>3. i \in Nat /\ o \in Nat
      BY <2>3, OpenIs
    <3> QED
      BY <3>1, <3>2, <3>3
  <2>10. u + x + r + i <= b
    BY <1>5, <1>7 DEF Afford, Owed, row, d
  <2>11. u + y + r + o <= b
    <3>1. y <= x /\ o <= i
      BY <2>7, <2>8
    <3> HIDE DEF u, r, x, y, i, o, b
    <3> QED
      BY <2>9, <2>10, <3>1
  <2>12. Owed(c, m)' + Open(c, outbox'[m]) <= Bound(c)'
    BY <1>5, <2>1, <2>11 DEF Owed
  <2> QED
    BY <2>4, <2>12 DEF Afford
<1> QED
  BY <1>6, <1>7

(* ... and what it loses when it is rolled back. *)
LEMMA BudgetAbort ==
  ASSUME IInv, IInv', Budget, NEW f \in Flushers, FlushAbort(f)
  PROVE  Budget'
<1>1. /\ draft' = [draft EXCEPT ![f] = << >>] /\ faults' = faults + 1
      /\ UNCHANGED <<outbox, delivered, tries, job, req, expiries, ops>>
  BY DEF FlushAbort, SendState, Rest, RestState
<1>2. TypeOK /\ TypeOK' /\ DOMAIN draft = Flushers /\ Ids' = Ids
  BY <1>1 DEF IInv, TypeOK, Ids
<1>3. DOMAIN draft'[f] = {} /\ \A g \in Flushers : g # f => draft'[g] = draft[g]
  BY <1>1, <1>2, EmptySession
<1> SUFFICES ASSUME NEW c \in {0, 1}, NEW m \in Ids PROVE Afford(c, m)'
  BY <1>2 DEF Budget
<1>4. Afford(c, m) /\ Owed(c, m)' = Owed(c, m)
  BY <1>1 DEF Budget, Owed, Used, Column, Reports
<1> DEFINE x == Owed(c, m)
           b == Bound(c)
           o == Open(c, outbox[m])
<1>5. x \in Nat /\ b \in Nat /\ o \in Nat /\ outbox[m] \in Row
  BY <1>2, Accounts DEF AccountsTyped
<1>6. Bound(c)' = b + 1
  <2>1. expiries' + Reopened' = expiries + Reopened + 0
    BY <1>1, <1>2 DEF Reopened, TypeOK
  <2>2. Bound(c)' = Bound(c) + (IF 0 = 1 THEN Unit(c) ELSE 0) + 1
    BY <1>1, <1>2, <2>1, BoundGrows
  <2> QED
    BY <1>5, <2>2
<1>7. ASSUME NEW g \in Flushers, m \in DOMAIN draft'[g]
      PROVE  x + InHand(c, outbox[m], draft'[g][m]) <= b + 1
  <2>1. m \in DOMAIN draft[g] /\ draft'[g][m] = draft[g][m]
    BY <1>3, <1>7
  <2> DEFINE i == InHand(c, outbox[m], draft[g][m])
  <2>2. i \in Nat
    BY <1>2, <1>5, <2>1, OpenIs DEF TypeOK
  <2>3. x + i <= b
    BY <1>4, <2>1 DEF Afford
  <2> HIDE DEF x, b, i
  <2>4. x + i <= b + 1
    BY <1>5, <2>2, <2>3
  <2> QED
    BY <2>1, <2>4 DEF i
<1>8. ASSUME ~RowLocked(m)' PROVE x + o <= b + 1
  <2>1. CASE ~RowLocked(m)
    <3>1. x + o <= b
      BY <1>4, <2>1 DEF Afford
    <3> HIDE DEF x, b, o
    <3> QED
      BY <1>5, <3>1
  <2>2. CASE RowLocked(m)
    <3>1. m \in DOMAIN draft[f]
      BY <1>3, <1>8, <2>2 DEF RowLocked
    <3>2. o = Price(c, outbox[m].attempts)
      BY <3>1 DEF IInv, Locks, Drafted, Waiting, Open
    <3> DEFINE i == InHand(c, outbox[m], draft[f][m])
    <3>3. i \in Nat /\ o <= i + 1
      BY <1>2, <1>5, <3>1, <3>2, OpenIs DEF TypeOK
    <3>4. x + i <= b
      BY <1>4, <3>1 DEF Afford
    <3> HIDE DEF x, b, o, i
    <3> QED
      BY <1>5, <3>3, <3>4
  <2> QED
    BY <2>1, <2>2
<1> QED
  BY <1>1, <1>4, <1>6, <1>7, <1>8 DEF Afford


(* The workers: a claim takes over what the row may cost, ... *)
LEMMA BudgetClaim ==
  ASSUME IInv, IInv', Budget, NEW w \in Workers, NEW n \in 1..MaxMsgs, WorkerClaim(w, n)
  PROVE  Budget'
<1>0. PICK mine \in SUBSET Ids : Wins(w, mine)
  BY WorkerClaimIs
<1>1. /\ \A m \in mine : /\ Waiting(m) /\ ~RowLocked(m) /\ outbox'[m] \in Row
                         /\ outbox'[m].status = "processing" /\ outbox'[m].lease = "live"
                         /\ outbox'[m].owner = w /\ outbox'[m].attempts = outbox[m].attempts
      /\ \A m \in Ids \ mine : outbox'[m] = outbox[m]
      /\ \A m \in mine : job'[w][m] = "claimed"
      /\ \A m \in Msgs \ mine : job'[w][m] = job[w][m]
      /\ \A u \in Workers \ {w} : job'[u] = job[u]
  BY <1>0 DEF Wins
<1>2. UNCHANGED <<delivered, tries, draft, req, expiries, ops, faults>>
  BY <1>0 DEF Wins, SendState, FlushState, RestState
<1>3. TypeOK /\ TypeOK' /\ Ids' = Ids
  BY WorkerClaimStep DEF IInv
<1> SUFFICES ASSUME NEW c \in {0, 1}, NEW m \in Ids PROVE Afford(c, m)'
  BY <1>3 DEF Budget
<1>4. Afford(c, m) /\ Bound(c)' = Bound(c) /\ Bound(c) <= Bound(c)' /\ m \in Msgs
  BY <1>2, <1>3, BoundStays, Outbox DEF Budget
<1>5. CASE m \notin mine
  <2>1. outbox'[m] = outbox[m] /\ \A u \in Workers : job'[u][m] = job[u][m]
    BY <1>1, <1>4, <1>5
  <2>2. Column(m)' = Column(m)
    BY <2>1 DEF Column
  <2> QED
    BY <1>2, <1>3, <1>4, <2>1, <2>2, Untouched DEF Alike
<1>6. CASE m \in mine
  <2> DEFINE row == outbox[m]
             new == outbox'[m]
             col == Column(m)
             col2 == Column(m)'
  <2>1. /\ ~RowLocked(m) /\ row \in Row /\ new \in Row /\ row.status \in {"pending", "failed"}
        /\ new.status = "processing" /\ new.lease = "live" /\ new.owner = w /\ new.attempts = row.attempts
    BY <1>1, <1>3, <1>6, Outbox DEF Waiting
  <2>2. /\ col \in [Workers -> JobStates] /\ col2 \in [Workers -> JobStates] /\ col2[w] = "claimed"
        /\ \A u \in Workers \ {w} : col2[u] = col[u]
    <3>1. col \in [Workers -> JobStates]
      BY <1>3, <1>4, ColumnIs
    <3>2. col2 \in [Workers -> JobStates]
      BY <1>3, <1>4 DEF Column, TypeOK, JobStates
    <3> QED
      BY <1>1, <1>6, <3>1, <3>2 DEF Column
  <2> HIDE DEF row, new, col, col2
  <2>3. ClaimsOf(c, new, col2) <= ClaimsOf(c, row, col) + Price(c, row.attempts)
    BY <2>1, <2>2, ClaimsTake
  <2>4. Open(c, row) = Price(c, row.attempts) /\ Open(c, new) = 0
    BY <2>1 DEF Open
  <2> DEFINE u == Used(c, m)
             r == Reports(c, m)
             x == ClaimsOf(c, row, col)
             y == ClaimsOf(c, new, col2)
             p == Price(c, row.attempts)
             b == Bound(c)
  <2>5. u \in Nat /\ r \in Nat /\ x \in Nat /\ y \in Nat /\ p \in Nat /\ b \in Nat
    <3>1. u \in Nat /\ r \in Nat /\ b \in Nat
      BY <1>3, OwedIs, BoundIs
    <3>2. x \in Nat /\ y \in Nat
      BY <2>1, <2>2, ClaimsIs
    <3>3. p \in Nat
      BY <2>1, Prices DEF Row
    <3> QED
      BY <3>1, <3>2, <3>3
  <2>6. u + y + r + 0 + b <= u + x + r + p + b
    <3>1. y <= x + p
      BY <2>3
    <3> HIDE DEF u, r, x, y, p, b
    <3> QED
      BY <2>5, <3>1
  <2>7. Owed(c, m) = u + x + r /\ Owed(c, m)' = u + y + r
    BY <1>2 DEF Owed, Used, Reports, row, new, col, col2
  <2>8. Owed(c, m)' + Open(c, outbox'[m]) + Bound(c) <= Owed(c, m) + Open(c, outbox[m]) + Bound(c)'
    BY <1>4, <2>4, <2>6, <2>7 DEF row, new
  <2> QED
    BY <1>2, <1>3, <1>4, <2>1, <2>8, AffordOpen
<1> QED
  BY <1>5, <1>6

(* ... a send spends it, ... *)
LEMMA BudgetWorkerSend ==
  ASSUME IInv, IInv', Budget, NEW w \in Workers, NEW k \in Msgs, NEW ok \in BOOLEAN, WorkerSend(w, k, ok)
  PROVE  Budget'
<1>1. /\ k \in Ids /\ job[w][k] = "claimed"
      /\ job'[w][k] \in {"delivered", "undelivered"} /\ (job'[w][k] = "delivered" <=> ok)
      /\ \A u \in Workers, m \in Msgs : ~(u = w /\ m = k) => job'[u][m] = job[u][m]
      /\ delivered'[k] = (IF ok THEN delivered[k] + 1 ELSE delivered[k]) /\ tries'[k] = tries[k] + 1
      /\ \A m \in Msgs : m # k => delivered'[m] = delivered[m] /\ tries'[m] = tries[m]
      /\ UNCHANGED <<outbox, FlushState, RestState, expiries, epoch>>
  <2>1. job[w][k] = "claimed"
    BY DEF WorkerSend
  <2> QED
    BY <2>1, WorkerSendStep
<1>2. UNCHANGED <<outbox, draft, req, expiries, ops, faults>>
  BY <1>1 DEF FlushState, RestState
<1>3. TypeOK /\ TypeOK' /\ Ids' = Ids
  BY <1>2 DEF IInv, Ids
<1> SUFFICES ASSUME NEW c \in {0, 1}, NEW m \in Ids PROVE Afford(c, m)'
  BY <1>3 DEF Budget
<1>4. Afford(c, m) /\ Bound(c)' = Bound(c) /\ Bound(c) <= Bound(c)' /\ m \in Msgs /\ Alike(outbox'[m], outbox[m])
  BY <1>2, <1>3, BoundStays, Outbox DEF Budget, Alike
<1>5. CASE m # k
  <2>1. \A u \in Workers : job'[u][m] = job[u][m]
    BY <1>1, <1>4, <1>5
  <2>2. Column(m)' = Column(m)
    BY <2>1 DEF Column
  <2> QED
    BY <1>1, <1>2, <1>3, <1>4, <1>5, <2>2, Untouched
<1>6. CASE m = k
  <2> DEFINE row == outbox[m]
             col == Column(m)
             col2 == Column(m)'
             n == IF c = 1 \/ ok THEN 1 ELSE 0
  <2>1. row \in Row /\ n \in {0, 1} /\ (n = 1 <=> c = 1 \/ ok)
    BY <1>3, Outbox
  <2>2. /\ col \in [Workers -> JobStates] /\ col2 \in [Workers -> JobStates] /\ col[w] = "claimed"
        /\ col2[w] \in {"delivered", "undelivered"} /\ (col2[w] = "delivered" <=> ok)
        /\ \A u \in Workers \ {w} : col2[u] = col[u]
    <3>1. col \in [Workers -> JobStates]
      BY <1>3, <1>4, ColumnIs
    <3>2. col2 \in [Workers -> JobStates]
      BY <1>3, <1>4 DEF Column, TypeOK, JobStates
    <3> QED
      BY <1>1, <1>6, <3>1, <3>2 DEF Column
  <2>3. Used(c, m)' = Used(c, m) + n /\ Used(c, m) \in Nat
    <3>1. delivered[m] \in Nat /\ tries[m] \in Nat
      BY <1>3, <1>4 DEF TypeOK
    <3>2. CASE c = 0
      BY <1>1, <1>6, <3>1, <3>2 DEF Used
    <3>3. CASE c = 1
      BY <1>1, <1>6, <3>1, <3>3 DEF Used
    <3> QED
      BY <3>2, <3>3
  <2> HIDE DEF row, col, col2, n
  <2>4. ClaimsOf(c, row, col2) + n <= ClaimsOf(c, row, col)
    BY <2>1, <2>2, ClaimsSend
  <2> DEFINE u == Used(c, m)
             r == Reports(c, m)
             x == ClaimsOf(c, row, col)
             y == ClaimsOf(c, row, col2)
             b == Bound(c)
  <2>5. u \in Nat /\ r \in Nat /\ x \in Nat /\ y \in Nat /\ n \in Nat /\ b \in Nat
    <3>1. u \in Nat /\ r \in Nat /\ b \in Nat
      BY <1>3, OwedIs, BoundIs
    <3>2. x \in Nat /\ y \in Nat
      BY <2>1, <2>2, ClaimsIs
    <3> QED
      BY <2>1, <3>1, <3>2
  <2>6. (u + n) + y + r + b <= u + x + r + b
    <3>1. y + n <= x
      BY <2>4
    <3> HIDE DEF u, r, x, y, b
    <3> QED
      BY <2>5, <3>1
  <2>7. Owed(c, m) = u + x + r
    BY DEF Owed, row, col
  <2>8. Owed(c, m)' = (u + n) + y + r
    BY <1>2, <2>3 DEF Owed, Reports, row, col2
  <2>9. Owed(c, m)' + Bound(c) <= Owed(c, m) + Bound(c)'
    BY <1>4, <2>6, <2>7, <2>8
  <2> QED
    BY <1>2, <1>3, <1>4, <2>9, AffordKept
<1> QED
  BY <1>5, <1>6

(* ... and a lease that expired gives the row back. *)
LEMMA BudgetRelease ==
  ASSUME IInv, IInv', Budget, ReleaseExpired
  PROVE  Budget'
<1>1. /\ Ids' = Ids
      /\ \A m \in Ids : \/ outbox'[m] = outbox[m]
                        \/ /\ outbox[m].status = "processing" /\ outbox[m].lease = "expired"
                           /\ outbox'[m] = Release(outbox[m])
      /\ UNCHANGED <<SendState, FlushState, Rest, RestState, epoch>>
  BY ReleaseStep
<1>2. UNCHANGED <<delivered, tries, draft, job, req, expiries, ops, faults>>
  BY <1>1 DEF SendState, FlushState, Rest, RestState
<1>3. TypeOK /\ TypeOK'
  BY DEF IInv
<1> SUFFICES ASSUME NEW c \in {0, 1}, NEW m \in Ids PROVE Afford(c, m)'
  BY <1>1 DEF Budget
<1>4. Afford(c, m) /\ Bound(c)' = Bound(c) /\ Bound(c) <= Bound(c)' /\ m \in Msgs /\ Column(m)' = Column(m)
  BY <1>2, <1>3, BoundStays, Outbox DEF Budget, Column
<1>5. CASE outbox'[m] = outbox[m]
  BY <1>1, <1>2, <1>3, <1>4, <1>5, Untouched DEF Alike
<1>6. CASE outbox'[m] # outbox[m]
  <2> DEFINE row == outbox[m]
             new == outbox'[m]
             col == Column(m)
  <2>1. row \in Row /\ row.status = "processing" /\ row.lease = "expired" /\ new = Release(row)
    BY <1>1, <1>3, <1>6, Outbox
  <2>2. ~RowLocked(m)
    BY <2>1 DEF RowLocked, IInv, Locks, Drafted, Waiting
  <2>3. col \in [Workers -> JobStates]
    BY <1>3, <1>4, ColumnIs
  <2> HIDE DEF row, new, col
  <2>4. new \in Row /\ new.status # "processing"
    BY <2>1, ReleaseIs
  <2>5. ClaimsOf(c, new, col) <= ClaimsOf(c, row, col)
    BY <2>1, <2>3, <2>4, ClaimsLoosen
  <2> DEFINE u == Used(c, m)
             r == Reports(c, m)
             x == ClaimsOf(c, row, col)
             y == ClaimsOf(c, new, col)
             o == Open(c, row)
             p == Open(c, new)
             b == Bound(c)
  <2>6. u \in Nat /\ r \in Nat /\ x \in Nat /\ y \in Nat /\ b \in Nat /\ o \in Nat /\ p \in Nat /\ p <= o
    <3>1. u \in Nat /\ r \in Nat /\ b \in Nat
      BY <1>3, OwedIs, BoundIs
    <3>2. x \in Nat /\ y \in Nat
      BY <2>1, <2>3, <2>4, ClaimsIs
    <3>3. o = Unit(c)
      BY <2>1 DEF Open
    <3>4. o \in Nat /\ p \in Nat /\ p <= Unit(c)
      BY <2>1, <2>4, OpenIs
    <3> QED
      BY <3>1, <3>2, <3>3, <3>4
  <2>7. u + y + r + p + b <= u + x + r + o + b
    <3>1. y <= x
      BY <2>5
    <3> HIDE DEF u, r, x, y, o, p, b
    <3> QED
      BY <2>6, <3>1
  <2>8. Owed(c, m) = u + x + r /\ Owed(c, m)' = u + y + r
    BY <1>2, <1>4 DEF Owed, Used, Reports, row, new, col
  <2>9. Owed(c, m)' + Open(c, outbox'[m]) + Bound(c) <= Owed(c, m) + Open(c, outbox[m]) + Bound(c)'
    BY <1>4, <2>7, <2>8 DEF row, new
  <2> QED
    BY <1>1, <1>2, <1>3, <1>4, <2>2, <2>9, AffordOpen
<1> QED
  BY <1>5, <1>6


(* A commit costs no more than its request pledged: it closes the row, or  *)
(* reopens it at the price that was pledged for that.                      *)
LEMMA CommitAccount ==
  ASSUME NEW c \in {0, 1}, NEW row \in Row, NEW q \in Request, q # NoReq, Sound(q),
         NEW col \in [Workers -> JobStates], NEW new, new = Overlay(row, q.loaded, q.wanted)
  PROVE  /\ new \in Row
         /\ ClaimsOf(c, new, col) + Open(c, new) <= ClaimsOf(c, row, col) + Open(c, row) + Pledge(c, q, q.msg)
<1> DEFINE x == ClaimsOf(c, row, col)
           y == ClaimsOf(c, new, col)
           o == Open(c, row)
           n == Open(c, new)
           p == Pledge(c, q, q.msg)
           u == Unit(c)
<1>1. q.loaded \in Row /\ q.wanted \in Row /\ q.op \in Ops \cup {"complete", "fail"}
  <2>1. \/ q.op \in Ops /\ q.wanted = Wanted(q.op, q.loaded)
        \/ q.wanted = Completed(q.loaded) \/ q.wanted = FailedByWorker(q.loaded)
    BY DEF Sound
  <2> QED
    BY DEF Request
<1>2. /\ new \in Row
      /\ new.status = IF q.wanted.status # q.loaded.status THEN q.wanted.status ELSE row.status
      /\ new.lease = IF q.wanted.lease # q.loaded.lease THEN q.wanted.lease ELSE row.lease
      /\ new.owner = IF q.wanted.owner # q.loaded.owner THEN q.wanted.owner ELSE row.owner
      /\ new.attempts = IF q.wanted.attempts # q.loaded.attempts THEN q.wanted.attempts ELSE row.attempts
  BY <1>1, OverlayIs
<1>3. row.attempts \in Nat /\ new.attempts \in Nat /\ q.loaded.attempts \in Nat /\ None \notin Workers
  BY <1>1, <1>2, PartiesAssumption DEF Row
<1>4. x \in Nat /\ y \in Nat /\ o \in Nat /\ n \in Nat /\ p \in Nat /\ u \in Nat /\ n <= u
  <2>1. x \in Nat /\ y \in Nat
    BY <1>2, ClaimsIs
  <2>2. o \in Nat /\ n \in Nat /\ n <= u
    BY <1>2, OpenIs
  <2>3. u \in Nat
    BY OutboxAssumption DEF Unit
  <2>4. p \in Nat
    BY <2>3, PledgeIs
  <2> QED
    BY <2>1, <2>2, <2>3, <2>4
<1> DEFINE Goal == y + n <= x + o + p
<1> HIDE DEF x, y, o, n, p, u, Goal
<1>5. y <= x /\ (n <= o \/ n <= p) => Goal
  BY <1>4 DEF Goal
<1> DEFINE Closes ==
             /\ q.wanted.status \notin {"draft", "pending", "failed", "processing"}
             /\ q.wanted.attempts = q.loaded.attempts
             /\ q.wanted.lease \in {q.loaded.lease, "none"} /\ q.wanted.owner \in {q.loaded.owner, None}
<1>6. ASSUME Closes PROVE Goal
  <2>1. /\ new.attempts = row.attempts /\ new.lease \in {row.lease, "none"} /\ new.owner \in {row.owner, None}
        /\ new.status = row.status \/ new.status \notin {"draft", "pending", "failed", "processing"}
    BY <1>2, <1>6
  <2>2. y <= x
    BY <1>2, <2>1, ClaimsLoosen DEF x, y
  <2>3. n = 0 \/ n = o
    BY <2>1 DEF Open, n, o
  <2>4. n <= o
    BY <1>4, <2>3
  <2> QED
    BY <1>5, <2>2, <2>4
<1>12. Closes => Goal
  BY <1>6
<1> HIDE DEF Closes
<1>7. ASSUME q.op = "complete" PROVE Goal
  <2>1. q.wanted = Completed(q.loaded)
    BY <1>7, OpsAssumption DEF Sound
  <2> QED
    BY <1>1, <1>12, <2>1, CompletedIs DEF Closes
<1>8. ASSUME q.op \in Ops /\ q.op # "mark_failed" PROVE Goal
  <2>1. Accepts(q.op, q.loaded) /\ q.wanted = Wanted(q.op, q.loaded)
    BY <1>8, OpsAssumption DEF Sound
  <2>2. /\ q.wanted.status \in {"cancelled", "sent", "failed", "dead_letter"} /\ q.wanted.status # "failed"
        /\ q.wanted.attempts = q.loaded.attempts
        /\ q.wanted.lease \in {q.loaded.lease, "none"} /\ q.wanted.owner \in {q.loaded.owner, None}
    BY <1>1, <1>8, <2>1, WantedIs
  <2> QED
    BY <1>12, <2>2 DEF Closes
<1>9. ASSUME q.op = "fail" PROVE Goal
  <2>1. q.loaded.status = "processing" /\ q.wanted = FailedByWorker(q.loaded)
    BY <1>9, OpsAssumption DEF Sound
  <2> DEFINE a == q.loaded.attempts
  <2>2. /\ q.wanted.status = IF a + 1 >= MaxAttempts THEN "dead_letter" ELSE "failed"
        /\ q.wanted.attempts = a + 1
    BY <1>1, <2>1, FailedIs
  <2>3. new.status = q.wanted.status /\ new.attempts = a + 1 /\ new.status # "processing"
    BY <1>2, <1>3, <2>1, <2>2
  <2>4. y <= x
    BY <1>2, <2>3, ClaimsLoosen DEF x, y
  <2>5. p = After(c, a)
    BY <1>9 DEF Pledge, p
  <2>6. n <= p
    <3>1. CASE a + 1 >= MaxAttempts
      <4>1. n = 0
        BY <2>2, <2>3, <3>1 DEF Open, n
      <4> QED
        BY <1>4, <4>1
    <3>2. CASE ~(a + 1 >= MaxAttempts)
      <4>1. n = Price(c, a + 1)
        BY <2>2, <2>3, <3>2 DEF Open, n
      <4>2. a + 1 < MaxAttempts
        BY <1>3, <3>2, OutboxAssumption
      <4>3. Price(c, a + 1) <= After(c, a)
        BY <1>3, <4>2, Prices
      <4> QED
        BY <2>5, <4>1, <4>3
    <3> QED
      BY <3>1, <3>2
  <2> QED
    BY <1>5, <2>4, <2>6
<1>10. ASSUME q.op = "mark_failed" /\ q.op \in Ops PROVE Goal
  <2>1. Accepts(q.op, q.loaded) /\ q.wanted = Wanted(q.op, q.loaded)
    BY <1>10 DEF Sound
  <2>2. /\ q.wanted.status = "failed"
        /\ q.wanted.lease \in {q.loaded.lease, "none"} /\ q.wanted.owner \in {q.loaded.owner, None}
    BY <1>1, <1>10, <2>1, WantedIs
  <2>3. p = u
    BY <1>10 DEF Pledge, p, u
  <2>4. new.lease \in {row.lease, "none"} /\ new.owner \in {row.owner, None}
        /\ new.status \in {"failed", row.status}
    BY <1>2, <2>2
  <2>5. CASE new.status # "processing" \/ new.owner \notin Workers
    <3>1. y <= x
      BY <1>2, <2>4, <2>5, ClaimsLoosen DEF x, y
    <3>2. n <= p
      BY <1>4, <2>3
    <3> QED
      BY <1>5, <3>1, <3>2
  <2>6. CASE new.status = "processing" /\ new.owner \in Workers
    <3>1. row.status = "processing" /\ new.owner = row.owner
      BY <1>3, <2>4, <2>6
    <3>2. n <= o
      <4>1. n = 0 \/ n = o
        BY <2>4, <2>6, <3>1 DEF Open, n, o
      <4> QED
        BY <1>4, <4>1
    <3> DEFINE old == LeaseOf(c, row, col)
               ren == LeaseOf(c, new, col)
               d == Cardinality(Dangling(row, col))
    <3>3. old \in Nat /\ ren \in Nat /\ d \in Nat
      BY <1>2, ClaimsIs
    <3>4. ren <= u
      <4>1. ren = Price(c, new.attempts) \/ ren = After(c, new.attempts) \/ ren = 0
        BY DEF LeaseOf
      <4>2. Price(c, new.attempts) <= u /\ After(c, new.attempts) <= u /\ 0 <= u
        BY <1>3, <1>4, Prices DEF u
      <4> HIDE DEF ren
      <4> QED
        BY <4>1, <4>2
    <3>5. Dangling(new, col) = Dangling(row, col)
      BY <2>6, <3>1 DEF Dangling, LeasedBy
    <3>6. x = old + d /\ y = ren + d
      BY <3>5 DEF ClaimsOf, x, y
    <3> HIDE DEF old, ren, d
    <3>7. y + n <= x + o + p
      BY <1>4, <2>3, <3>2, <3>3, <3>4, <3>6
    <3> QED
      BY <3>7 DEF Goal
  <2> QED
    BY <2>5, <2>6
<1>11. Goal
  BY <1>1, <1>7, <1>8, <1>9, <1>10
<1> QED
  BY <1>2, <1>11 DEF Goal, x, y, o, n, p

(* The requests: what an operator may reopen is paid in, ... *)
LEMMA BudgetOperator ==
  ASSUME IInv, IInv', Budget, NEW r \in Requests, NEW op \in Ops, NEW k \in Msgs, OperatorLoad(r, op, k)
  PROVE  Budget'
<1>1. /\ Ids' = Ids /\ k \in Ids
      /\ req'[r] = [op |-> op, msg |-> k, loaded |-> outbox[k], wanted |-> Wanted(op, outbox[k])]
      /\ req[r] = NoReq /\ \A s \in Requests : s # r => req'[s] = req[s]
      /\ UNCHANGED <<SendState, FlushState, outbox, job, expiries, epoch>> /\ ops' = ops + 1
  BY OperatorStep
<1>2. UNCHANGED <<delivered, tries, draft, outbox, job, expiries, faults>>
  BY <1>1 DEF SendState, FlushState
<1>3. TypeOK /\ TypeOK'
  BY DEF IInv
<1> SUFFICES ASSUME NEW c \in {0, 1}, NEW m \in Ids PROVE Afford(c, m)'
  BY <1>1 DEF Budget
<1> DEFINE u == Unit(c)
           p == Pledge(c, req'[r], m)
           j == IF "mark_failed" \in Ops THEN 1 ELSE 0
           b == Bound(c)
           x == Reports(c, m)
           y == Reports(c, m)'
           w == Used(c, m) + Bill(c, m)
<1>4. Afford(c, m) /\ Used(c, m)' = Used(c, m) /\ Bill(c, m)' = Bill(c, m) /\ Alike(outbox'[m], outbox[m])
  BY <1>2 DEF Budget, Used, Bill, Column, Alike
<1>5. y = x + p
  <2>1. Reports(c, m)' + Pledge(c, req[r], m) = Reports(c, m) + Pledge(c, req'[r], m)
    BY <1>1, <1>3, ReportsMove
  <2>2. Pledge(c, req[r], m) = 0
    BY <1>1 DEF Pledge
  <2>3. Reports(c, m)' \in Nat
    <3>1. m \in Ids'
      BY <1>1
    <3>2. \A s \in Requests : Pledge(c, req'[s], m) \in 0..Unit(c)
      BY <1>3, PledgeIs DEF TypeOK
    <3>3. [s \in Requests |-> Pledge(c, req'[s], m)] \in [Requests -> 0..Unit(c)] /\ Unit(c) \in Nat
      BY <3>2, OutboxAssumption DEF Unit
    <3> QED
      BY <3>3, HeapIs DEF Reports
  <2> QED
    BY <2>1, <2>2, <2>3
<1>6. b \in Nat /\ u \in Nat /\ x \in Nat /\ w \in Nat
  BY <1>3, OwedIs, BoundIs DEF Bill
<1>7. Bound(c)' = b + (IF j = 1 THEN u ELSE 0)
  <2>1. expiries' + Reopened' = expiries + Reopened + j /\ faults' = faults + 0
    BY <1>1, <1>2, <1>3 DEF Reopened, TypeOK
  <2>2. j \in {0, 1}
    OBVIOUS
  <2> HIDE DEF j
  <2>3. Bound(c)' = Bound(c) + (IF j = 1 THEN Unit(c) ELSE 0) + 0
    BY <1>3, <2>1, <2>2, BoundGrows
  <2> QED
    BY <1>6, <2>3
<1>8. p = 0 \/ (p = u /\ j = 1)
  <2>1. req'[r].op = op /\ req'[r].msg = k /\ op # "fail"
    BY <1>1, OpsAssumption
  <2> QED
    BY <2>1 DEF Pledge
<1>9. w + y + b <= w + x + Bound(c)'
  <2> DEFINE g == IF j = 1 THEN u ELSE 0
  <2>1. p \in Nat /\ p <= g /\ g \in Nat
    <3> HIDE DEF p, u, j
    <3> QED
      BY <1>6, <1>8
  <2> HIDE DEF w, x, y, b, p, g
  <2>2. w + y + b <= w + x + (b + g)
    BY <1>5, <1>6, <2>1
  <2> QED
    BY <1>7, <2>2 DEF g
<1>10. Owed(c, m)' + Bound(c) <= Owed(c, m) + Bound(c)'
  BY <1>4, <1>9 DEF Owed, Bill
<1> QED
  BY <1>1, <1>2, <1>3, <1>4, <1>10, AffordKept


(* ... a report pledges what is left of its worker's claim ... *)
LEMMA BudgetReport ==
  ASSUME IInv, IInv', Budget, NEW r \in Requests, NEW v \in Workers, NEW k \in Msgs, WorkerReport(r, v, k)
  PROVE  Budget'
<1>0. ReportEffect(r, v, k)
  BY ReportStep
<1>1. /\ Ids' = Ids /\ k \in Ids
      /\ job[v][k] \in {"delivered", "undelivered"} /\ job'[v][k] = "none"
      /\ \A z \in Workers, m \in Msgs : ~(z = v /\ m = k) => job'[z][m] = job[z][m]
      /\ UNCHANGED <<SendState, FlushState, outbox, ops, expiries, epoch>>
  BY <1>0 DEF ReportEffect
<1>2. UNCHANGED <<delivered, tries, draft, outbox, ops, expiries, faults>>
  BY <1>1 DEF SendState, FlushState
<1>3. TypeOK /\ TypeOK'
  BY DEF IInv
<1> SUFFICES ASSUME NEW c \in {0, 1}, NEW m \in Ids PROVE Afford(c, m)'
  BY <1>1 DEF Budget
<1>4. /\ Afford(c, m) /\ Bound(c)' = Bound(c) /\ Bound(c) <= Bound(c)' /\ m \in Msgs
      /\ Alike(outbox'[m], outbox[m]) /\ Used(c, m)' = Used(c, m)
  BY <1>2, <1>3, BoundStays, Outbox DEF Budget, Used, Alike
<1> DEFINE row == outbox[m]
           col == Column(m)
           col2 == Column(m)'
           g == IF m = k /\ LeasedBy(row, v) /\ col[v] = "undelivered" THEN After(c, row.attempts) ELSE 0
           u == Used(c, m)
           x == ClaimsOf(c, row, col)
           y == ClaimsOf(c, row, col2)
           p == Reports(c, m)
           q == Reports(c, m)'
           b == Bound(c)
<1>5. row \in Row /\ row.attempts \in Nat /\ After(c, row.attempts) \in Nat
  <2>1. row \in Row
    BY <1>3, Outbox
  <2> QED
    BY <2>1, Prices DEF Row
<1>6. col \in [Workers -> JobStates] /\ col2 \in [Workers -> JobStates]
  <2>1. col \in [Workers -> JobStates]
    BY <1>3, <1>4, ColumnIs
  <2>2. col2 \in [Workers -> JobStates]
    BY <1>3, <1>4 DEF Column, TypeOK, JobStates
  <2> QED
    BY <2>1, <2>2
<1>7. q = p + g
  <2>1. p \in Nat
    BY <1>3, OwedIs
  <2>2. q \in Nat
    <3>1. \A s \in Requests : Pledge(c, req'[s], m) \in 0..Unit(c)
      BY <1>3, PledgeIs DEF TypeOK
    <3>2. [s \in Requests |-> Pledge(c, req'[s], m)] \in [Requests -> 0..Unit(c)] /\ Unit(c) \in Nat
      BY <3>1, OutboxAssumption DEF Unit
    <3> QED
      BY <3>2, HeapIs DEF Reports
  <2>3. CASE req' = req /\ ~LeasedBy(outbox[k], v)
    <3>1. q = p
      BY <2>3 DEF Reports
    <3>2. g = 0
      BY <2>3
    <3> HIDE DEF p, q, g
    <3> QED
      BY <2>1, <3>1, <3>2
  <2>4. CASE req[r] = NoReq /\ \A s \in Requests : s # r => req'[s] = req[s]
    <3>1. Reports(c, m)' + Pledge(c, req[r], m) = Reports(c, m) + Pledge(c, req'[r], m)
      BY <1>3, <2>4, ReportsMove
    <3>2. Pledge(c, req[r], m) = 0
      BY <2>4 DEF Pledge
    <3>3. q = p + Pledge(c, req'[r], m)
      <4> HIDE DEF p, q
      <4>1. q + 0 = p + Pledge(c, req'[r], m)
        BY <3>1, <3>2 DEF p, q
      <4> QED
        BY <2>2, <4>1
    <3>4. req'[r] # req[r] => Pledge(c, req'[r], m) = g
      <4>1. CASE job[v][k] = "delivered" /\ LeasedBy(outbox[k], v) /\
                 req'[r] = [op |-> "complete", msg |-> k, loaded |-> outbox[k], wanted |-> Completed(outbox[k])]
        <5>1. col[v] # "undelivered" \/ m # k
          BY <4>1 DEF Column
        <5>2. req'[r].op = "complete"
          BY <4>1
        <5> QED
          BY <5>1, <5>2 DEF Pledge
      <4>2. CASE job[v][k] = "undelivered" /\ LeasedBy(outbox[k], v) /\
                 req'[r] = [op |-> "fail", msg |-> k, loaded |-> outbox[k], wanted |-> FailedByWorker(outbox[k])]
        <5>1. req'[r].op = "fail" /\ req'[r].msg = k /\ req'[r].loaded = outbox[k]
          BY <4>2
        <5>2. m = k => col[v] = "undelivered" /\ LeasedBy(row, v)
          BY <4>2 DEF Column
        <5>3. CASE m = k
          <6>1. Pledge(c, req'[r], m) = After(c, row.attempts)
            BY <2>4, <5>1, <5>3, <4>2 DEF Pledge, NoReq
          <6> QED
            BY <5>2, <5>3, <6>1
        <5>4. CASE m # k
          BY <5>1, <5>4 DEF Pledge
        <5> QED
          BY <5>3, <5>4
      <4>3. CASE req' = req
        BY <4>3
      <4> QED
        BY <1>0, <4>1, <4>2, <4>3 DEF ReportEffect
    <3>5. CASE req'[r] # req[r]
      BY <3>3, <3>4, <3>5
    <3>6. CASE req'[r] = req[r]
      <4>1. ~LeasedBy(outbox[k], v)
        <5>1. "complete" # None /\ "fail" # None
          BY DEF None
        <5>2. req'[r] = NoReq
          BY <2>4, <3>6
        <5>3. req'[r].op = None
          BY <5>2 DEF NoReq
        <5> QED
          BY <1>0, <5>1, <5>3 DEF ReportEffect
      <4>2. g = 0
        BY <4>1
      <4>3. q = p + 0
        BY <3>2, <3>3, <3>6
      <4> QED
        BY <4>2, <4>3
    <3> QED
      BY <3>5, <3>6
  <2> QED
    BY <1>0, <2>3, <2>4 DEF ReportEffect
<1>8. y + g <= x
  <2>1. x \in Nat /\ y \in Nat
    BY <1>5, <1>6, ClaimsIs
  <2>2. CASE m = k
    <3>1. /\ col[v] \in {"delivered", "undelivered"} /\ col2[v] = "none"
          /\ \A z \in Workers \ {v} : col2[z] = col[z]
      BY <1>1, <1>4, <2>2 DEF Column
    <3> HIDE DEF col, col2, row
    <3>2. y <= x /\ (LeasedBy(row, v) /\ col[v] = "undelivered" => y + After(c, row.attempts) <= x)
      BY <1>5, <1>6, <3>1, ClaimsReport
    <3>3. CASE LeasedBy(row, v) /\ col[v] = "undelivered"
      BY <2>2, <3>2, <3>3
    <3>4. CASE ~(LeasedBy(row, v) /\ col[v] = "undelivered")
      <4>1. g = 0
        BY <3>4
      <4> HIDE DEF x, y, g
      <4> QED
        BY <2>1, <3>2, <4>1
    <3> QED
      BY <3>3, <3>4
  <2>3. CASE m # k
    <3>1. \A z \in Workers : job'[z][m] = job[z][m]
      BY <1>1, <1>4, <2>3
    <3>2. col2 = col
      BY <3>1 DEF Column
    <3>3. x = y /\ g = 0
      BY <2>3, <3>2
    <3> HIDE DEF x, y, g
    <3> QED
      BY <2>1, <3>3
  <2> QED
    BY <2>2, <2>3
<1>9. u \in Nat /\ p \in Nat /\ b \in Nat /\ x \in Nat /\ y \in Nat /\ g \in Nat
  <2>1. u \in Nat /\ p \in Nat /\ b \in Nat
    BY <1>3, OwedIs, BoundIs
  <2>2. x \in Nat /\ y \in Nat
    BY <1>5, <1>6, ClaimsIs
  <2>3. g \in Nat
    BY <1>5
  <2> QED
    BY <2>1, <2>2, <2>3
<1>10. u + y + q + b <= u + x + p + b
  <2> HIDE DEF u, x, y, p, q, b, g
  <2> QED
    BY <1>7, <1>8, <1>9
<1>11. Owed(c, m)' = u + y + q
  BY <1>2, <1>4 DEF Owed
<1>12. Owed(c, m)' + Bound(c) <= Owed(c, m) + Bound(c)'
  BY <1>4, <1>10, <1>11 DEF Owed
<1> QED
  BY <1>1, <1>2, <1>3, <1>4, <1>12, AffordKept


(* ... and a commit spends what was pledged. *)
LEMMA BudgetCommit ==
  ASSUME IInv, IInv', Budget, NEW r \in Requests, Commit(r)
  PROVE  Budget'
<1>1. /\ Ids' = Ids /\ req[r] \in Request /\ req[r] # NoReq /\ Sound(req[r])
      /\ ~RowLocked(req[r].msg) /\ outbox[req[r].msg] \in Row
      /\ outbox'[req[r].msg] = Overlay(outbox[req[r].msg], req[r].loaded, req[r].wanted)
      /\ \A m \in Ids : m # req[r].msg => outbox'[m] = outbox[m]
      /\ req'[r] = NoReq /\ \A s \in Requests : s # r => req'[s] = req[s]
      /\ UNCHANGED <<SendState, FlushState, Rest, ops, epoch>>
  BY CommitStep DEF Commit
<1>2. UNCHANGED <<delivered, tries, draft, job, expiries, ops, faults>>
  BY <1>1 DEF SendState, FlushState, Rest
<1>3. TypeOK /\ TypeOK'
  BY DEF IInv
<1> SUFFICES ASSUME NEW c \in {0, 1}, NEW m \in Ids PROVE Afford(c, m)'
  BY <1>1 DEF Budget
<1>4. /\ Afford(c, m) /\ Bound(c)' = Bound(c) /\ Bound(c) <= Bound(c)' /\ m \in Msgs
      /\ Column(m)' = Column(m) /\ Used(c, m)' = Used(c, m)
  BY <1>2, <1>3, BoundStays, Outbox DEF Budget, Used, Column
<1>5. CASE m # req[r].msg
  <2>1. outbox'[m] = outbox[m]
    BY <1>1, <1>5
  <2>2. ASSUME NEW s \in Requests PROVE Pledge(c, req'[s], m) = Pledge(c, req[s], m)
    <3>1. CASE s # r
      BY <1>1, <3>1
    <3>2. CASE s = r
      BY <1>1, <1>5, <3>2 DEF Pledge
    <3> QED
      BY <3>1, <3>2
  <2> QED
    BY <1>1, <1>2, <1>3, <1>4, <2>1, <2>2, Untouched DEF Alike
<1>6. CASE m = req[r].msg
  <2> DEFINE row == outbox[m]
             new == outbox'[m]
             col == Column(m)
             q == req[r]
             p == Reports(c, m)
             g == Reports(c, m)'
             h == Pledge(c, q, m)
  <2>1. /\ row \in Row /\ new = Overlay(row, q.loaded, q.wanted) /\ ~RowLocked(m) /\ col \in [Workers -> JobStates]
    BY <1>1, <1>3, <1>4, <1>6, ColumnIs
  <2>2. g + h = p
    <3>1. Reports(c, m)' + Pledge(c, req[r], m) = Reports(c, m) + Pledge(c, req'[r], m)
      BY <1>1, <1>3, ReportsMove
    <3>2. Pledge(c, req'[r], m) = 0
      BY <1>1 DEF Pledge
    <3>3. p \in Nat
      BY <1>3, OwedIs
    <3> HIDE DEF p, g, h
    <3>4. g + h = p + 0
      BY <3>1, <3>2 DEF p, g, h
    <3> QED
      BY <3>3, <3>4
  <2> HIDE DEF row, new, col
  <2>3. new \in Row /\ ClaimsOf(c, new, col) + Open(c, new) <= ClaimsOf(c, row, col) + Open(c, row) + h
    BY <1>1, <1>6, <2>1, CommitAccount
  <2> DEFINE u == Used(c, m)
             x == ClaimsOf(c, row, col)
             y == ClaimsOf(c, new, col)
             o == Open(c, row)
             n == Open(c, new)
             b == Bound(c)
  <2>4. u \in Nat /\ p \in Nat /\ b \in Nat /\ x \in Nat /\ y \in Nat /\ o \in Nat /\ n \in Nat
    <3>1. u \in Nat /\ p \in Nat /\ b \in Nat
      BY <1>3, OwedIs, BoundIs
    <3>2. x \in Nat /\ y \in Nat
      BY <2>1, <2>3, ClaimsIs
    <3>3. o \in Nat /\ n \in Nat
      BY <2>1, <2>3, OpenIs
    <3> QED
      BY <3>1, <3>2, <3>3
  <2>5. g \in Nat /\ h \in Nat
    <3>1. \A s \in Requests : Pledge(c, req'[s], m) \in 0..Unit(c)
      BY <1>3, PledgeIs DEF TypeOK
    <3>2. [s \in Requests |-> Pledge(c, req'[s], m)] \in [Requests -> 0..Unit(c)] /\ Unit(c) \in Nat
      BY <3>1, OutboxAssumption DEF Unit
    <3>3. g \in Nat
      BY <3>2, HeapIs DEF Reports
    <3>4. h \in 0..Unit(c)
      BY <1>1, PledgeIs
    <3> QED
      BY <3>2, <3>3, <3>4
  <2>6. u + y + g + n + b <= u + x + p + o + b
    <3>1. y + n <= x + o + h
      BY <2>3
    <3> HIDE DEF u, x, y, o, n, p, g, h, b
    <3> QED
      BY <2>2, <2>4, <2>5, <3>1
  <2>7. Owed(c, m) = u + x + p /\ Owed(c, m)' = u + y + g
    BY <1>4 DEF Owed, row, new, col
  <2>8. Owed(c, m)' + Open(c, outbox'[m]) + Bound(c) <= Owed(c, m) + Open(c, outbox[m]) + Bound(c)'
    BY <1>4, <2>6, <2>7 DEF row, new
  <2> QED
    BY <1>1, <1>2, <1>3, <1>4, <2>1, <2>8, AffordOpen
<1> QED
  BY <1>5, <1>6

LEMMA BudgetSame ==
  ASSUME IInv, IInv', Budget, UNCHANGED <<outbox, draft, job, req, delivered, tries, expiries, ops, faults>>
  PROVE  Budget'
<1>1. TypeOK /\ TypeOK' /\ Ids' = Ids
  BY DEF IInv, Ids
<1> SUFFICES ASSUME NEW c \in {0, 1}, NEW m \in Ids PROVE Afford(c, m)'
  BY <1>1 DEF Budget
<1>2. Afford(c, m) /\ Alike(outbox'[m], outbox[m]) /\ Column(m)' = Column(m)
  BY DEF Budget, Alike, Column
<1> QED
  BY <1>1, <1>2, BoundStays, Untouched

LEMMA BudgetStep ==
  ASSUME IInv, IInv', Budget, Next
  PROVE  Budget'
<1>1. ASSUME CloseWindow \/ \E f \in Flushers : CheckQuota(f) PROVE Budget'
  <2>1. UNCHANGED <<outbox, draft, job, req, delivered, tries, expiries, ops, faults>>
    BY <1>1 DEF CloseWindow, CheckQuota, SendState, Rest, RestState
  <2> QED
    BY <2>1, BudgetSame
<1>2. ASSUME \/ \E s \in {"draft", "pending", "skipped"}, d \in BOOLEAN : Queue(s, d)
             \/ \E m \in Msgs : Elapse(m)
             \/ \E m \in Msgs : ExpireLease(m)
      PROVE  Budget'
  BY <1>2, BudgetQueue, BudgetElapse, BudgetExpire
<1>3. ASSUME NEW f \in Flushers,
             \/ FlushStart(f) \/ Suppress(f) \/ GiveUp(f) \/ Defer(f) \/ SendOk(f) \/ SendFail(f)
             \/ FlushCommit(f) \/ FlushAbort(f)
      PROVE  Budget'
  BY <1>3, BudgetStart, BudgetSetAside, BudgetSend, BudgetCommitBatch, BudgetAbort
<1>4. ASSUME \/ \E w \in Workers, n \in 1..MaxMsgs : WorkerClaim(w, n)
             \/ \E w \in Workers, m \in Msgs, ok \in BOOLEAN : WorkerSend(w, m, ok)
             \/ ReleaseExpired
      PROVE  Budget'
  BY <1>4, BudgetClaim, BudgetWorkerSend, BudgetRelease
<1>5. ASSUME \/ \E r \in Requests, op \in Ops, m \in Msgs : OperatorLoad(r, op, m)
             \/ \E r \in Requests, w \in Workers, m \in Msgs : WorkerReport(r, w, m)
             \/ \E r \in Requests : Commit(r)
      PROVE  Budget'
  BY <1>5, BudgetOperator, BudgetReport, BudgetCommit
<1> QED
  BY <1>1, <1>2, <1>3, <1>4, <1>5, NextCases

LEMMA Budgeted == Spec => [](IInv /\ Budget)
<1>1. Init => Budget
  BY DEF Init, Budget, Ids
<1>2. IInv /\ IInv' /\ Budget /\ [Next]_vars => Budget'
  <2>1. ASSUME IInv, IInv', Budget, UNCHANGED vars PROVE Budget'
    BY <2>1, BudgetSame DEF vars
  <2> QED
    BY <2>1, BudgetStep
<1> QED
  BY <1>1, <1>2, Invariant, PTL DEF Spec

(* What is spent never exceeds what was paid in. *)
LEMMA WithinBudget ==
  ASSUME IInv, Budget, NEW c \in {0, 1}, NEW m \in Msgs
  PROVE  Used(c, m) <= Bound(c)
<1>1. TypeOK /\ Bound(c) \in Nat /\ Used(c, m) \in Nat
  BY BoundIs DEF IInv, TypeOK, Used
<1>2. CASE m \notin Ids
  BY <1>1, <1>2 DEF IInv, Unqueued, Used
<1>3. CASE m \in Ids
  <2> DEFINE u == Used(c, m)
             x == ClaimsOf(c, outbox[m], Column(m))
             p == Reports(c, m)
             o == Open(c, outbox[m])
             b == Bound(c)
  <2>1. u \in Nat /\ x \in Nat /\ p \in Nat /\ o \in Nat /\ b \in Nat /\ outbox[m] \in Row
    BY <1>1, <1>3, OwedIs
  <2>2. Afford(c, m)
    BY <1>3 DEF Budget
  <2>3. CASE ~RowLocked(m)
    <3>1. u + x + p + o <= b
      BY <2>2, <2>3 DEF Afford, Owed
    <3> HIDE DEF u, x, p, o, b
    <3>2. u <= b
      BY <2>1, <3>1
    <3> QED
      BY <3>2 DEF u, b
  <2>4. CASE RowLocked(m)
    <3>1. PICK f \in Flushers : m \in DOMAIN draft[f]
      BY <2>4 DEF RowLocked
    <3> DEFINE i == InHand(c, outbox[m], draft[f][m])
    <3>2. i \in Nat
      BY <1>1, <2>1, <3>1, OpenIs DEF TypeOK
    <3>3. u + x + p + i <= b
      BY <2>2, <3>1 DEF Afford, Owed
    <3> HIDE DEF u, x, p, i, b
    <3>4. u <= b
      BY <2>1, <3>2, <3>3
    <3> QED
      BY <3>4 DEF u, b
  <2> QED
    BY <2>3, <2>4
<1> QED
  BY <1>2, <1>3

(* An email is delivered once, but for what a rolled-back flush, an        *)
(* expired lease or an operator who reopens it pays for: in the currency   *)
(* of copies a row, a claim and a report about to reopen it cost one each. *)
THEOREM EachOnce == Spec => []DeliveredOnce
<1>1. IInv /\ Budget => DeliveredOnce
  <2> SUFFICES ASSUME IInv, Budget, NEW m \in Msgs
               PROVE  delivered[m] <= 1 + faults + expiries + Reopened
    BY DEF DeliveredOnce
  <2>1. delivered[m] <= Unit(0) * (1 + expiries + Reopened) + faults
    BY WithinBudget DEF Used, Bound
  <2>2. Unit(0) = 1 /\ delivered[m] \in Nat /\ faults \in Nat /\ expiries \in Nat /\ Reopened \in Nat
    BY DEF Unit, IInv, TypeOK, Reopened
  <2> DEFINE d == delivered[m]
             n == Reopened
  <2> HIDE DEF d, n
  <2>3. d <= 1 * (1 + expiries + n) + faults /\ d \in Nat /\ n \in Nat
    BY <2>1, <2>2 DEF d, n
  <2>4. d <= 1 + faults + expiries + n
    BY <2>2, <2>3
  <2> QED
    BY <2>4 DEF d, n
<1> QED
  BY <1>1, Budgeted, PTL

(* Attempts stop: in the currency of attempts a row that was tried a times *)
(* costs what is left of max_attempts, and one more for the worker that    *)
(* takes it when the flush has given up.                                   *)
THEOREM TriesBounded == Spec => []AttemptsBounded
<1>1. IInv /\ Budget => AttemptsBounded
  <2> SUFFICES ASSUME IInv, Budget, NEW m \in Msgs
               PROVE  tries[m] <= (MaxAttempts + 1) * (1 + expiries + Reopened) + faults
    BY DEF AttemptsBounded
  <2>1. Unit(1) = MaxAttempts + 1 /\ Used(1, m) = tries[m]
    BY DEF Unit, Used
  <2> QED
    BY <2>1, WithinBudget DEF Bound
<1> QED
  BY <1>1, Budgeted, PTL
=============================================================================
