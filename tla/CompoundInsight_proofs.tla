------------------------- MODULE CompoundInsight_proofs -------------------------
(***************************************************************************)
(* No insight is in the table unannounced, and while the two jobs do not   *)
(* overlap each surfacing is announced exactly once and every flagged      *)
(* change has its effect, for every number of patterns and every batch     *)
(* size.                                                                   *)
(***************************************************************************)
EXTENDS CompoundInsight, FiniteSetTheorems, SequenceTheorems, TLAPS

Tx == [pc : {"idle", "detect", "read", "apply", "resolve"}, todo : SUBSET Patterns, taken : 0..Batch,
       key : SUBSET Patterns, seen : Status, gone : SUBSET Patterns, writes : [Patterns -> Written],
       mail : SUBSET Patterns, raised : SUBSET Patterns]

DataTyped ==
  /\ holds \in [Patterns -> BOOLEAN] /\ row \in [Patterns -> Status]
  /\ queue \in Seq(Patterns) /\ Len(queue) <= changes
  /\ changes \in 0..MaxChanges /\ faults \in 0..MaxFaults
  /\ missed \subseteq Patterns /\ overlapped \in BOOLEAN
  /\ surfacings \in [Patterns -> Nat] /\ notices \in [Patterns -> Nat]

(* The candidates a drain has taken are still at the head of the queue. *)
TakenThere == tx["sweep"].taken = 0 /\ tx["drain"].taken <= Len(queue)

(* Unless they overlapped, one run is idle while the other is open. *)
Alone == ~overlapped => \A p \in Runs : Pc(p) # "idle" => Pc(Other(p)) = "idle"

(* The row of k is there, or p inserts it and announces it when it commits. *)
Backed(p, k) == row[k] # "none" \/ k \in tx[p].mail

(* An open run writes, or is about to write, only rows that are there or   *)
(* that it announces.                                                      *)
WritesBacked(p) ==
  /\ \A k \in Patterns : tx[p].writes[k] # "no" => Backed(p, k)
  /\ \A k \in tx[p].gone : Backed(p, k)
  /\ Pc(p) = "resolve" => \A k \in tx[p].todo : Backed(p, k)
  /\ Pc(p) = "apply" /\ tx[p].seen # "none" => \A k \in tx[p].key : Backed(p, k)

(* A run that is alone visits a pattern once and decides on the row as it  *)
(* is, so that it announces what it surfaces and nothing else.             *)
SoloRun(p) ==
  /\ tx[p].mail = tx[p].raised
  /\ Pc(p) \in {"detect", "read", "apply"} =>
       /\ tx[p].todo \cap tx[p].key = {}
       /\ \A k \in tx[p].todo \cup tx[p].key : tx[p].writes[k] = "no"
  /\ Pc(p) = "apply" => \A k \in tx[p].key : tx[p].seen = row[k]

TxTrue(p) ==
  /\ \A j, k \in tx[p].key : j = k
  /\ WritesBacked(p)
  /\ ~overlapped => SoloRun(p)

IInv ==
  /\ DataTyped /\ tx \in [Runs -> Tx] /\ TakenThere /\ Alone
  /\ \A p \in Runs : TxTrue(p)
  /\ Announced

-----------------------------------------------------------------------------
LEMMA Types == IInv => TypeOK
<1> SUFFICES ASSUME IInv PROVE TypeOK
  OBVIOUS
<1>1. Len(queue) <= MaxChanges
  <2>1. Len(queue) \in Nat /\ Len(queue) <= changes /\ changes \in 0..MaxChanges
    BY DEF IInv, DataTyped
  <2> QED
    BY <2>1, BoundsAssumption
<1>2. ASSUME NEW p \in Runs PROVE Cardinality(tx[p].key) <= 1
  <2>1. tx[p].key = {} \/ \E k : tx[p].key = {k}
    BY DEF IInv, TxTrue
  <2>2. CASE tx[p].key = {}
    BY <2>2, FS_EmptySet
  <2>3. ASSUME NEW k, tx[p].key = {k} PROVE Cardinality(tx[p].key) = 1
    BY <2>3, FS_Singleton
  <2> QED
    BY <2>1, <2>2, <2>3
<1> QED
  BY <1>1, <1>2 DEF IInv, DataTyped, TypeOK, Tx

LEMMA Others ==
  ASSUME NEW p \in Runs
  PROVE  /\ Other(p) \in Runs /\ Other(p) # p
         /\ \A q \in Runs : q = p \/ q = Other(p)
BY DEF Runs, Other

LEMMA IdleTyped == Idle \in Tx
BY BoundsAssumption DEF Idle, Tx, NoWrites, Status, Written

(* A run that has ended. *)
LEMMA IdleTrue ==
  ASSUME NEW p \in Runs, tx'[p] = Idle
  PROVE  TxTrue(p)'
BY DEF Idle, NoWrites, TxTrue, WritesBacked, SoloRun, Pc, Backed

(* What holds of the other run stays true. *)
LEMMA OtherStays ==
  ASSUME IInv, NEW q \in Runs, tx'[q] = tx[q],
         \A k \in Patterns : row[k] # "none" => row'[k] # "none",
         overlapped => overlapped',
         overlapped' \/ row' = row \/ Pc(q) = "idle"
  PROVE  TxTrue(q)'
<1>1. tx[q] \in Tx
  BY DEF IInv
<1>2. WritesBacked(q)'
  BY <1>1 DEF IInv, TxTrue, WritesBacked, Backed, Pc, Tx
<1>3. ASSUME ~overlapped' PROVE SoloRun(q)'
  BY <1>1, <1>3 DEF IInv, TxTrue, SoloRun, Pc
<1> QED
  BY <1>2, <1>3 DEF IInv, TxTrue

(* A step of one run that touches nothing outside it. *)
LEMMA OwnStep ==
  ASSUME IInv, NEW p \in Runs, NEW r \in Tx, Step(p, r),
         row' = row, queue' = queue, UNCHANGED world,
         overlapped' = overlapped, surfacings' = surfacings, notices' = notices,
         missed' \subseteq Patterns, faults' \in 0..MaxFaults,
         r.taken = tx[p].taken \/ r.taken = 0,
         r.pc = "idle" \/ Pc(p) # "idle",
         TxTrue(p)'
  PROVE  IInv'
<1>1. tx' = [tx EXCEPT ![p] = r] /\ tx' \in [Runs -> Tx] /\ tx'[p] = r
  BY DEF Step, IInv
<1>2. tx'[Other(p)] = tx[Other(p)] /\ Other(p) \in Runs /\ Other(p) # p
  BY <1>1, Others DEF IInv
<1>3. TxTrue(Other(p))'
  BY <1>2, OtherStays
<1>4. \A q \in Runs : TxTrue(q)'
  BY <1>3, Others
<1>5. DataTyped'
  BY DEF IInv, DataTyped, world
<1>6. TakenThere'
  <2>1. tx["sweep"].taken = 0 /\ tx["drain"].taken <= Len(queue) /\ Len(queue) \in Nat
    BY DEF IInv, TakenThere, DataTyped
  <2>2. \A q \in Runs : tx'[q].taken = tx[q].taken \/ tx'[q].taken = 0
    BY <1>1, <1>2, Others
  <2> QED
    BY <2>1, <2>2 DEF TakenThere, Runs
<1>7. Alone'
  <2> SUFFICES ASSUME ~overlapped', NEW q \in Runs, Pc(q)' # "idle" PROVE Pc(Other(q))' = "idle"
    BY DEF Alone
  <2>1. \A s \in Runs : Pc(s) = "idle" => Pc(s)' = "idle"
    BY <1>1, <1>2, Others DEF Pc
  <2>2. Pc(q) # "idle"
    BY <2>1
  <2>3. Pc(Other(q)) = "idle" /\ Other(q) \in Runs
    BY <2>2, Others DEF IInv, Alone
  <2> QED
    BY <2>1, <2>3 DEF Other
<1>8. Announced'
  BY DEF IInv, Announced
<1> QED
  BY <1>1, <1>4, <1>5, <1>6, <1>7, <1>8 DEF IInv

-----------------------------------------------------------------------------
(* The data, and the start of a run.                                       *)

LEMMA FlipStep ==
  ASSUME IInv, NEW k \in Patterns, Publish(k) \/ PublishListenerFails(k)
  PROVE  IInv'
<1>1. /\ tx' = tx /\ row' = row /\ overlapped' = overlapped
      /\ surfacings' = surfacings /\ notices' = notices
      /\ changes < MaxChanges /\ changes' = changes + 1
      /\ holds' = [holds EXCEPT ![k] = ~@]
      /\ missed' = missed \/ missed' = missed \cup {k}
      /\ faults' = faults \/ (faults < MaxFaults /\ faults' = faults + 1)
      /\ queue' = queue \/ queue' = Append(queue, k)
  BY DEF Publish, PublishListenerFails, Flip, history
<1>2. /\ queue' \in Seq(Patterns) /\ Len(queue') \in Nat /\ Len(queue) \in Nat
      /\ Len(queue') >= Len(queue) /\ Len(queue') <= Len(queue) + 1
  <2>1. queue \in Seq(Patterns) /\ Len(queue) \in Nat
    BY DEF IInv, DataTyped
  <2>2. CASE queue' = queue
    BY <2>1, <2>2
  <2>3. CASE queue' = Append(queue, k)
    <3>1. queue' \in Seq(Patterns) /\ Len(queue') = Len(queue) + 1
      BY <2>1, <2>3, AppendProperties
    <3> QED
      BY <2>1, <3>1
  <2> QED
    BY <1>1, <2>2, <2>3
<1>3. DataTyped'
  <2>1. holds' \in [Patterns -> BOOLEAN]
    BY <1>1 DEF IInv, DataTyped
  <2>2. changes' \in 0..MaxChanges /\ faults' \in 0..MaxFaults /\ Len(queue') <= changes'
    BY <1>1, <1>2, BoundsAssumption DEF IInv, DataTyped
  <2> QED
    BY <1>1, <1>2, <2>1, <2>2 DEF IInv, DataTyped
<1>4. TakenThere'
  <2>1. tx["drain"].taken \in Nat
    BY BoundsAssumption DEF IInv, Tx, Runs
  <2> QED
    BY <1>1, <1>2, <2>1 DEF IInv, TakenThere
<1>5. Alone' /\ Announced' /\ \A p \in Runs : TxTrue(p)'
  BY <1>1 DEF IInv, Alone, Announced, TxTrue, WritesBacked, SoloRun, Backed, Pc
<1> QED
  BY <1>1, <1>3, <1>4, <1>5 DEF IInv

(* A run that begins. *)
Begun(todo, n) == [Idle EXCEPT !.pc = "detect", !.todo = todo, !.taken = n]

LEMMA Started ==
  ASSUME NEW todo, NEW n, todo \in SUBSET Patterns, n \in 0..Batch
  PROVE  /\ Begun(todo, n) \in Tx /\ Begun(todo, n).pc = "detect"
         /\ Begun(todo, n).todo = todo /\ Begun(todo, n).taken = n
         /\ Begun(todo, n).key = {} /\ Begun(todo, n).seen = "none" /\ Begun(todo, n).gone = {}
         /\ Begun(todo, n).writes = NoWrites /\ Begun(todo, n).mail = {} /\ Begun(todo, n).raised = {}
<1> DEFINE r == Begun(todo, n)
<1>1. /\ r \in Tx /\ r.pc = "detect" /\ r.todo = todo /\ r.taken = n
      /\ r.key = Idle.key /\ r.seen = Idle.seen /\ r.gone = Idle.gone /\ r.writes = Idle.writes
      /\ r.mail = Idle.mail /\ r.raised = Idle.raised
  BY IdleTyped DEF Tx, Begun
<1>2. /\ Idle.key = {} /\ Idle.seen = "none" /\ Idle.gone = {} /\ Idle.writes = NoWrites
      /\ Idle.mail = {} /\ Idle.raised = {}
  BY DEF Idle
<1> QED
  BY <1>1, <1>2

LEMMA StartStep ==
  ASSUME IInv, NEW p \in Runs, NEW todo \in SUBSET Patterns, NEW n \in 0..Batch, Start(p, todo, n),
         p = "sweep" => n = 0, n <= Len(queue)
  PROVE  IInv'
<1> DEFINE r == Begun(todo, n)
<1>1. /\ r \in Tx /\ r.pc = "detect" /\ r.todo = todo /\ r.taken = n
      /\ r.key = {} /\ r.seen = "none" /\ r.gone = {} /\ r.writes = NoWrites
      /\ r.mail = {} /\ r.raised = {}
  BY Started
<1>2. r \in Tx
  BY <1>1
<1>3. tx' = [tx EXCEPT ![p] = r] /\ tx' \in [Runs -> Tx] /\ tx'[p] = r
  BY <1>2 DEF Start, Step, Begun, IInv
<1>4. /\ row' = row /\ queue' = queue /\ faults' = faults /\ missed' = missed
      /\ surfacings' = surfacings /\ notices' = notices /\ holds' = holds /\ changes' = changes
      /\ overlapped' = (overlapped \/ Pc(Other(p)) # "idle")
  BY DEF Start, world
<1>5. tx'[Other(p)] = tx[Other(p)] /\ Other(p) \in Runs /\ Other(p) # p
  BY <1>3, Others DEF IInv
<1>6. TxTrue(Other(p))'
  BY <1>4, <1>5, OtherStays DEF IInv, DataTyped
<1>7. TxTrue(p)'
  <2>2. tx'[p].key = {} /\ \A k \in Patterns : tx'[p].writes[k] = "no"
    BY <1>1, <1>3 DEF NoWrites
  <2>3. WritesBacked(p)'
    BY <1>1, <1>3, <2>2 DEF WritesBacked, Pc
  <2>4. SoloRun(p)'
    BY <1>1, <1>3, <2>2 DEF SoloRun, Pc
  <2> QED
    BY <2>2, <2>3, <2>4 DEF TxTrue
<1>8. DataTyped' /\ Announced'
  BY <1>4 DEF IInv, DataTyped, Announced
<1>9. TakenThere'
  <2>1. r.taken = n
    BY <1>1
  <2> QED
    BY <1>3, <1>4, <1>5, <2>1, Others DEF IInv, TakenThere, Runs
<1>10. Alone'
  <2> SUFFICES ASSUME ~overlapped' PROVE Pc(Other(p))' = "idle"
    <3>1. \A q \in Runs : q # p => q = Other(p) /\ Other(q) = p
      BY Others DEF Runs
    <3> QED
      BY <3>1, <1>5 DEF Alone, Other
  <2> QED
    BY <1>4, <1>5 DEF Pc, Other
<1> QED
  BY <1>3, <1>6, <1>7, <1>8, <1>9, <1>10, Others DEF IInv

LEMMA DrainStartStep ==
  ASSUME IInv, DrainStart
  PROVE  IInv'
<1> DEFINE n == IF Len(queue) < Batch THEN Len(queue) ELSE Batch
           todo == ToSet(SubSeq(queue, 1, n))
<1>1. queue \in Seq(Patterns) /\ Len(queue) \in Nat
  BY DEF IInv, DataTyped
<1>2. n \in 0..Batch /\ n <= Len(queue) /\ n \in 0..Len(queue)
  BY <1>1, BoundsAssumption
<1>3. SubSeq(queue, 1, n) \in Seq(Patterns)
  BY <1>1, <1>2, SubSeqProperties
<1>4. todo \in SUBSET Patterns
  BY <1>3 DEF ToSet
<1>5. Start("drain", todo, n)
  BY DEF DrainStart
<1> HIDE DEF n, todo
<1> QED
  BY <1>2, <1>4, <1>5, StartStep DEF Runs

LEMMA SweepStartStep ==
  ASSUME IInv, SweepStart
  PROVE  IInv'
<1>1. 0 \in 0..Batch /\ 0 <= Len(queue)
  BY BoundsAssumption DEF IInv, DataTyped
<1> QED
  BY <1>1, StartStep DEF SweepStart, Runs

-----------------------------------------------------------------------------
(* One lemma per step of a run: what becomes of its record, then what that *)
(* leaves true.                                                            *)

LEMMA Now ==
  ASSUME IInv, NEW p \in Runs
  PROVE  /\ tx[p] \in Tx /\ TxTrue(p)
         /\ missed \subseteq Patterns /\ faults \in 0..MaxFaults
         /\ \A r : Step(p, r) => tx'[p] = r
BY DEF IInv, DataTyped, Step

LEMMA DetectStep ==
  ASSUME IInv, NEW p \in Runs, Detect(p)
  PROVE  IInv'
<1>1. PICK k \in tx[p].todo :
        Step(p, IF holds[k] THEN [tx[p] EXCEPT !.pc = "read", !.todo = @ \ {k}, !.key = {k}]
                            ELSE [tx[p] EXCEPT !.todo = @ \ {k}])
  BY DEF Detect
<1>2. tx[p] \in Tx /\ TxTrue(p) /\ Pc(p) = "detect" /\ k \in Patterns
  BY Now DEF Detect, Tx
<1>3. CASE holds[k]
  <2> DEFINE r == [tx[p] EXCEPT !.pc = "read", !.todo = @ \ {k}, !.key = {k}]
  <2>1. /\ r \in Tx /\ r.pc = "read" /\ r.todo = tx[p].todo \ {k} /\ r.taken = tx[p].taken
        /\ r.key = {k} /\ r.seen = tx[p].seen /\ r.gone = tx[p].gone /\ r.writes = tx[p].writes
        /\ r.mail = tx[p].mail /\ r.raised = tx[p].raised
    BY <1>2 DEF Tx
  <2>2. Step(p, r) /\ tx'[p] = r
    BY <1>1, <1>3, Now
  <2> HIDE DEF r
  <2>4. TxTrue(p)'
    <3>1. WritesBacked(p)'
      BY <1>2, <2>1, <2>2 DEF Detect, TxTrue, WritesBacked, Backed, Pc
    <3>2. ASSUME ~overlapped PROVE SoloRun(p)'
      BY <1>2, <2>1, <2>2, <3>2 DEF Detect, TxTrue, SoloRun, Pc
    <3> QED
      BY <2>1, <2>2, <3>1, <3>2 DEF Detect, TxTrue, history
  <2> QED
    BY <1>2, <2>1, <2>2, <2>4, OwnStep, Now DEF Detect, history
<1>4. CASE ~holds[k]
  <2> DEFINE r == [tx[p] EXCEPT !.todo = @ \ {k}]
  <2>1. /\ r \in Tx /\ r.pc = tx[p].pc /\ r.todo = tx[p].todo \ {k} /\ r.taken = tx[p].taken
        /\ r.key = tx[p].key /\ r.seen = tx[p].seen /\ r.gone = tx[p].gone /\ r.writes = tx[p].writes
        /\ r.mail = tx[p].mail /\ r.raised = tx[p].raised
    BY <1>2 DEF Tx
  <2>2. Step(p, r) /\ tx'[p] = r
    BY <1>1, <1>4, Now
  <2> HIDE DEF r
  <2>4. TxTrue(p)'
    <3>1. WritesBacked(p)'
      BY <1>2, <2>1, <2>2 DEF Detect, TxTrue, WritesBacked, Backed, Pc
    <3>2. ASSUME ~overlapped PROVE SoloRun(p)'
      BY <1>2, <2>1, <2>2, <3>2 DEF Detect, TxTrue, SoloRun, Pc
    <3> QED
      BY <1>2, <2>1, <2>2, <3>1, <3>2 DEF Detect, TxTrue, history
  <2> QED
    BY <1>2, <2>1, <2>2, <2>4, OwnStep, Now DEF Detect, history
<1> QED
  BY <1>3, <1>4

LEMMA ReadStep ==
  ASSUME IInv, NEW p \in Runs, ReadRow(p)
  PROVE  IInv'
<1>1. PICK k \in tx[p].key : Step(p, [tx[p] EXCEPT !.pc = "apply", !.seen = View(p, k)])
  BY DEF ReadRow
<1>2. /\ tx[p] \in Tx /\ TxTrue(p) /\ Pc(p) = "read" /\ k \in Patterns
      /\ row \in [Patterns -> Status] /\ tx[p].writes \in [Patterns -> Written]
  BY Now DEF ReadRow, Tx, IInv, DataTyped
<1>3. View(p, k) \in Status
  BY <1>2 DEF View, Status, Written
<1> DEFINE r == [tx[p] EXCEPT !.pc = "apply", !.seen = View(p, k)]
<1>4. /\ r \in Tx /\ r.pc = "apply" /\ r.todo = tx[p].todo /\ r.taken = tx[p].taken
      /\ r.key = tx[p].key /\ r.seen = View(p, k) /\ r.gone = tx[p].gone /\ r.writes = tx[p].writes
      /\ r.mail = tx[p].mail /\ r.raised = tx[p].raised
  BY <1>2, <1>3 DEF Tx
<1>5. Step(p, r) /\ tx'[p] = r
  BY <1>1, Now
<1>6. \A j \in tx[p].key : j = k
  BY <1>2 DEF TxTrue
<1> HIDE DEF r
<1>7. WritesBacked(p)'
  <2>1. View(p, k) # "none" => Backed(p, k)
    BY <1>2 DEF View, TxTrue, WritesBacked, Backed
  <2> QED
    BY <1>2, <1>4, <1>5, <1>6, <2>1 DEF ReadRow, TxTrue, WritesBacked, Backed, Pc
<1>8. ASSUME ~overlapped PROVE SoloRun(p)'
  <2>1. View(p, k) = row[k]
    BY <1>2, <1>8 DEF View, TxTrue, SoloRun
  <2> QED
    BY <1>2, <1>4, <1>5, <1>6, <1>8, <2>1 DEF ReadRow, TxTrue, SoloRun, Pc
<1>9. TxTrue(p)'
  BY <1>2, <1>4, <1>5, <1>7, <1>8 DEF ReadRow, TxTrue, history
<1> QED
  BY <1>2, <1>4, <1>5, <1>9, OwnStep, Now DEF ReadRow, history

LEMMA ListStep ==
  ASSUME IInv, ListSurfaced
  PROVE  IInv'
<1> DEFINE p == "sweep"
           found == {k \in Patterns : View(p, k) = "surfaced"}
           r == [tx[p] EXCEPT !.pc = "resolve", !.todo = found]
<1>1. p \in Runs /\ Step(p, r)
  BY DEF ListSurfaced, Runs
<1>2. tx[p] \in Tx /\ TxTrue(p) /\ Pc(p) = "detect"
  BY <1>1, Now DEF ListSurfaced
<1>3. /\ r \in Tx /\ r.pc = "resolve" /\ r.todo = found /\ r.taken = tx[p].taken
      /\ r.key = tx[p].key /\ r.seen = tx[p].seen /\ r.gone = tx[p].gone /\ r.writes = tx[p].writes
      /\ r.mail = tx[p].mail /\ r.raised = tx[p].raised
  BY <1>2 DEF Tx
<1>4. tx'[p] = r
  BY <1>1, Now
<1>5. \A k \in found : Backed(p, k)
  BY <1>2 DEF View, TxTrue, WritesBacked, Backed
<1> HIDE DEF r, found
<1>6. WritesBacked(p)'
  BY <1>2, <1>3, <1>4, <1>5 DEF ListSurfaced, TxTrue, WritesBacked, Backed, Pc
<1>7. ASSUME ~overlapped PROVE SoloRun(p)'
  BY <1>2, <1>3, <1>4, <1>7 DEF ListSurfaced, TxTrue, SoloRun, Pc
<1>8. TxTrue(p)'
  BY <1>2, <1>3, <1>4, <1>6, <1>7 DEF ListSurfaced, TxTrue, history
<1> QED
  BY <1>1, <1>2, <1>3, <1>8, OwnStep, Now DEF ListSurfaced, history

LEMMA RecheckStep ==
  ASSUME IInv, Recheck
  PROVE  IInv'
<1> DEFINE p == "sweep"
<1>1. PICK k \in tx[p].todo :
        Step(p, [tx[p] EXCEPT !.todo = @ \ {k}, !.gone = IF holds[k] THEN @ ELSE @ \cup {k}])
  BY DEF Recheck
<1>2. tx[p] \in Tx /\ TxTrue(p) /\ Pc(p) = "resolve" /\ p \in Runs
  BY Now DEF Recheck, Runs
<1> DEFINE r == [tx[p] EXCEPT !.todo = @ \ {k}, !.gone = IF holds[k] THEN @ ELSE @ \cup {k}]
<1>3. /\ r \in Tx /\ r.pc = tx[p].pc /\ r.todo = tx[p].todo \ {k} /\ r.taken = tx[p].taken
      /\ r.key = tx[p].key /\ r.seen = tx[p].seen /\ r.gone \subseteq tx[p].gone \cup {k}
      /\ r.writes = tx[p].writes /\ r.mail = tx[p].mail /\ r.raised = tx[p].raised
  BY <1>2 DEF Tx
<1>4. Step(p, r) /\ tx'[p] = r
  BY <1>1, <1>2, Now
<1> HIDE DEF r
<1>6. WritesBacked(p)'
  BY <1>2, <1>3, <1>4 DEF Recheck, TxTrue, WritesBacked, Backed, Pc
<1>7. ASSUME ~overlapped PROVE SoloRun(p)'
  BY <1>2, <1>3, <1>4, <1>7 DEF Recheck, TxTrue, SoloRun, Pc
<1>8. TxTrue(p)'
  BY <1>2, <1>3, <1>4, <1>6, <1>7 DEF Recheck, TxTrue, history
<1> QED
  BY <1>2, <1>3, <1>4, <1>8, OwnStep, Now DEF Recheck, history

LEMMA ResolveStep ==
  ASSUME IInv, Resolve
  PROVE  IInv'
<1> DEFINE p == "sweep"
<1>1. PICK k \in tx[p].gone :
        Step(p, [tx[p] EXCEPT !.gone = @ \ {k}, !.writes[k] = "auto_resolved"])
  BY DEF Resolve
<1>2. tx[p] \in Tx /\ TxTrue(p) /\ Pc(p) = "resolve" /\ p \in Runs /\ tx[p].writes \in [Patterns -> Written]
  BY Now DEF Resolve, Runs, Tx
<1> DEFINE r == [tx[p] EXCEPT !.gone = @ \ {k}, !.writes[k] = "auto_resolved"]
<1>3. /\ r \in Tx /\ r.pc = tx[p].pc /\ r.todo = tx[p].todo /\ r.taken = tx[p].taken
      /\ r.key = tx[p].key /\ r.seen = tx[p].seen /\ r.gone = tx[p].gone \ {k}
      /\ \A j \in Patterns \ {k} : r.writes[j] = tx[p].writes[j]
      /\ r.mail = tx[p].mail /\ r.raised = tx[p].raised
  BY <1>2 DEF Tx, Written
<1>4. Step(p, r) /\ tx'[p] = r
  BY <1>1, <1>2, Now
<1> HIDE DEF r
<1>6. WritesBacked(p)'
  BY <1>2, <1>3, <1>4 DEF Resolve, TxTrue, WritesBacked, Backed, Pc
<1>7. ASSUME ~overlapped PROVE SoloRun(p)'
  BY <1>2, <1>3, <1>4, <1>7 DEF Resolve, TxTrue, SoloRun, Pc
<1>8. TxTrue(p)'
  BY <1>2, <1>3, <1>4, <1>6, <1>7 DEF Resolve, TxTrue, history
<1> QED
  BY <1>2, <1>3, <1>4, <1>8, OwnStep, Now DEF Resolve, history

(* What is written for the pattern at hand, and whether it is announced. *)
LEMMA SurfacedIs ==
  ASSUME NEW p \in Runs, NEW k, row[k] \in Status, tx[p].seen \in Status,
         tx[p].seen # "none" => Backed(p, k)
  PROVE  /\ Surfaced(p, k).write \in {"count", "surfaced"}
         /\ Surfaced(p, k).mail \subseteq {k}
         /\ row[k] # "none" \/ k \in tx[p].mail \cup Surfaced(p, k).mail
         /\ tx[p].seen = row[k] =>
              Surfaced(p, k).mail = IF Surfaced(p, k).write = "surfaced" /\ row[k] # "surfaced" THEN {k} ELSE {}
<1>1. CASE tx[p].seen = "surfaced"
  BY <1>1 DEF Surfaced, Backed
<1>2. CASE tx[p].seen = "auto_resolved"
  BY <1>2 DEF Surfaced, Backed
<1>3. CASE tx[p].seen = "none" /\ row[k] = "none"
  BY <1>3 DEF Surfaced
<1>4. CASE tx[p].seen = "none" /\ row[k] = "surfaced"
  BY <1>4 DEF Surfaced
<1>5. CASE tx[p].seen = "none" /\ row[k] = "auto_resolved"
  BY <1>5 DEF Surfaced
<1> QED
  BY <1>1, <1>2, <1>3, <1>4, <1>5 DEF Status

LEMMA SurfaceStep ==
  ASSUME IInv, NEW p \in Runs, Surface(p)
  PROVE  IInv'
<1>1. PICK k \in tx[p].key :
        Step(p, [tx[p] EXCEPT !.pc = "detect", !.key = {}, !.seen = "none",
                   !.writes[k] = Surfaced(p, k).write, !.mail = @ \cup Surfaced(p, k).mail,
                   !.raised = IF Surfaced(p, k).write = "surfaced" /\ row[k] # "surfaced"
                              THEN @ \cup {k} ELSE @])
  BY DEF Surface
<1>2. /\ tx[p] \in Tx /\ TxTrue(p) /\ Pc(p) = "apply" /\ k \in Patterns
      /\ row \in [Patterns -> Status] /\ tx[p].writes \in [Patterns -> Written]
  BY Now DEF Surface, Tx, IInv, DataTyped
<1> DEFINE write == Surfaced(p, k).write
           mail == Surfaced(p, k).mail
           raises == write = "surfaced" /\ row[k] # "surfaced"
           r == [tx[p] EXCEPT !.pc = "detect", !.key = {}, !.seen = "none",
                   !.writes[k] = write, !.mail = @ \cup mail,
                   !.raised = IF raises THEN @ \cup {k} ELSE @]
<1>3. /\ write \in {"count", "surfaced"} /\ mail \subseteq {k}
      /\ row[k] # "none" \/ k \in tx[p].mail \cup mail
      /\ tx[p].seen = row[k] => mail = IF raises THEN {k} ELSE {}
  <2>1. row[k] \in Status /\ tx[p].seen \in Status
    BY <1>2 DEF Tx
  <2>2. tx[p].seen # "none" => Backed(p, k)
    BY <1>2 DEF TxTrue, WritesBacked
  <2> QED
    BY <2>1, <2>2, SurfacedIs
<1>4. Step(p, r) /\ tx'[p] = r
  BY <1>1, Now
<1> HIDE DEF write, mail, raises
<1>5. /\ r \in Tx /\ r.pc = "detect" /\ r.todo = tx[p].todo /\ r.taken = tx[p].taken
      /\ r.key = {} /\ r.seen = "none" /\ r.gone = tx[p].gone
      /\ \A j \in Patterns \ {k} : r.writes[j] = tx[p].writes[j]
      /\ r.mail = tx[p].mail \cup mail
      /\ r.raised = IF raises THEN tx[p].raised \cup {k} ELSE tx[p].raised
  BY <1>2, <1>3 DEF Tx, Written, Status
<1> HIDE DEF r
<1>6. WritesBacked(p)'
  BY <1>2, <1>3, <1>4, <1>5 DEF Surface, TxTrue, WritesBacked, Backed, Pc
<1>7. ASSUME ~overlapped PROVE SoloRun(p)'
  <2>1. tx[p].seen = row[k] /\ tx[p].mail = tx[p].raised /\ k \notin tx[p].todo
    BY <1>2, <1>7 DEF TxTrue, SoloRun
  <2>2. r.mail = r.raised
    BY <1>3, <1>5, <2>1
  <2>3. tx[p].todo \subseteq Patterns /\ \A j \in tx[p].todo : tx[p].writes[j] = "no"
    BY <1>2, <1>7 DEF TxTrue, SoloRun, Tx
  <2> QED
    BY <1>4, <1>5, <2>1, <2>2, <2>3 DEF SoloRun, Pc
<1>8. TxTrue(p)'
  BY <1>2, <1>4, <1>5, <1>6, <1>7 DEF Surface, TxTrue, history
<1> QED
  BY <1>2, <1>4, <1>5, <1>8, OwnStep, Now DEF Surface, history

LEMMA DetectFailsStep ==
  ASSUME IInv, NEW p \in Runs, DetectFails(p)
  PROVE  IInv'
<1>1. PICK k \in tx[p].todo :
        /\ Step(p, IF p = "drain" THEN [tx[p] EXCEPT !.todo = @ \ {k}]
                                  ELSE [tx[p] EXCEPT !.pc = "resolve", !.todo = {}])
        /\ missed' = missed \cup {k}
  BY DEF DetectFails
<1>2. tx[p] \in Tx /\ TxTrue(p) /\ Pc(p) = "detect" /\ k \in Patterns
  BY Now DEF DetectFails, Tx
<1>3. missed' \subseteq Patterns /\ faults' \in 0..MaxFaults
  BY <1>1, <1>2, Now, BoundsAssumption DEF DetectFails
<1> DEFINE r == IF p = "drain" THEN [tx[p] EXCEPT !.todo = @ \ {k}]
                               ELSE [tx[p] EXCEPT !.pc = "resolve", !.todo = {}]
<1>4. /\ r \in Tx /\ r.pc \in {"detect", "resolve"} /\ r.todo \subseteq tx[p].todo
      /\ r.pc = "resolve" => r.todo = {}
      /\ r.taken = tx[p].taken /\ r.key = tx[p].key /\ r.seen = tx[p].seen /\ r.gone = tx[p].gone
      /\ r.writes = tx[p].writes /\ r.mail = tx[p].mail /\ r.raised = tx[p].raised
  <2>1. CASE p = "drain"
    BY <1>2, <2>1 DEF Tx, Pc
  <2>2. CASE p # "drain"
    BY <1>2, <2>2 DEF Tx
  <2> QED
    BY <2>1, <2>2
<1>5. Step(p, r) /\ tx'[p] = r
  BY <1>1, Now
<1> HIDE DEF r
<1>6. WritesBacked(p)'
  BY <1>2, <1>4, <1>5 DEF DetectFails, TxTrue, WritesBacked, Backed, Pc
<1>7. ASSUME ~overlapped PROVE SoloRun(p)'
  BY <1>2, <1>4, <1>5, <1>7 DEF DetectFails, TxTrue, SoloRun, Pc
<1>8. TxTrue(p)'
  BY <1>2, <1>4, <1>5, <1>6, <1>7 DEF DetectFails, TxTrue
<1> QED
  BY <1>2, <1>3, <1>4, <1>5, <1>8, OwnStep DEF DetectFails

LEMMA AbortStep ==
  ASSUME IInv, NEW p \in Runs, Rollback(p) \/ Deadlock(p)
  PROVE  IInv'
<1>1. faults' \in 0..MaxFaults
  BY Now, BoundsAssumption DEF Rollback, Deadlock
<1>2. missed' \subseteq Patterns
  BY Now DEF Rollback, Deadlock, Abort, history
<1>3. Step(p, Idle) /\ tx'[p] = Idle
  BY Now DEF Rollback, Deadlock, Abort
<1>4. Idle.taken = 0 /\ Idle.pc = "idle"
  BY DEF Idle
<1> QED
  BY <1>1, <1>2, <1>3, <1>4, IdleTrue, IdleTyped, OwnStep DEF Rollback, Deadlock, Abort, history

(* A commit makes the announcements of the rows it inserts. *)
LEMMA CommitStep ==
  ASSUME IInv, NEW p \in Runs, Commit(p)
  PROVE  IInv'
<1>1. /\ row' = [k \in Patterns |-> View(p, k)] /\ queue' = Marked(p)
      /\ surfacings' = Counted(surfacings, tx[p].raised) /\ notices' = Counted(notices, tx[p].mail)
      /\ Step(p, Idle) /\ faults' = faults /\ missed' = missed /\ overlapped' = overlapped
      /\ holds' = holds /\ changes' = changes /\ Pc(p) # "idle"
  BY DEF Commit, Done, world
<1>2. /\ tx[p] \in Tx /\ TxTrue(p) /\ tx[p].writes \in [Patterns -> Written]
      /\ tx[p].mail \subseteq Patterns /\ tx[p].raised \subseteq Patterns
      /\ row \in [Patterns -> Status] /\ surfacings \in [Patterns -> Nat] /\ notices \in [Patterns -> Nat]
  BY Now DEF Tx, IInv, DataTyped
<1>3. tx' = [tx EXCEPT ![p] = Idle] /\ tx'[p] = Idle /\ tx' \in [Runs -> Tx]
  BY <1>1, Now, IdleTyped DEF Step, IInv
<1>4. tx'[Other(p)] = tx[Other(p)] /\ Other(p) \in Runs /\ Other(p) # p
  BY <1>3, Others DEF IInv
<1>5. \A k \in Patterns : row'[k] \in Status /\ (row[k] # "none" => row'[k] # "none")
  BY <1>1, <1>2 DEF View, Status, Written
<1>6. /\ queue' \in Seq(Patterns) /\ Len(queue) \in Nat /\ Len(queue') = Len(queue) - tx[p].taken
      /\ Len(queue') \in Nat
  <2>1. queue \in Seq(Patterns) /\ Len(queue) \in Nat /\ tx[p].taken \in Nat /\ tx[p].taken <= Len(queue)
    BY <1>2, BoundsAssumption DEF IInv, DataTyped, TakenThere, Tx, Runs
  <2>2. \A i \in tx[p].taken + 1 .. Len(queue) : queue[i] \in Patterns
    BY <2>1
  <2>3. /\ queue' \in Seq(Patterns)
        /\ Len(queue') = IF tx[p].taken + 1 <= Len(queue) THEN Len(queue) - (tx[p].taken + 1) + 1 ELSE 0
    BY <1>1, <2>1, <2>2, SubSeqProperties DEF Marked
  <2> QED
    BY <2>1, <2>3
<1>7. DataTyped'
  <2>1. surfacings' \in [Patterns -> Nat] /\ notices' \in [Patterns -> Nat]
    BY <1>1, <1>2 DEF Counted
  <2>2. row' \in [Patterns -> Status]
    BY <1>1, <1>5
  <2>3. Len(queue') <= changes'
    BY <1>1, <1>2, <1>6, BoundsAssumption DEF IInv, DataTyped, Tx
  <2> QED
    BY <1>1, <1>6, <2>1, <2>2, <2>3 DEF IInv, DataTyped
<1>8. TakenThere'
  <2>1. Idle.taken = 0
    BY DEF Idle
  <2>2. CASE p = "drain"
    <3>1. tx'["sweep"] = tx["sweep"] /\ tx'["drain"].taken = 0
      BY <1>3, <2>1, <2>2 DEF IInv, Runs
    <3> QED
      BY <1>6, <3>1 DEF IInv, TakenThere
  <2>3. CASE p = "sweep"
    <3>1. tx'["drain"] = tx["drain"] /\ tx'["sweep"].taken = 0
      BY <1>3, <2>1, <2>3 DEF IInv, Runs
    <3>2. Len(queue') = Len(queue)
      BY <1>6, <2>3 DEF IInv, TakenThere
    <3> QED
      BY <3>1, <3>2 DEF IInv, TakenThere
  <2> QED
    BY <2>2, <2>3 DEF Runs
<1>9. TxTrue(p)'
  BY <1>3, IdleTrue
<1>10. TxTrue(Other(p))'
  <2>1. overlapped \/ Pc(Other(p)) = "idle"
    BY <1>1 DEF IInv, Alone
  <2> QED
    BY <1>1, <1>4, <1>5, <2>1, OtherStays
<1>11. Alone'
  <2>1. Idle.pc = "idle"
    BY DEF Idle
  <2>2. \A q \in Runs : q = p \/ Other(q) = p
    BY Others DEF Runs
  <2>3. Pc(p)' = "idle" /\ (Pc(Other(p)) = "idle" => Pc(Other(p))' = "idle")
    BY <1>3, <1>4, <2>1 DEF Pc
  <2>4. overlapped \/ Pc(Other(p)) = "idle"
    BY <1>1 DEF IInv, Alone
  <2>5. ASSUME ~overlapped', NEW q \in Runs PROVE Pc(q)' = "idle"
    BY <1>1, <2>3, <2>4, <2>5, Others
  <2>6. ASSUME ~overlapped', NEW q \in Runs PROVE Pc(Other(q))' = "idle"
    <3>1. Other(q) \in Runs
      BY Others
    <3> QED
      BY <2>5, <2>6, <3>1 DEF Other
  <2> QED
    BY <2>6 DEF Alone
<1>12. Announced'
  <2> SUFFICES ASSUME NEW k \in Patterns
               PROVE  /\ row'[k] # "none" => notices'[k] >= 1
                      /\ ~overlapped' => notices'[k] = surfacings'[k]
    BY DEF Announced
  <2>1. /\ notices'[k] = IF k \in tx[p].mail THEN notices[k] + 1 ELSE notices[k]
        /\ surfacings'[k] = IF k \in tx[p].raised THEN surfacings[k] + 1 ELSE surfacings[k]
        /\ notices[k] \in Nat /\ surfacings[k] \in Nat
    BY <1>1, <1>2 DEF Counted
  <2>2. row'[k] # "none" => row[k] # "none" \/ k \in tx[p].mail
    BY <1>1, <1>2 DEF View, TxTrue, WritesBacked, Backed
  <2>3. row[k] # "none" => notices[k] >= 1
    BY DEF IInv, Announced
  <2>4. ~overlapped => notices[k] = surfacings[k] /\ tx[p].mail = tx[p].raised
    BY <1>2 DEF IInv, Announced, TxTrue, SoloRun
  <2> QED
    BY <1>1, <2>1, <2>2, <2>3, <2>4
<1> QED
  BY <1>3, <1>7, <1>8, <1>9, <1>10, <1>11, <1>12, Others DEF IInv

-----------------------------------------------------------------------------
(* Results. *)

LEMMA InitInvariant == Init => IInv
<1> SUFFICES ASSUME Init PROVE IInv
  OBVIOUS
<1>1. \A p \in Runs : tx[p] = Idle
  BY DEF Init
<1>2. DataTyped
  <2>1. queue \in Seq(Patterns) /\ Len(queue) = 0
    BY DEF Init
  <2>2. changes \in 0..MaxChanges /\ faults \in 0..MaxFaults /\ Len(queue) <= changes
    BY <2>1, BoundsAssumption DEF Init
  <2> QED
    BY <2>1, <2>2 DEF Init, DataTyped, Status
<1>3. tx \in [Runs -> Tx]
  BY IdleTyped DEF Init
<1>4. Idle.taken = 0 /\ Idle.pc = "idle"
  BY DEF Idle
<1>5. TakenThere
  BY <1>1, <1>2, <1>4 DEF TakenThere, Runs, DataTyped
<1>6. Alone
  BY <1>1, <1>4 DEF Alone, Pc
<1>7. ASSUME NEW p \in Runs PROVE TxTrue(p)
  <2>1. /\ tx[p].pc = "idle" /\ tx[p].key = {} /\ tx[p].gone = {}
        /\ \A k \in Patterns : tx[p].writes[k] = "no"
        /\ tx[p].mail = {} /\ tx[p].raised = {}
    BY <1>1 DEF Idle, NoWrites
  <2> QED
    BY <2>1 DEF TxTrue, WritesBacked, SoloRun, Pc
<1>8. Announced
  BY DEF Init, Announced
<1> QED
  BY <1>2, <1>3, <1>5, <1>6, <1>7, <1>8 DEF IInv

LEMMA StepInvariant == IInv /\ [Next]_vars => IInv'
<1> SUFFICES ASSUME IInv, [Next]_vars PROVE IInv'
  OBVIOUS
<1>1. ASSUME NEW k \in Patterns, Publish(k) \/ PublishListenerFails(k) PROVE IInv'
  BY <1>1, FlipStep
<1>2. CASE DrainStart \/ SweepStart
  BY <1>2, DrainStartStep, SweepStartStep
<1>3. CASE SweepWork
  BY <1>3, ListStep, RecheckStep, ResolveStep DEF SweepWork
<1>4. ASSUME NEW p \in Runs, Work(p) PROVE IInv'
  BY <1>4, DetectStep, ReadStep, SurfaceStep, CommitStep, AbortStep DEF Work
<1>5. ASSUME NEW p \in Runs, DetectFails(p) \/ Rollback(p) PROVE IInv'
  BY <1>5, DetectFailsStep, AbortStep
<1>6. CASE UNCHANGED vars
  BY <1>6 DEF vars, IInv, DataTyped, TakenThere, Alone, TxTrue, WritesBacked, SoloRun, Backed, Pc, Announced
<1> QED
  BY <1>1, <1>2, <1>3, <1>4, <1>5, <1>6 DEF Next

(* The invariant holds in every state, for all patterns, batches, faults   *)
(* and interleavings of the drain with the sweep.                          *)
THEOREM Invariance == Spec => []IInv
<1>1. IInv /\ [Next]_vars => IInv'
  BY StepInvariant
<1> QED
  BY <1>1, InitInvariant, PTL DEF Spec

(* Rows, queue and the open runs keep their types.                         *)
THEOREM Typed == Spec => []TypeOK
BY Invariance, Types, PTL

(* No insight enters the table unannounced, whichever job inserts, reopens *)
(* or resolves it; unless they overlap, one notice goes out for each       *)
(* surfacing.                                                              *)
THEOREM EachSurfacingAnnounced == Spec => []Announced
<1>1. IInv => Announced
  BY DEF IInv
<1> QED
  BY <1>1, Invariance, PTL

-----------------------------------------------------------------------------
(* The reactive path.  As long as drain and sweep do not overlap, a        *)
(* pattern that holds and whose last change was flagged is surfaced or has *)
(* a candidate that some drain will still check.                           *)

(* A candidate of k that no open drain has taken. *)
Later(k) == \E i \in DOMAIN queue : i > tx["drain"].taken /\ queue[i] = k

(* k needs no further candidate: an open drain has it before it or has     *)
(* surfaced it, and loses its candidate only with that; no sweep resolves  *)
(* it.                                                                     *)
Settled(k) ==
  /\ row[k] = "surfaced" \/ \E i \in DOMAIN queue : queue[i] = k
  /\ k \in tx["drain"].todo \cup tx["drain"].key \/ View("drain", k) = "surfaced"
  /\ k \notin tx["sweep"].gone /\ tx["sweep"].writes[k] # "auto_resolved"

(* An ended run leaves nothing behind, and a run has a pattern in hand only *)
(* between its detection and its write.                                    *)
Tidy == \A p \in Runs : (Pc(p) = "idle" => tx[p] = Idle) /\ (Pc(p) = "detect" => tx[p].key = {})

ReactiveInv ==
  /\ Tidy
  /\ ~overlapped => \A k \in Patterns \ missed : holds[k] => Later(k) \/ Settled(k)

(* A step of one run on its own record.                                    *)
LEMMA OwnReactive ==
  ASSUME IInv, ReactiveInv, NEW p \in Runs, NEW r \in Tx, Step(p, r), Pc(p) # "idle", r.pc # "idle",
         row' = row, queue' = queue, holds' = holds, missed \subseteq missed', overlapped' = overlapped,
         r.taken = tx[p].taken, r.pc = "detect" => r.key = {},
         p = "drain" => \A k \in Patterns \ missed' :
           ~overlapped /\ holds[k] /\ (k \in tx[p].todo \cup tx[p].key \/ View(p, k) = "surfaced") =>
             k \in r.todo \cup r.key \/ (IF r.writes[k] \in {"no", "count"} THEN row[k] ELSE r.writes[k]) = "surfaced",
         p = "sweep" => \A k \in Patterns \ missed' :
           ~overlapped /\ holds[k] /\ k \notin tx[p].gone /\ tx[p].writes[k] # "auto_resolved" =>
             k \notin r.gone /\ r.writes[k] # "auto_resolved"
  PROVE  ReactiveInv'
<1>1. tx'[p] = r /\ tx'[Other(p)] = tx[Other(p)]
  BY Others DEF Step, IInv
<1>2. Tidy'
  BY <1>1, Others DEF ReactiveInv, Tidy, Pc
<1>3. ASSUME ~overlapped', NEW k \in Patterns \ missed', holds'[k]
      PROVE  Later(k)' \/ Settled(k)'
  <2>1. Later(k) \/ Settled(k)
    BY <1>3 DEF ReactiveInv
  <2>2. tx'["drain"].taken = tx["drain"].taken
    BY <1>1, Others DEF Runs
  <2>3. Later(k) => Later(k)'
    BY <2>2 DEF Later
  <2>4. ASSUME Settled(k) PROVE Settled(k)'
    <3>1. CASE p = "drain"
      <4>1. Other(p) = "sweep"
        BY <3>1, Others DEF Runs
      <4> QED
        BY <1>1, <1>3, <2>4, <3>1, <4>1 DEF Settled, View
    <3>2. CASE p = "sweep"
      <4>1. Other(p) = "drain"
        BY <3>2, Others DEF Runs
      <4> QED
        BY <1>1, <1>3, <2>4, <3>2, <4>1 DEF Settled, View
    <3> QED
      BY <3>1, <3>2 DEF Runs
  <2> QED
    BY <2>1, <2>3, <2>4
<1> QED
  BY <1>2, <1>3 DEF ReactiveInv

LEMMA DetectReactive ==
  ASSUME IInv, ReactiveInv, NEW p \in Runs, Detect(p)
  PROVE  ReactiveInv'
<1>1. PICK k \in tx[p].todo :
        Step(p, IF holds[k] THEN [tx[p] EXCEPT !.pc = "read", !.todo = @ \ {k}, !.key = {k}]
                            ELSE [tx[p] EXCEPT !.todo = @ \ {k}])
  BY DEF Detect
<1>2. tx[p] \in Tx /\ Pc(p) = "detect" /\ tx[p].key = {} /\ k \in Patterns
  BY Now DEF Detect, Tx, ReactiveInv, Tidy
<1> DEFINE r == IF holds[k] THEN [tx[p] EXCEPT !.pc = "read", !.todo = @ \ {k}, !.key = {k}]
                            ELSE [tx[p] EXCEPT !.todo = @ \ {k}]
<1>3. /\ r \in Tx /\ r.todo = tx[p].todo \ {k} /\ r.taken = tx[p].taken
      /\ r.gone = tx[p].gone /\ r.writes = tx[p].writes
      /\ IF holds[k] THEN r.pc = "read" /\ r.key = {k} ELSE r.pc = "detect" /\ r.key = {}
  <2>1. CASE holds[k]
    BY <1>2, <2>1 DEF Tx
  <2>2. CASE ~holds[k]
    BY <1>2, <2>2 DEF Tx, Pc
  <2> QED
    BY <2>1, <2>2
<1>4. Step(p, r)
  BY <1>1
<1> HIDE DEF r
<1>5. /\ row' = row /\ queue' = queue /\ holds' = holds /\ missed' = missed /\ overlapped' = overlapped
  BY DEF Detect, world, history
<1> QED
  BY <1>2, <1>3, <1>4, <1>5, OwnReactive DEF View

LEMMA ReadReactive ==
  ASSUME IInv, ReactiveInv, NEW p \in Runs, ReadRow(p)
  PROVE  ReactiveInv'
<1>1. PICK k \in tx[p].key : Step(p, [tx[p] EXCEPT !.pc = "apply", !.seen = View(p, k)])
  BY DEF ReadRow
<1>2. /\ tx[p] \in Tx /\ Pc(p) = "read" /\ k \in Patterns
      /\ row \in [Patterns -> Status] /\ tx[p].writes \in [Patterns -> Written]
  BY Now DEF ReadRow, Tx, IInv, DataTyped
<1>3. View(p, k) \in Status
  BY <1>2 DEF View, Status, Written
<1> DEFINE r == [tx[p] EXCEPT !.pc = "apply", !.seen = View(p, k)]
<1>4. /\ r \in Tx /\ r.pc = "apply" /\ r.todo = tx[p].todo /\ r.taken = tx[p].taken
      /\ r.key = tx[p].key /\ r.gone = tx[p].gone /\ r.writes = tx[p].writes
  BY <1>2, <1>3 DEF Tx
<1>5. Step(p, r)
  BY <1>1
<1> HIDE DEF r
<1>6. /\ row' = row /\ queue' = queue /\ holds' = holds /\ missed' = missed /\ overlapped' = overlapped
  BY DEF ReadRow, world, history
<1> QED
  BY <1>2, <1>4, <1>5, <1>6, OwnReactive DEF View

(* What a run that is alone writes surfaces the pattern or repeats that it *)
(* is. *)
LEMMA SurfacedShows ==
  ASSUME NEW p \in Runs, NEW k, row[k] \in Status, tx[p].seen = row[k]
  PROVE  \/ Surfaced(p, k).write = "surfaced"
         \/ Surfaced(p, k).write = "count" /\ row[k] = "surfaced"
<1>1. CASE row[k] = "surfaced"
  BY <1>1 DEF Surfaced
<1>2. CASE row[k] = "auto_resolved"
  BY <1>2 DEF Surfaced
<1>3. CASE row[k] = "none"
  BY <1>3 DEF Surfaced
<1> QED
  BY <1>1, <1>2, <1>3 DEF Status

LEMMA SurfaceReactive ==
  ASSUME IInv, ReactiveInv, NEW p \in Runs, Surface(p)
  PROVE  ReactiveInv'
<1>1. PICK k \in tx[p].key :
        Step(p, [tx[p] EXCEPT !.pc = "detect", !.key = {}, !.seen = "none",
                   !.writes[k] = Surfaced(p, k).write, !.mail = @ \cup Surfaced(p, k).mail,
                   !.raised = IF Surfaced(p, k).write = "surfaced" /\ row[k] # "surfaced"
                              THEN @ \cup {k} ELSE @])
  BY DEF Surface
<1>2. /\ tx[p] \in Tx /\ TxTrue(p) /\ Pc(p) = "apply" /\ k \in Patterns /\ tx[p].key \subseteq {k}
      /\ row \in [Patterns -> Status] /\ tx[p].writes \in [Patterns -> Written]
  BY Now DEF Surface, Tx, TxTrue, IInv, DataTyped
<1> DEFINE write == Surfaced(p, k).write
           mail == Surfaced(p, k).mail
           raises == write = "surfaced" /\ row[k] # "surfaced"
           r == [tx[p] EXCEPT !.pc = "detect", !.key = {}, !.seen = "none",
                   !.writes[k] = write, !.mail = @ \cup mail,
                   !.raised = IF raises THEN @ \cup {k} ELSE @]
<1>3. write \in {"count", "surfaced"} /\ mail \subseteq {k}
  <2>1. row[k] \in Status /\ tx[p].seen \in Status
    BY <1>2 DEF Tx
  <2>2. tx[p].seen # "none" => Backed(p, k)
    BY <1>2 DEF TxTrue, WritesBacked
  <2> QED
    BY <2>1, <2>2, SurfacedIs
<1>4. ~overlapped => write = "surfaced" \/ (write = "count" /\ row[k] = "surfaced")
  BY <1>2, SurfacedShows DEF TxTrue, SoloRun
<1>5. Step(p, r)
  BY <1>1
<1> HIDE DEF write, mail, raises
<1>6. /\ r \in Tx /\ r.pc = "detect" /\ r.todo = tx[p].todo /\ r.taken = tx[p].taken
      /\ r.key = {} /\ r.gone = tx[p].gone /\ r.writes[k] = write
      /\ \A j \in Patterns \ {k} : r.writes[j] = tx[p].writes[j]
  BY <1>2, <1>3 DEF Tx, Written, Status
<1> HIDE DEF r
<1>7. /\ row' = row /\ queue' = queue /\ holds' = holds /\ missed' = missed /\ overlapped' = overlapped
  BY DEF Surface, world, history
<1>8. ASSUME ~overlapped, NEW j \in Patterns, j \in tx[p].todo \cup tx[p].key \/ View(p, j) = "surfaced"
      PROVE  j \in r.todo \cup r.key \/ (IF r.writes[j] \in {"no", "count"} THEN row[j] ELSE r.writes[j]) = "surfaced"
  <2>1. CASE j = k
    BY <1>4, <1>6, <1>8, <2>1
  <2>2. CASE j # k
    BY <1>2, <1>6, <1>8, <2>2 DEF View
  <2> QED
    BY <2>1, <2>2
<1>9. ASSUME NEW j \in Patterns, j \notin tx[p].gone, tx[p].writes[j] # "auto_resolved"
      PROVE  j \notin r.gone /\ r.writes[j] # "auto_resolved"
  BY <1>3, <1>6, <1>9
<1> QED
  BY <1>2, <1>5, <1>6, <1>7, <1>8, <1>9, OwnReactive

LEMMA ListReactive ==
  ASSUME IInv, ReactiveInv, ListSurfaced
  PROVE  ReactiveInv'
<1> DEFINE p == "sweep"
           found == {k \in Patterns : View(p, k) = "surfaced"}
           r == [tx[p] EXCEPT !.pc = "resolve", !.todo = found]
<1>1. p \in Runs /\ Step(p, r) /\ Pc(p) = "detect"
  BY DEF ListSurfaced, Runs
<1>2. tx[p] \in Tx
  BY <1>1, Now
<1>3. /\ r \in Tx /\ r.pc = "resolve" /\ r.taken = tx[p].taken
      /\ r.gone = tx[p].gone /\ r.writes = tx[p].writes
  BY <1>2 DEF Tx
<1> HIDE DEF r, found
<1>4. /\ row' = row /\ queue' = queue /\ holds' = holds /\ missed' = missed /\ overlapped' = overlapped
  BY DEF ListSurfaced, world, history
<1> QED
  BY <1>1, <1>3, <1>4, OwnReactive

(* A pattern that no longer held at its recheck does not hold now, or it   *)
(* was flagged when it changed back.                                       *)
LEMMA RecheckReactive ==
  ASSUME IInv, ReactiveInv, Recheck
  PROVE  ReactiveInv'
<1> DEFINE p == "sweep"
<1>1. PICK k \in tx[p].todo :
        Step(p, [tx[p] EXCEPT !.todo = @ \ {k}, !.gone = IF holds[k] THEN @ ELSE @ \cup {k}])
  BY DEF Recheck
<1>2. tx[p] \in Tx /\ Pc(p) = "resolve" /\ p \in Runs
  BY Now DEF Recheck, Runs
<1> DEFINE r == [tx[p] EXCEPT !.todo = @ \ {k}, !.gone = IF holds[k] THEN @ ELSE @ \cup {k}]
<1>3. /\ r \in Tx /\ r.pc = "resolve" /\ r.taken = tx[p].taken
      /\ r.gone = (IF holds[k] THEN tx[p].gone ELSE tx[p].gone \cup {k}) /\ r.writes = tx[p].writes
  BY <1>2 DEF Tx, Pc
<1>4. Step(p, r)
  BY <1>1
<1> HIDE DEF r
<1>5. /\ row' = row /\ queue' = queue /\ holds' = holds /\ missed' = missed /\ overlapped' = overlapped
  BY DEF Recheck, world, history
<1> QED
  BY <1>2, <1>3, <1>4, <1>5, OwnReactive

LEMMA ResolveReactive ==
  ASSUME IInv, ReactiveInv, Resolve
  PROVE  ReactiveInv'
<1> DEFINE p == "sweep"
<1>1. PICK k \in tx[p].gone :
        Step(p, [tx[p] EXCEPT !.gone = @ \ {k}, !.writes[k] = "auto_resolved"])
  BY DEF Resolve
<1>2. tx[p] \in Tx /\ Pc(p) = "resolve" /\ p \in Runs /\ tx[p].writes \in [Patterns -> Written]
  BY Now DEF Resolve, Runs, Tx
<1> DEFINE r == [tx[p] EXCEPT !.gone = @ \ {k}, !.writes[k] = "auto_resolved"]
<1>3. /\ r \in Tx /\ r.pc = "resolve" /\ r.taken = tx[p].taken /\ r.gone = tx[p].gone \ {k}
      /\ \A j \in Patterns \ {k} : r.writes[j] = tx[p].writes[j]
  BY <1>2 DEF Tx, Written, Pc
<1>4. Step(p, r)
  BY <1>1
<1> HIDE DEF r
<1>5. /\ row' = row /\ queue' = queue /\ holds' = holds /\ missed' = missed /\ overlapped' = overlapped
  BY DEF Resolve, world, history
<1>6. ASSUME NEW j \in Patterns, j \notin tx[p].gone, tx[p].writes[j] # "auto_resolved"
      PROVE  j \notin r.gone /\ r.writes[j] # "auto_resolved"
  BY <1>1, <1>3, <1>6
<1> QED
  BY <1>2, <1>3, <1>4, <1>5, <1>6, OwnReactive

LEMMA DetectFailsReactive ==
  ASSUME IInv, ReactiveInv, NEW p \in Runs, DetectFails(p)
  PROVE  ReactiveInv'
<1>1. PICK k \in tx[p].todo :
        /\ Step(p, IF p = "drain" THEN [tx[p] EXCEPT !.todo = @ \ {k}]
                                  ELSE [tx[p] EXCEPT !.pc = "resolve", !.todo = {}])
        /\ missed' = missed \cup {k}
  BY DEF DetectFails
<1>2. tx[p] \in Tx /\ Pc(p) = "detect" /\ tx[p].key = {}
  BY Now DEF DetectFails, ReactiveInv, Tidy
<1> DEFINE r == IF p = "drain" THEN [tx[p] EXCEPT !.todo = @ \ {k}]
                               ELSE [tx[p] EXCEPT !.pc = "resolve", !.todo = {}]
<1>3. /\ r \in Tx /\ r.pc \in {"detect", "resolve"} /\ r.key = {} /\ r.taken = tx[p].taken
      /\ r.gone = tx[p].gone /\ r.writes = tx[p].writes
      /\ p = "drain" => r.todo = tx[p].todo \ {k}
  <2>1. CASE p = "drain"
    BY <1>2, <2>1 DEF Tx, Pc
  <2>2. CASE p # "drain"
    BY <1>2, <2>2 DEF Tx
  <2> QED
    BY <2>1, <2>2
<1>4. Step(p, r)
  BY <1>1
<1> HIDE DEF r
<1>5. /\ row' = row /\ queue' = queue /\ holds' = holds /\ overlapped' = overlapped
  BY DEF DetectFails, world
<1> QED
  BY <1>1, <1>2, <1>3, <1>4, <1>5, OwnReactive DEF View

-----------------------------------------------------------------------------
(* The data, and the start and end of a run. *)

(* A change adds a candidate behind those that were taken. *)
LEMMA FlipReactive ==
  ASSUME IInv, ReactiveInv, NEW k \in Patterns, Publish(k) \/ PublishListenerFails(k)
  PROVE  ReactiveInv'
<1>1. /\ tx' = tx /\ row' = row /\ overlapped' = overlapped /\ holds' = [holds EXCEPT ![k] = ~@]
      /\ \/ queue' = Append(queue, k) /\ missed' = missed
         \/ queue' = queue /\ missed' = missed \cup {k}
  BY DEF Publish, PublishListenerFails, Flip, history
<1>2. /\ queue \in Seq(Patterns) /\ Len(queue) \in Nat /\ DOMAIN queue = 1..Len(queue)
      /\ tx["drain"].taken \in Nat /\ tx["drain"].taken <= Len(queue)
  BY BoundsAssumption DEF IInv, DataTyped, TakenThere, Tx, Runs
<1>3. \A i \in DOMAIN queue : i \in DOMAIN queue' /\ queue'[i] = queue[i]
  <2>1. CASE queue' = queue
    BY <2>1
  <2>2. CASE queue' = Append(queue, k)
    <3>1. DOMAIN queue' = 1..Len(queue) + 1 /\ \A i \in 1..Len(queue) : queue'[i] = queue[i]
      BY <1>2, <2>2, AppendProperties
    <3> QED
      BY <1>2, <3>1
  <2> QED
    BY <1>1, <2>1, <2>2
<1>4. queue' = Append(queue, k) => Later(k)'
  <2> SUFFICES ASSUME queue' = Append(queue, k) PROVE Later(k)'
    OBVIOUS
  <2>1. Len(queue) + 1 \in DOMAIN queue' /\ queue'[Len(queue) + 1] = k
    BY <1>2, AppendProperties
  <2> DEFINE n == tx["drain"].taken
             m == Len(queue)
  <2>2. n \in Nat /\ m \in Nat /\ n <= m /\ tx'["drain"].taken = n /\ Len(queue) = m
    BY <1>1, <1>2
  <2> HIDE DEF n, m
  <2>3. Len(queue) + 1 > tx'["drain"].taken
    BY <2>2
  <2> QED
    BY <2>1, <2>3 DEF Later
<1>5. ASSUME ~overlapped', NEW j \in Patterns \ missed', holds'[j], j # k
      PROVE  Later(j)' \/ Settled(j)'
  <2>1. Later(j) \/ Settled(j)
    BY <1>1, <1>5 DEF ReactiveInv, IInv, DataTyped
  <2>2. Later(j) => Later(j)'
    BY <1>1, <1>3 DEF Later
  <2>3. Settled(j) => Settled(j)'
    BY <1>1, <1>3 DEF Settled, View
  <2> QED
    BY <2>1, <2>2, <2>3
<1>6. Tidy'
  BY <1>1 DEF ReactiveInv, Tidy, Pc
<1> QED
  BY <1>1, <1>4, <1>5, <1>6 DEF ReactiveInv

LEMMA DrainStartReactive ==
  ASSUME IInv, ReactiveInv, DrainStart
  PROVE  ReactiveInv'
<1> DEFINE n == IF Len(queue) < Batch THEN Len(queue) ELSE Batch
           todo == ToSet(SubSeq(queue, 1, n))
           r == Begun(todo, n)
<1>1. queue \in Seq(Patterns) /\ Len(queue) \in Nat /\ DOMAIN queue = 1..Len(queue)
  BY DEF IInv, DataTyped
<1>2. n \in 0..Batch /\ n <= Len(queue) /\ n \in 0..Len(queue)
  BY <1>1, BoundsAssumption
<1>3. \A i \in 1..n : i \in DOMAIN queue /\ queue[i] \in todo
  <2> HIDE DEF n
  <2>0. \A i \in 1..n : queue[i] \in Patterns
    BY <1>1, <1>2
  <2>1. Len(SubSeq(queue, 1, n)) = n /\ \A i \in 1..n : SubSeq(queue, 1, n)[i] = queue[i] /\ i \in DOMAIN SubSeq(queue, 1, n)
    BY <1>1, <1>2, <2>0, SubSeqProperties
  <2>2. ASSUME NEW i \in 1..n PROVE i \in DOMAIN queue /\ queue[i] \in todo
    <3>1. i \in 1..Len(queue)
      BY <1>1, <1>2
    <3>2. \E j \in DOMAIN SubSeq(queue, 1, n) : queue[i] = SubSeq(queue, 1, n)[j]
      BY <2>1
    <3>3. queue[i] \in todo
      BY <3>2 DEF ToSet
    <3> QED
      BY <1>1, <3>1, <3>3
  <2> QED
    BY <2>2
<1>4. todo \in SUBSET Patterns
  BY <1>1, <1>2, SubSeqProperties DEF ToSet
<1>5. Start("drain", todo, n)
  BY DEF DrainStart
<1> HIDE DEF n, todo
<1>6. r \in Tx /\ r.pc = "detect" /\ r.todo = todo /\ r.taken = n /\ r.key = {} /\ r.writes = NoWrites
  BY <1>2, <1>4, Started
<1>7. /\ tx'["drain"] = r /\ tx'["sweep"] = tx["sweep"] /\ tx["drain"] = Idle
      /\ ~overlapped' => ~overlapped /\ tx["sweep"] = Idle
      /\ row' = row /\ queue' = queue /\ holds' = holds /\ missed' = missed
  <2>1. tx' = [tx EXCEPT !["drain"] = r]
    BY <1>5 DEF Start, Step, Begun
  <2>2. tx'["drain"] = r /\ tx'["sweep"] = tx["sweep"] /\ "drain" \in Runs /\ "sweep" \in Runs
    BY <2>1 DEF IInv, Runs
  <2>3. Other("drain") = "sweep"
    BY Others DEF Runs
  <2> QED
    BY <1>5, <2>2, <2>3 DEF Start, ReactiveInv, Tidy, world
<1> HIDE DEF r
<1>8. Tidy'
  BY <1>6, <1>7 DEF ReactiveInv, Tidy, Pc, Runs
<1>9. ASSUME ~overlapped', NEW k \in Patterns \ missed', holds'[k]
      PROVE  Later(k)' \/ Settled(k)'
  <2>1. Later(k) \/ Settled(k)
    BY <1>7, <1>9 DEF ReactiveInv
  <2>2. /\ tx'["sweep"].gone = {} /\ tx'["sweep"].writes[k] = "no" /\ tx'["drain"].writes[k] = "no"
        /\ tx["drain"].todo = {} /\ tx["drain"].key = {} /\ tx["drain"].writes[k] = "no"
    BY <1>6, <1>7, <1>9 DEF Idle, NoWrites
  <2>3. CASE row[k] = "surfaced"
    BY <1>7, <2>2, <2>3 DEF Settled, View
  <2>4. CASE row[k] # "surfaced"
    <3>1. Later(k)
      BY <2>1, <2>2, <2>4 DEF Settled, View
    <3>2. PICK i \in DOMAIN queue : queue[i] = k
      BY <3>1 DEF Later
    <3>3. CASE i > n
      BY <1>6, <1>7, <3>2, <3>3 DEF Later
    <3>4. CASE ~(i > n)
      <4>1. i \in 1..n
        BY <1>1, <1>2, <3>4
      <4>2. k \in todo
        BY <1>3, <3>2, <4>1
      <4> QED
        BY <1>6, <1>7, <2>2, <3>2, <4>2 DEF Settled
    <3> QED
      BY <3>3, <3>4
  <2> QED
    BY <2>3, <2>4
<1> QED
  BY <1>8, <1>9 DEF ReactiveInv

LEMMA SweepStartReactive ==
  ASSUME IInv, ReactiveInv, SweepStart
  PROVE  ReactiveInv'
<1> DEFINE r == Begun(Patterns, 0)
<1>1. r.pc = "detect" /\ r.key = {} /\ r.gone = {} /\ r.writes = NoWrites
  BY BoundsAssumption, Started
<1>2. /\ tx'["sweep"] = r /\ tx'["drain"] = tx["drain"] /\ (overlapped => overlapped')
      /\ row' = row /\ queue' = queue /\ holds' = holds /\ missed' = missed
  <2>1. tx' = [tx EXCEPT !["sweep"] = r]
    BY DEF SweepStart, Start, Step, Begun
  <2>2. tx'["sweep"] = r /\ tx'["drain"] = tx["drain"]
    BY <2>1 DEF IInv, Runs
  <2> QED
    BY <2>2 DEF SweepStart, Start, world
<1> HIDE DEF r
<1>3. Tidy'
  BY <1>1, <1>2 DEF ReactiveInv, Tidy, Pc, Runs
<1>4. ASSUME ~overlapped', NEW k \in Patterns \ missed', holds'[k]
      PROVE  Later(k)' \/ Settled(k)'
  BY <1>1, <1>2, <1>4 DEF ReactiveInv, Later, Settled, View, NoWrites
<1> QED
  BY <1>3, <1>4 DEF ReactiveInv

(* A run that is rolled back keeps its candidates. *)
LEMMA AbortReactive ==
  ASSUME IInv, ReactiveInv, NEW p \in Runs, Rollback(p) \/ Deadlock(p)
  PROVE  ReactiveInv'
<1>1. /\ tx'[p] = Idle /\ tx'[Other(p)] = tx[Other(p)]
      /\ row' = row /\ queue' = queue /\ holds' = holds /\ missed' = missed /\ overlapped' = overlapped
  BY Others DEF Rollback, Deadlock, Abort, Step, world, history, IInv
<1>2. Idle.taken = 0 /\ Idle.gone = {} /\ Idle.writes = NoWrites /\ Idle.todo = {} /\ Idle.key = {} /\ Idle.pc = "idle"
  BY DEF Idle
<1>3. Tidy'
  BY <1>1, <1>2, Others DEF ReactiveInv, Tidy, Pc
<1>4. ASSUME ~overlapped', NEW k \in Patterns \ missed', holds'[k]
      PROVE  Later(k)' \/ Settled(k)'
  <2>1. Later(k) \/ Settled(k)
    BY <1>1, <1>4 DEF ReactiveInv
  <2>2. CASE p = "drain"
    <3>1. tx'["drain"] = Idle /\ tx'["sweep"] = tx["sweep"]
      BY <1>1, <2>2, Others DEF Runs
    <3>2. \A i \in DOMAIN queue : i > 0
      BY DEF IInv, DataTyped
    <3>3. CASE \E i \in DOMAIN queue : queue[i] = k
      BY <1>1, <1>2, <3>1, <3>2, <3>3 DEF Later
    <3>4. CASE ~\E i \in DOMAIN queue : queue[i] = k
      <4>1. Settled(k) /\ row[k] = "surfaced"
        BY <2>1, <3>4 DEF Later, Settled
      <4>2. tx'["drain"].writes[k] = "no"
        BY <1>2, <1>4, <3>1 DEF NoWrites
      <4> QED
        BY <1>1, <3>1, <4>1, <4>2 DEF Settled, View
    <3> QED
      BY <3>3, <3>4
  <2>3. CASE p = "sweep"
    <3>1. tx'["sweep"] = Idle /\ tx'["drain"] = tx["drain"]
      BY <1>1, <2>3, Others DEF Runs
    <3>2. tx'["sweep"].gone = {} /\ tx'["sweep"].writes[k] = "no"
      BY <1>2, <1>4, <3>1 DEF NoWrites
    <3> QED
      BY <1>1, <2>1, <3>1, <3>2 DEF Later, Settled, View
  <2> QED
    BY <2>2, <2>3 DEF Runs
<1> QED
  BY <1>3, <1>4 DEF ReactiveInv

(* A drain that commits has surfaced what it had taken and what still      *)
(* holds; a sweep that is alone leaves surfaced what is not its to resolve. *)
LEMMA CommitReactive ==
  ASSUME IInv, ReactiveInv, NEW p \in Runs, Commit(p)
  PROVE  ReactiveInv'
<1>1. /\ row' = [k \in Patterns |-> View(p, k)] /\ queue' = Marked(p)
      /\ missed' = missed /\ overlapped' = overlapped /\ holds' = holds
      /\ tx'[p] = Idle /\ tx'[Other(p)] = tx[Other(p)]
  BY Others DEF Commit, Step, IInv, world
<1>2. Idle.taken = 0 /\ Idle.gone = {} /\ Idle.writes = NoWrites /\ Idle.todo = {} /\ Idle.key = {} /\ Idle.pc = "idle"
  BY DEF Idle
<1>3. Tidy'
  BY <1>1, <1>2, Others DEF ReactiveInv, Tidy, Pc
<1>4. /\ queue \in Seq(Patterns) /\ Len(queue) \in Nat /\ DOMAIN queue = 1..Len(queue)
      /\ tx[p].taken \in Nat /\ tx[p].taken <= Len(queue) /\ tx["sweep"].taken = 0
  BY BoundsAssumption DEF IInv, DataTyped, TakenThere, Tx, Runs
<1> DEFINE n == tx[p].taken
<1>5. ASSUME NEW i \in DOMAIN queue, i > n
      PROVE  i - n \in DOMAIN queue' /\ queue'[i - n] = queue[i] /\ i - n > 0
  <2> HIDE DEF n
  <2>0. n \in Nat /\ n <= Len(queue) /\ queue' = SubSeq(queue, n + 1, Len(queue))
    BY <1>1, <1>4 DEF Marked, n
  <2>1. n + 1 <= Len(queue) /\ n + 1 \in Int /\ Len(queue) \in Int
    BY <1>4, <1>5, <2>0
  <2>2. \A j \in n + 1 .. Len(queue) : queue[j] \in Patterns
    BY <1>4, <2>0
  <2>3. /\ Len(queue') = Len(queue) - n /\ queue' \in Seq(Patterns)
        /\ \A j \in 1..Len(queue) - n : queue'[j] = queue[n + 1 + j - 1]
    BY <1>4, <2>0, <2>1, <2>2, SubSeqProperties
  <2>4. i - n \in 1..Len(queue) - n /\ n + 1 + (i - n) - 1 = i
    BY <1>4, <1>5, <2>0
  <2> QED
    BY <2>3, <2>4
<1>6. ASSUME ~overlapped', NEW k \in Patterns \ missed', holds'[k]
      PROVE  Later(k)' \/ Settled(k)'
  <2>1. Later(k) \/ Settled(k)
    BY <1>1, <1>6 DEF ReactiveInv
  <2>2. CASE p = "drain"
    <3>1. tx'["drain"] = Idle /\ tx'["sweep"] = tx["sweep"]
      BY <1>1, <2>2, Others DEF Runs
    <3>2. CASE Later(k)
      BY <1>2, <1>5, <2>2, <3>1, <3>2 DEF Later
    <3>3. CASE Settled(k)
      <4>1. tx[p].todo = {} /\ tx[p].key = {}
        BY <2>2 DEF Commit, Done, ReactiveInv, Tidy
      <4>2. View(p, k) = "surfaced"
        BY <2>2, <3>3, <4>1 DEF Settled
      <4>3. row'[k] = "surfaced" /\ tx'["drain"].writes[k] = "no"
        BY <1>1, <1>2, <1>6, <3>1, <4>2 DEF NoWrites
      <4> QED
        BY <3>1, <3>3, <4>3 DEF Settled, View
    <3> QED
      BY <2>1, <3>2, <3>3
  <2>3. CASE p = "sweep"
    <3>1. tx'["sweep"] = Idle /\ tx'["drain"] = tx["drain"] /\ Other(p) = "drain"
      BY <1>1, <2>3, Others DEF Runs
    <3>2. tx["drain"] = Idle
      <4>1. Pc(p) # "idle" /\ p \in Runs
        BY DEF Commit, Done
      <4>2. Pc("drain") = "idle" /\ "drain" \in Runs
        BY <1>1, <1>6, <3>1, <4>1 DEF IInv, Alone, Runs
      <4> QED
        BY <4>2 DEF ReactiveInv, Tidy
    <3>3. CASE Later(k)
      <4>1. PICK i \in DOMAIN queue : queue[i] = k /\ i > n
        BY <1>2, <1>4, <2>3, <3>2, <3>3 DEF Later
      <4>2. i - n \in DOMAIN queue' /\ queue'[i - n] = k /\ i - n > tx'["drain"].taken
        BY <1>2, <1>5, <3>1, <3>2, <4>1
      <4> QED
        BY <4>2 DEF Later
    <3>4. CASE Settled(k)
      <4>1. row[k] = "surfaced" /\ tx[p].writes[k] # "auto_resolved"
        BY <1>2, <1>6, <2>3, <3>2, <3>4 DEF Settled, View, NoWrites
      <4>2. tx[p].writes[k] \in Written
        BY <1>6, Now DEF Tx
      <4>3. row'[k] = "surfaced"
        BY <1>1, <1>6, <4>1, <4>2 DEF View, Written
      <4>4. tx'["drain"].writes[k] = "no" /\ tx'["sweep"].writes[k] = "no" /\ tx'["sweep"].gone = {}
        BY <1>2, <1>6, <3>1, <3>2 DEF NoWrites
      <4> QED
        BY <4>3, <4>4 DEF Settled, View
    <3> QED
      BY <2>1, <3>3, <3>4
  <2> QED
    BY <2>2, <2>3 DEF Runs
<1> QED
  BY <1>3, <1>6 DEF ReactiveInv

-----------------------------------------------------------------------------
LEMMA ReactiveInit == Init => ReactiveInv
BY DEF Init, ReactiveInv, Tidy, Idle, Pc

LEMMA ReactiveStep ==
  ASSUME IInv, ReactiveInv, [Next]_vars
  PROVE  ReactiveInv'
<1>1. ASSUME NEW k \in Patterns, Publish(k) \/ PublishListenerFails(k) PROVE ReactiveInv'
  BY <1>1, FlipReactive
<1>2. CASE DrainStart \/ SweepStart
  BY <1>2, DrainStartReactive, SweepStartReactive
<1>3. CASE SweepWork
  BY <1>3, ListReactive, RecheckReactive, ResolveReactive DEF SweepWork
<1>4. ASSUME NEW p \in Runs, Work(p) PROVE ReactiveInv'
  BY <1>4, DetectReactive, ReadReactive, SurfaceReactive, CommitReactive, AbortReactive DEF Work
<1>5. ASSUME NEW p \in Runs, DetectFails(p) \/ Rollback(p) PROVE ReactiveInv'
  BY <1>5, DetectFailsReactive, AbortReactive
<1>6. CASE UNCHANGED vars
  BY <1>6 DEF vars, ReactiveInv, Tidy, Later, Settled, View, Pc
<1> QED
  BY <1>1, <1>2, <1>3, <1>4, <1>5, <1>6 DEF Next

(* Once the candidates are processed, and as long as no sweep overlapped a *)
(* drain, every pattern that holds and whose changes were flagged and      *)
(* checked is surfaced, for all patterns, batches, faults and orders of    *)
(* events, drains and sweeps.                                              *)
THEOREM ReactivePathComplete == Spec => []ReactiveComplete
<1>1. Init => IInv /\ ReactiveInv
  BY InitInvariant, ReactiveInit
<1>2. IInv /\ ReactiveInv /\ [Next]_vars => IInv' /\ ReactiveInv'
  BY StepInvariant, ReactiveStep
<1>3. ReactiveInv => ReactiveComplete
  <2> SUFFICES ASSUME ReactiveInv, queue = <<>>, \A p \in Runs : Pc(p) = "idle",
                      NEW k \in Patterns, holds[k], k \notin missed, ~overlapped
               PROVE  row[k] = "surfaced"
    BY DEF ReactiveComplete
  <2>1. Settled(k)
    BY DEF ReactiveInv, Later
  <2> QED
    BY <2>1 DEF Settled
<1> QED
  BY <1>1, <1>2, <1>3, PTL DEF Spec
===============================================================================
