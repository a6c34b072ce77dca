---------------------------- MODULE CompoundInsight ----------------------------
(***************************************************************************)
(* Compound insights and the event bus that feeds them.  A change of the   *)
(* data publishes an event in its own transaction; a listener of the bus   *)
(* flags the touched pattern as a candidate.  A reactive drain checks the  *)
(* candidates every few minutes, a nightly sweep checks every pattern and  *)
(* resolves insights that no longer hold.  Both write compound_insights,   *)
(* one row per pattern (the dedup key), each in one transaction that may   *)
(* be open for long, since it waits for a narrative from an AI provider    *)
(* after every surfaced insight.                                           *)
(*                                                                         *)
(* Transactions are READ COMMITTED and keep the row locks of their writes  *)
(* until they end: evaluating the pattern, reading its row and writing it  *)
(* are separate steps.                                                     *)
(***************************************************************************)
EXTENDS Integers, Sequences, SequencesExt, FiniteSets

CONSTANTS
  Patterns,     \* bound patterns: one dedup key each
  Batch,        \* _DRAIN_BATCH
  MaxChanges,   \* bound: changes of the data
  MaxFaults     \* bound: failing listeners, failing detections, rollbacks

ASSUME BoundsAssumption == Batch \in Nat \ {0} /\ MaxChanges \in Nat /\ MaxFaults \in Nat

VARIABLES
  holds,        \* holds[k]: the data fulfils pattern k now
  row,          \* row[k]: compound_insights row of k
  queue,        \* candidates with processed_at NULL, oldest first
  tx,           \* tx["drain"], tx["sweep"]
  changes, faults,
  missed,       \* patterns that changed unflagged or whose check failed
  overlapped,   \* a drain and a sweep were open at the same time
  surfacings,   \* surfacings[k]: committed writes that surfaced k
  notices       \* notices[k]: notifications queued for k

vars == <<holds, row, queue, tx, changes, faults, missed, overlapped, surfacings, notices>>
world == <<holds, changes>>
history == <<missed, overlapped, surfacings, notices>>

Runs == {"drain", "sweep"}
Other(p) == CHOOSE q \in Runs : q # p

Status == {"none", "surfaced", "auto_resolved"}
(* What an open transaction has written to a row, and thereby locked:      *)
(* "count" leaves the status alone and increments detection_count.         *)
Written == {"no", "count", "surfaced", "auto_resolved"}

NoWrites == [k \in Patterns |-> "no"]
Idle == [pc |-> "idle", todo |-> {}, taken |-> 0, key |-> {}, seen |-> "none",
         gone |-> {}, writes |-> NoWrites, mail |-> {}, raised |-> {}]

TypeOK ==
  /\ holds \in [Patterns -> BOOLEAN] /\ row \in [Patterns -> Status]
  /\ queue \in Seq(Patterns) /\ Len(queue) <= MaxChanges
  /\ \A p \in Runs :
       /\ tx[p].pc \in {"idle", "detect", "read", "apply", "resolve"}
       /\ tx[p].todo \subseteq Patterns /\ tx[p].taken \in 0..Batch
       /\ tx[p].key \subseteq Patterns /\ Cardinality(tx[p].key) <= 1
       /\ tx[p].seen \in Status /\ tx[p].gone \subseteq Patterns
       /\ tx[p].writes \in [Patterns -> Written] /\ tx[p].mail \subseteq Patterns
       /\ tx[p].raised \subseteq Patterns
  /\ changes \in 0..MaxChanges /\ faults \in 0..MaxFaults
  /\ missed \subseteq Patterns /\ overlapped \in BOOLEAN
  /\ surfacings \in [Patterns -> Nat] /\ notices \in [Patterns -> Nat]

Init ==
  /\ holds = [k \in Patterns |-> FALSE] /\ row = [k \in Patterns |-> "none"]
  /\ queue = <<>> /\ tx = [p \in Runs |-> Idle]
  /\ changes = 0 /\ faults = 0
  /\ missed = {} /\ overlapped = FALSE
  /\ surfacings = [k \in Patterns |-> 0] /\ notices = [k \in Patterns |-> 0]

-----------------------------------------------------------------------------
(* The data and the event bus.                                             *)

Flip(k) ==
  /\ changes < MaxChanges /\ changes' = changes + 1
  /\ holds' = [holds EXCEPT ![k] = ~@]

(* EventBus.emit: the event, and the candidate of the listener.            *)
Publish(k) ==
  /\ Flip(k) /\ queue' = Append(queue, k)
  /\ UNCHANGED <<row, tx, faults>> /\ UNCHANGED history

(* The listener raises inside its savepoint: the change and the event are  *)
(* kept, the candidate is not.                                             *)
PublishListenerFails(k) ==
  /\ Flip(k) /\ faults < MaxFaults /\ faults' = faults + 1
  /\ missed' = missed \cup {k}
  /\ UNCHANGED <<row, queue, tx, overlapped, surfacings, notices>>

-----------------------------------------------------------------------------
(* Transactions of the two jobs.                                           *)

Pc(p) == tx[p].pc
Step(p, to) == tx' = [tx EXCEPT ![p] = to]

Start(p, todo, taken) ==
  /\ Pc(p) = "idle"
  /\ Step(p, [Idle EXCEPT !.pc = "detect", !.todo = todo, !.taken = taken])
  /\ overlapped' = (overlapped \/ Pc(Other(p)) # "idle")
  /\ UNCHANGED <<row, queue, faults, missed, surfacings, notices>> /\ UNCHANGED world

DrainStart ==
  LET n == IF Len(queue) < Batch THEN Len(queue) ELSE Batch
  IN  queue # <<>> /\ Start("drain", ToSet(SubSeq(queue, 1, n)), n)

SweepStart == Start("sweep", Patterns, 0)

Locked(p, k) == tx[Other(p)].writes[k] # "no"

(* A transaction sees its own writes.                                      *)
View(p, k) == IF tx[p].writes[k] \in {"no", "count"} THEN row[k] ELSE tx[p].writes[k]

(* detect_for_anchor *)
Detect(p) ==
  /\ Pc(p) = "detect"
  /\ \E k \in tx[p].todo :
       Step(p, IF holds[k] THEN [tx[p] EXCEPT !.pc = "read", !.todo = @ \ {k}, !.key = {k}]
                           ELSE [tx[p] EXCEPT !.todo = @ \ {k}])
  /\ UNCHANGED <<row, queue, faults>> /\ UNCHANGED world /\ UNCHANGED history

(* surface: the select of the existing row.                                *)
ReadRow(p) ==
  /\ Pc(p) = "read"
  /\ \E k \in tx[p].key : Step(p, [tx[p] EXCEPT !.pc = "apply", !.seen = View(p, k)])
  /\ UNCHANGED <<row, queue, faults>> /\ UNCHANGED world /\ UNCHANGED history

(* Mutants: a reopened insight is not announced; a known one is; one that   *)
(* was resolved is only counted.                                           *)
SurfacedSilently(p, k) ==
  [write |-> IF tx[p].seen = "surfaced" \/ (tx[p].seen = "none" /\ row[k] = "surfaced")
             THEN "count" ELSE "surfaced",
   mail |-> IF tx[p].seen = "none" /\ row[k] = "none" THEN {k} ELSE {}]
SurfacedOnce(p, k) ==
  [write |-> IF row[k] = "none" THEN "surfaced" ELSE "count",
   mail |-> IF row[k] = "none" THEN {k} ELSE {}]

(* Its write.  The insert of a row that was not there waits for another    *)
(* insert and then meets it; the loser reopens or counts what it finds.    *)
Surfaced(p, k) ==
  LET seen == tx[p].seen IN
  CASE seen = "surfaced"                      -> [write |-> "count", mail |-> {}]
    [] seen = "auto_resolved"                 -> [write |-> "surfaced", mail |-> {k}]
    [] seen = "none" /\ row[k] = "none"       -> [write |-> "surfaced", mail |-> {k}]
    [] seen = "none" /\ row[k] = "surfaced"   -> [write |-> "count", mail |-> {}]
    [] seen = "none" /\ row[k] = "auto_resolved" -> [write |-> "surfaced", mail |-> {}]

Surface(p) ==
  /\ Pc(p) = "apply"
  /\ \E k \in tx[p].key :
       /\ ~Locked(p, k)
       /\ Step(p, [tx[p] EXCEPT !.pc = "detect", !.key = {}, !.seen = "none",
                     !.writes[k] = Surfaced(p, k).write, !.mail = @ \cup Surfaced(p, k).mail,
                     !.raised = IF Surfaced(p, k).write = "surfaced" /\ row[k] # "surfaced"
                                THEN @ \cup {k} ELSE @])
  /\ UNCHANGED <<row, queue, faults>> /\ UNCHANGED world /\ UNCHANGED history

(* auto_resolve_org: the surfaced insights, then the pattern of each, then *)
(* one UPDATE per insight that lapsed.                                     *)
ListSurfaced ==
  /\ Pc("sweep") = "detect" /\ tx["sweep"].todo = {}
  /\ Step("sweep", [tx["sweep"] EXCEPT !.pc = "resolve",
                      !.todo = {k \in Patterns : View("sweep", k) = "surfaced"}])
  /\ UNCHANGED <<row, queue, faults>> /\ UNCHANGED world /\ UNCHANGED history

Recheck ==
  /\ Pc("sweep") = "resolve"
  /\ \E k \in tx["sweep"].todo :
       Step("sweep", [tx["sweep"] EXCEPT !.todo = @ \ {k}, !.gone = IF holds[k] THEN @ ELSE @ \cup {k}])
  /\ UNCHANGED <<row, queue, faults>> /\ UNCHANGED world /\ UNCHANGED history

Resolve ==
  /\ Pc("sweep") = "resolve" /\ tx["sweep"].todo = {}
  /\ \E k \in tx["sweep"].gone :
       /\ ~Locked("sweep", k)
       /\ Step("sweep", [tx["sweep"] EXCEPT !.gone = @ \ {k}, !.writes[k] = "auto_resolved"])
  /\ UNCHANGED <<row, queue, faults>> /\ UNCHANGED world /\ UNCHANGED history

Done(p) ==
  /\ Pc(p) = (IF p = "drain" THEN "detect" ELSE "resolve")
  /\ tx[p].todo = {} /\ tx[p].gone = {}

(* Mutants: every unprocessed candidate is marked; the last of the batch    *)
(* is not.                                                                 *)
MarkedAll(p) == IF p = "drain" THEN <<>> ELSE queue
MarkedShort(p) == IF tx[p].taken = 0 THEN queue ELSE SubSeq(queue, tx[p].taken, Len(queue))

(* The batch is marked processed with it.                                  *)
Marked(p) == SubSeq(queue, tx[p].taken + 1, Len(queue))

Counted(f, S) == [k \in Patterns |-> IF k \in S THEN f[k] + 1 ELSE f[k]]

Commit(p) ==
  /\ Done(p)
  /\ row' = [k \in Patterns |-> View(p, k)]
  /\ queue' = Marked(p)
  /\ surfacings' = Counted(surfacings, tx[p].raised)
  /\ notices' = Counted(notices, tx[p].mail)
  /\ Step(p, Idle)
  /\ UNCHANGED <<faults, missed, overlapped>> /\ UNCHANGED world

-----------------------------------------------------------------------------
(* Failures.                                                               *)

(* A detection that raises is logged: the drain goes on with the next      *)
(* candidate, the sweep leaves the organization without resolving.         *)
DetectFails(p) ==
  /\ Pc(p) = "detect" /\ faults < MaxFaults /\ faults' = faults + 1
  /\ \E k \in tx[p].todo :
       /\ Step(p, IF p = "drain" THEN [tx[p] EXCEPT !.todo = @ \ {k}]
                                 ELSE [tx[p] EXCEPT !.pc = "resolve", !.todo = {}])
       /\ missed' = missed \cup {k}
  /\ UNCHANGED <<row, queue, overlapped, surfacings, notices>> /\ UNCHANGED world

Abort(p) ==
  /\ Step(p, Idle)
  /\ UNCHANGED <<row, queue>> /\ UNCHANGED world /\ UNCHANGED history

(* The job is killed, or a statement fails.                                *)
Rollback(p) ==
  /\ Pc(p) # "idle" /\ faults < MaxFaults /\ faults' = faults + 1
  /\ Abort(p)

Wanted(p) ==
  CASE Pc(p) = "apply" -> tx[p].key
    [] Pc(p) = "resolve" /\ tx[p].todo = {} -> tx[p].gone
    [] OTHER -> {}

WaitsFor(p) == \E k \in Wanted(p) : Locked(p, k)

BothWait == \A p \in Runs : WaitsFor(p)

(* The two wait for each other's rows: PostgreSQL fails one of them, and   *)
(* its commit then rolls everything back.                                  *)
Deadlock(p) ==
  /\ BothWait
  /\ Abort(p)
  /\ UNCHANGED faults

-----------------------------------------------------------------------------
Work(p) == Detect(p) \/ ReadRow(p) \/ Surface(p) \/ Commit(p) \/ Deadlock(p)
SweepWork == ListSurfaced \/ Recheck \/ Resolve

Next ==
  \/ \E k \in Patterns : Publish(k) \/ PublishListenerFails(k)
  \/ DrainStart \/ SweepStart \/ SweepWork
  \/ \E p \in Runs : Work(p) \/ DetectFails(p) \/ Rollback(p)

Spec == Init /\ [][Next]_vars

(* The jobs are scheduled again and again, and a run that is not killed    *)
(* ends: a transaction that waits for a row gets it when the holder ends,  *)
(* before a later one can (hence SF).                                      *)
FairSpec ==
  /\ Spec
  /\ WF_vars(DrainStart) /\ SF_vars(Work("drain"))
  /\ WF_vars(SweepStart) /\ SF_vars(Work("sweep") \/ SweepWork)

-----------------------------------------------------------------------------
(* Properties.                                                             *)

(* Once the data stops changing the insights come to agree with it and     *)
(* stay so, although events may be lost, checks fail and the two jobs      *)
(* overwrite each other: the sweep repairs whatever they left, unless the  *)
(* two deadlock again and again.                                           *)
EventuallyAgrees ==
  <>[]~BothWait => <>[](\A k \in Patterns : holds[k] <=> row[k] = "surfaced")

(* Every flagged candidate is checked in the end, with the same exception. *)
CandidatesDrain == <>[]~BothWait => []<>(queue = <<>>)

(* The reactive path alone is complete: once the candidates are processed, *)
(* a pattern whose last change was flagged and checked is surfaced if it   *)
(* holds -- unless a sweep overlapped a drain, whose decisions on older    *)
(* data may win until the next night.                                      *)
ReactiveComplete ==
  (queue = <<>> /\ \A p \in Runs : Pc(p) = "idle") =>
    \A k \in Patterns : holds[k] /\ k \notin missed /\ ~overlapped => row[k] = "surfaced"

(* Whoever surfaces an insight tells the people it concerns, and a known   *)
(* insight is not announced again.                                         *)
Announced ==
  \A k \in Patterns :
    /\ row[k] # "none" => notices[k] >= 1
    /\ ~overlapped => notices[k] = surfacings[k]

===============================================================================
