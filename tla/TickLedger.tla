----------------------------- MODULE TickLedger -----------------------------
(***************************************************************************)
(* What the scheduler promises about one job, whatever the worker          *)
(* processes do: the run log only grows, one run at a time, and a run      *)
(* admitted by the claim serves a scheduled tick later than every admitted *)
(* run already in the log.  No scheduled tick is therefore executed twice  *)
(* by admitted runs.  A run started because the claim itself errored is    *)
(* not admitted and promises nothing ("duplicate execution is preferable   *)
(* to skipping the job entirely").                                         *)
(***************************************************************************)
EXTENDS Integers, Sequences

VARIABLE ledger    \* Seq([tick : Int, admitted : BOOLEAN])

Init == ledger = << >>

Grows ==
  /\ Len(ledger') = Len(ledger) + 1
  /\ \A i \in 1..Len(ledger) : ledger'[i] = ledger[i]

(* A run admitted by the claim. *)
Admit ==
  /\ Grows
  /\ LET new == ledger'[Len(ledger) + 1]
     IN /\ new.admitted
        /\ \A i \in 1..Len(ledger) : ledger[i].admitted => ledger[i].tick < new.tick

(* A run started because the claim failed. *)
Degrade ==
  /\ Grows
  /\ ~ledger'[Len(ledger) + 1].admitted

Next == Admit \/ Degrade

Spec == Init /\ [][Next]_ledger
=============================================================================
