-------------------------- MODULE StorageRetention -------------------------
(***************************************************************************)
(* Which generations adaptive_storage.py keeps, each time one is added:    *)
(* the newest ones, then on the way back one for each day it meets, then   *)
(* one for each month.                                                     *)
(***************************************************************************)
EXTENDS Naturals, Sequences, FiniteSets, Folds, SequencesExt

CONSTANTS
  Recent, KeepDays, KeepMonths,  \* 4, 7 and 12 in the code
  DaysInMonth

Month(day) == day \div DaysInMonth

\* One generation, met on the way from the newest to the oldest.
Retain(g, acc) ==
  IF Len(acc.kept) < Recent THEN [acc EXCEPT !.kept = <<g>> \o @]
  ELSE IF Cardinality(acc.days) < KeepDays /\ g.day \notin acc.days
    THEN [acc EXCEPT !.kept = <<g>> \o @, !.days = @ \cup {g.day}]
  ELSE IF Cardinality(acc.months) < KeepMonths /\ Month(g.day) \notin acc.months
    THEN [acc EXCEPT !.kept = <<g>> \o @, !.months = @ \cup {Month(g.day)}]
  ELSE acc

RetainedGenerations(values) ==
  FoldRight(Retain, values, [kept |-> << >>, days |-> {}, months |-> {}]).kept
=============================================================================
