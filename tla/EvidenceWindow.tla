--------------------------- MODULE EvidenceWindow ---------------------------
(* The dates that decide compares (kernel.py): those of the dispatch, of the *)
(* replays and results of the blind cases, of the gates' evidence, and the   *)
(* two trusted times, at the beginning of the call and at its end.           *)
EXTENDS Integers

CONSTANTS
  MaxDate,  \* bounds every date
  MaxAge,   \* MAX_EVIDENCE_AGE_SECONDS
  Skew      \* MAX_CLOCK_SKEW_SECONDS

ASSUME DatesAssumption == MaxDate \in Nat /\ MaxAge \in Nat /\ Skew \in Nat

VARIABLES
  start,     \* now, the first trusted time
  dispatch,  \* issued_at, collection_not_before and collection_not_after
  results,   \* the dates of the blind cases so far: executed_at and observed_at
  evidence,  \* the dates of the gates' evidence so far
  end,       \* final_now
  dating     \* where decide is

windowVars == <<start, dispatch, results, evidence, end, dating>>

Dates == 0..MaxDate

WindowInit ==
  /\ start \in Dates
  /\ dispatch \in [issued : Dates, opens : Dates, closes : Dates]
  /\ results = {} /\ evidence = {}
  /\ end = start
  /\ dating = "window"

(* Broken variant: a window of any length. *)
WindowOrdered ==
  dispatch.opens >= dispatch.issued /\ dispatch.closes >= dispatch.opens

WindowSound ==
  /\ dispatch.opens >= dispatch.issued /\ dispatch.closes >= dispatch.opens
  /\ dispatch.closes - dispatch.opens <= MaxAge

Timely == start >= dispatch.issued - Skew /\ start <= dispatch.closes + Skew

CheckWindow ==
  /\ dating = "window"
  /\ WindowSound
  /\ Timely
  /\ dating' = "results"
  /\ UNCHANGED <<start, dispatch, results, evidence, end>>

Collected(date) == dispatch.opens <= date /\ date <= dispatch.closes

(* The date of a replay and that of its result are compared alike.           *)
CheckResult(date) ==
  /\ dating = "results"
  /\ Collected(date)
  /\ date <= start + Skew
  /\ start - date <= MaxAge
  /\ results' = results \cup {date}
  /\ UNCHANGED <<start, dispatch, evidence, end, dating>>

ResultsDone ==
  /\ dating = "results"
  /\ results # {}
  /\ dating' = "evidence"
  /\ UNCHANGED <<start, dispatch, results, evidence, end>>

(* validate_evidence knows the window and not the time. *)
CheckGate(date) ==
  /\ dating = "evidence"
  /\ Collected(date)
  /\ evidence' = evidence \cup {date}
  /\ UNCHANGED <<start, dispatch, results, end, dating>>

(* The second trusted time is not before the first one. *)
CheckEnd(date) ==
  /\ dating = "evidence"
  /\ evidence # {}
  /\ date >= start
  /\ end' = date
  /\ dating' = "allowed"
  /\ UNCHANGED <<start, dispatch, results, evidence>>

(* Reject: the window, a date that fits no guard, a clock that ran back.     *)
RefuseDates ==
  /\ \/ dating = "window" /\ ~(WindowSound /\ Timely)
     \/ dating \in {"results", "evidence"}
  /\ dating' = "refused"
  /\ UNCHANGED <<start, dispatch, results, evidence, end>>

WindowNext ==
  \/ CheckWindow \/ ResultsDone \/ RefuseDates
  \/ \E date \in Dates : CheckResult(date) \/ CheckGate(date) \/ CheckEnd(date)

WindowSpec == WindowInit /\ [][WindowNext]_windowVars

-----------------------------------------------------------------------------
(* Whatever is allowed rests on fresh evidence: no result is older than the  *)
(* maximum at the time of the call or dated after it, and no evidence of a   *)
(* gate, which is never compared with the time, older than the maximum and   *)
(* the skew; and none of it is from before the dispatch (kernel.py           *)
(* 1229-1240, 1295-1297, 775-780).                                           *)
FreshEvidence ==
  dating = "allowed" =>
    /\ \A date \in results : date >= start - MaxAge /\ date <= start + Skew
    /\ \A date \in evidence : date >= start - (MaxAge + Skew)
    /\ \A date \in results \cup evidence : date >= dispatch.issued

(* "future-gate-evidence-rejected" (kernel.py 69): no evidence of a gate is  *)
(* dated after the time of the call, but for the skew of the clocks.         *)
NoFutureEvidence ==
  dating = "allowed" => \A date \in evidence : date <= end + Skew
=============================================================================
