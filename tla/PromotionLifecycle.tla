-------------------------- MODULE PromotionLifecycle --------------------------
(***************************************************************************)
(* What a promotion cycle promises, as one state machine per row: a cycle  *)
(* is opened, proposes a set of slots once, collects answers while it is   *)
(* active, lets unanswered slots lapse, and closes with nothing pending.   *)
(* It is the abstract specification that the handlers of Promotion         *)
(* implement when they do not overlap (PromotionApart), whatever fails.    *)
(*                                                                         *)
(* A failure costs a cycle nothing but the memory of what has lapsed in    *)
(* it, so that it may close as completed although slots were reset;        *)
(* without one it is expired exactly when one of its slots lapsed.         *)
(***************************************************************************)
EXTENDS Naturals

CONSTANTS Slots, Weeks, MaxFaults

VARIABLES
  cycle, promo,
  lapsing,   \* the weeks of which it is remembered that a slot lapsed
  faults     \* failures so far

Init ==
  /\ cycle = [w \in Weeks |-> "none"]
  /\ promo = [w \in Weeks |-> [s \in Slots |-> "none"]]
  /\ lapsing = {}
  /\ faults = 0

Open(w) ==
  /\ cycle[w] = "none"
  /\ cycle' = [cycle EXCEPT ![w] = "active"]
  /\ UNCHANGED <<promo, lapsing, faults>>

Propose(w, S) ==
  /\ cycle[w] = "active"
  /\ \A s \in Slots : promo[w][s] = "none"
  /\ promo' = [promo EXCEPT ![w] = [s \in Slots |-> IF s \in S THEN "pending" ELSE "none"]]
  /\ UNCHANGED <<cycle, lapsing, faults>>

Answer(w, s) ==
  /\ cycle[w] = "active"
  /\ \E step \in {<<"pending", "confirmed">>, <<"pending", "modified">>,
                  <<"confirmed", "modified">>} :
       /\ promo[w][s] = step[1]
       /\ promo' = [promo EXCEPT ![w][s] = step[2]]
  /\ UNCHANGED <<cycle, lapsing, faults>>

Lapse(w, s) ==
  /\ cycle[w] = "active"
  /\ promo[w][s] = "pending"
  /\ promo' = [promo EXCEPT ![w][s] = "reset"]
  /\ lapsing' = lapsing \cup {w}
  /\ UNCHANGED <<cycle, faults>>

Close(w) ==
  /\ cycle[w] = "active"
  /\ \A s \in Slots : promo[w][s] # "pending"
  /\ cycle' = [cycle EXCEPT ![w] = IF w \in lapsing THEN "expired" ELSE "completed"]
  /\ lapsing' = lapsing \ {w}
  /\ UNCHANGED <<promo, faults>>

Fail ==
  /\ faults < MaxFaults
  /\ faults' = faults + 1
  /\ lapsing' \in {lapsing, {}}
  /\ UNCHANGED <<cycle, promo>>

Next ==
  \/ \E w \in Weeks :
       \/ Open(w) \/ Close(w)
       \/ \E S \in SUBSET Slots : Propose(w, S)
       \/ \E s \in Slots : Answer(w, s) \/ Lapse(w, s)
  \/ Fail

vars == <<cycle, promo, lapsing, faults>>

Spec == Init /\ [][Next]_vars

(* How a cycle ends, as far as these rules alone decide it: with nothing    *)
(* pending, as expired only if a slot lapsed in it, and, while nothing has  *)
(* failed, as completed only if none did.                                   *)
EndsAsItWent ==
  \A w \in Weeks :
    /\ cycle[w] \in {"completed", "expired"} => \A s \in Slots : promo[w][s] # "pending"
    /\ cycle[w] = "expired" => \E s \in Slots : promo[w][s] = "reset"
    /\ cycle[w] = "completed" /\ faults = 0 => \A s \in Slots : promo[w][s] # "reset"

=============================================================================
