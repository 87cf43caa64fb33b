---------------------------- MODULE PromotionApart ----------------------------
(***************************************************************************)
(* The promotion under a discipline its code does not enforce: handlers    *)
(* that do not overlap.  Nothing is assumed of what they do, only of when  *)
(* they run, so these specifications separate the mistakes of the handlers *)
(* from the mistakes of their interleaving.                                *)
(***************************************************************************)
EXTENDS Promotion

TriggerBusy == \E t \in Triggers : trigger[t] # Idle
CallBusy == \E c \in Calls : call[c] # Idle
ResetBusy == \E p \in Servers : reset[p] # Idle
ReconBusy == \E p \in Servers : recon[p] # Idle
Quiet == ~TriggerBusy /\ ~CallBusy /\ ~ResetBusy /\ ~ReconBusy

(* At most one request or job is under way.                                 *)
OneAtATime ==
  /\ \A t, u \in Triggers : trigger[t] # Idle /\ trigger[u] # Idle => t = u
  /\ \A c, d \in Calls : call[c] # Idle /\ call[d] # Idle => c = d
  /\ \A p, q \in Servers : reset[p] # Idle /\ reset[q] # Idle => p = q
  /\ \A p, q \in Servers : recon[p] # Idle /\ recon[q] # Idle => p = q
  /\ TriggerBusy => ~CallBusy /\ ~ResetBusy /\ ~ReconBusy
  /\ CallBusy => ~ResetBusy /\ ~ReconBusy
  /\ ~(ResetBusy /\ ReconBusy)

SerialSpec == Init /\ [][Next /\ OneAtATime']_vars

(* No triggerPromotion is under way while the reset job runs anywhere;      *)
(* lecturers' requests and the runs of both jobs overlap freely.            *)
TriggerApartSpec == Init /\ [][Next /\ ~(TriggerBusy' /\ ResetBusy')]_vars

-----------------------------------------------------------------------------
(* The weeks of which a run of the reset job, where it stands, remembers    *)
(* that it reset one of their slot promotions.                              *)
Resetting(p) == reset[p].pc \in {"mark", "cancel", "delete", "close"}

Remembers(p, w) ==
  /\ Resetting(p)
  /\ reset[p].week = w
  /\ reset[p].pc \in {"cancel", "delete"} \/ reset[p].hadResets

Lapsing == {w \in Weeks : \E p \in Servers : Remembers(p, w)}

(* One at a time, the handlers implement the life cycle: a reset never hits *)
(* an answered slot promotion, an answer never a reset one, a cycle closes  *)
(* with nothing pending and as expired exactly when the run that closes it  *)
(* reset something.  Failures are part of the life cycle: a job that dies   *)
(* forgets what it has reset, and that is all that is lost.                 *)
Lifecycle == INSTANCE PromotionLifecycle
  WITH Slots <- Slots, Weeks <- Weeks, MaxFaults <- MaxFaults,
       cycle <- cycle, promo <- promo, lapsing <- Lapsing, faults <- faults
FollowsLifecycle == Lifecycle!Spec

(* Between two requests, a session that waits for confirmation waits for an *)
(* answer that can still be given: its cycle is active and its slot         *)
(* promotion pending, as long as no statement has failed.  (A session that  *)
(* lost its slot waits for nobody.)                                         *)
PendingIsAnswerable ==
  Quiet /\ faults = 0 => \A x \in Sessions :
    session[x].status = "pending_confirmation" /\ session[x].slot # NoSlot =>
      /\ cycle[session[x].week] = "active"
      /\ promo[session[x].week][session[x].slot] = "pending"

(* A cycle that is closed asks nobody any more: each run of executeReset    *)
(* takes every pending slot promotion of the cycle before it closes it, and *)
(* answers given meanwhile, and the marks of other runs, only take more of  *)
(* them out of pending.  And it ends as completed only if every slot was    *)
(* confirmed or modified: one that was reset makes it expired, unless the   *)
(* job died after it was, or two runs had the cycle listed at once: the one *)
(* that finds the other's marks in place reports that it reset nothing.     *)
ClosedIsSettled ==
  \A w \in Weeks, s \in Slots :
    /\ cycle[w] \in Closed => promo[w][s] # "pending"
    /\ cycle[w] = "completed" /\ faults = 0 /\ w \notin contested =>
         promo[w][s] # "reset"

=============================================================================
