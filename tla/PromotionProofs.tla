--------------------------- MODULE PromotionProofs ---------------------------
(* Theorems about Promotion for every value of its constants.               *)
EXTENDS Promotion, TLAPS

-----------------------------------------------------------------------------
(* The statements on sessions keep the table well typed.                    *)

LEMMA SetStatusType ==
  ASSUME session \in [Sessions -> SessionRow], NEW X, NEW status \in SessionStatus
  PROVE  SetStatus(X, status) \in [Sessions -> SessionRow]
BY DEF SetStatus, SessionRow

LEMMA UnlinkSlotType ==
  ASSUME session \in [Sessions -> SessionRow], NEW s
  PROVE  UnlinkSlot(s) \in [Sessions -> SessionRow]
BY DEF UnlinkSlot, SessionRow

(* A request or job that is not idle has the record of a run.               *)

LEMMA TriggerRunning ==
  ASSUME TypeOK, NEW t \in Triggers, trigger[t].pc # "idle"
  PROVE  trigger[t] \in TriggerRun
BY DEF TypeOK, Idle

LEMMA CallRunning ==
  ASSUME TypeOK, NEW c \in Calls, call[c].pc # "idle"
  PROVE  call[c] \in CallRun
BY DEF TypeOK, Idle

LEMMA ResetRunning ==
  ASSUME TypeOK, NEW p \in Servers, reset[p].pc # "idle"
  PROVE  reset[p] \in ResetRun
BY DEF TypeOK, Idle

LEMMA ReconRunning ==
  ASSUME TypeOK, NEW p \in Servers, recon[p].pc # "idle"
  PROVE  recon[p] \in ReconRun
BY DEF TypeOK, Idle

LEMMA InitType == Init => TypeOK
<1> SUFFICES ASSUME Init PROVE TypeOK
  OBVIOUS
<1>1. session \in [Sessions -> SessionRow]
  BY DEF Init, Sessions, SessionRow, SessionStatus
<1>2. QED
  BY <1>1, MaxFaultsNat
  DEF Init, TypeOK, CycleStatus, PromoStatus, SlotStatus

LEMMA TriggerType ==
  ASSUME TypeOK, NEW t \in Triggers,
         (\E w \in Weeks : TriggerLookup(t, w)) \/ TriggerStep(t) \/ TriggerFails(t)
  PROVE  TypeOK'
<1>0. ASSUME NEW state \in TriggerRun \cup {Idle}, GoTrigger(t, state)
      PROVE  trigger' \in [Triggers -> TriggerRun \cup {Idle}]
  BY <1>0 DEF GoTrigger, TypeOK
<1>1. ASSUME NEW w \in Weeks, TriggerLookup(t, w) PROVE TypeOK'
  <2>1. [pc |-> "create", week |-> w, todo |-> {}, eligible |-> {}] \in TriggerRun
    BY DEF TriggerRun
  <2>2. QED
    BY <1>0, <1>1, <2>1 DEF TriggerLookup, TypeOK, tables
<1>2. ASSUME TriggerCreate(t) PROVE TypeOK'
  <2>1. trigger[t] \in TriggerRun
    BY <1>2, TriggerRunning DEF TriggerCreate
  <2>2. [trigger[t] EXCEPT !.pc = "list"] \in TriggerRun
    BY <2>1 DEF TriggerRun
  <2>3. cycle' \in [Weeks -> CycleStatus]
    BY <1>2, <2>1 DEF TriggerCreate, TypeOK, CycleStatus, TriggerRun
  <2>4. trigger' \in [Triggers -> TriggerRun \cup {Idle}]
    BY <1>0, <1>2, <2>2 DEF TriggerCreate
  <2>5. QED
    BY <1>2, <2>3, <2>4 DEF TriggerCreate, TypeOK
<1>3. ASSUME TriggerList(t) \/ TriggerScan(t) PROVE TypeOK'
  <2>1. trigger[t] \in TriggerRun
    BY <1>3, TriggerRunning DEF TriggerList, TriggerScan
  <2>2. ASSUME NEW todo \in SUBSET Slots, NEW eligible \in SUBSET Slots
        PROVE  ScanState(t, todo, eligible) \in TriggerRun \cup {Idle}
    BY <2>1 DEF ScanState, AfterScan, TriggerRun
  <2>3. PICK todo \in SUBSET Slots, eligible \in SUBSET Slots :
          GoTrigger(t, ScanState(t, todo, eligible))
    BY <1>3, <2>1 DEF TriggerList, TriggerScan, TriggerRun
  <2>4. trigger' \in [Triggers -> TriggerRun \cup {Idle}]
    BY <1>0, <2>2, <2>3
  <2>5. QED
    BY <1>3, <2>4 DEF TriggerList, TriggerScan, TypeOK, tables
<1>4. ASSUME TriggerInsert(t) PROVE TypeOK'
  <2>1. trigger[t] \in TriggerRun
    BY <1>4, TriggerRunning DEF TriggerInsert
  <2>2. [trigger[t] EXCEPT !.pc = "transition"] \in TriggerRun
    BY <2>1 DEF TriggerRun
  <2>3. promo' \in [Weeks -> [Slots -> PromoStatus]]
    BY <1>4 DEF TriggerInsert, TypeOK, PromoStatus
  <2>4. QED
    BY <1>0, <1>4, <2>2, <2>3 DEF TriggerInsert, TypeOK
<1>5. ASSUME TriggerTransition(t) PROVE TypeOK'
  <2>1. session' \in [Sessions -> SessionRow]
    BY <1>5, SetStatusType DEF TriggerTransition, SessionStatus, TypeOK
  <2>2. QED
    BY <1>0, <1>5, <2>1 DEF TriggerTransition, TypeOK
<1>6. ASSUME TriggerFails(t) PROVE TypeOK'
  <2>1. faults' \in 0..MaxFaults
    BY <1>6, MaxFaultsNat DEF TriggerFails, Fault, TypeOK
  <2>2. QED
    BY <1>0, <1>6, <2>1 DEF TriggerFails, TypeOK, tables
<1>7. QED
  BY <1>1, <1>2, <1>3, <1>4, <1>5, <1>6 DEF TriggerStep

LEMMA CallType ==
  ASSUME TypeOK, NEW c \in Calls,
         \/ \E kind \in Kinds, w \in Weeks, s \in Slots : CallAccess(c, kind, w, s)
         \/ CallStep(c) \/ CallFails(c)
  PROVE  TypeOK'
<1>0. ASSUME NEW state \in CallRun \cup {Idle}, GoCall(c, state)
      PROVE  call' \in [Calls -> CallRun \cup {Idle}]
  BY <1>0 DEF GoCall, TypeOK
<1>a. ASSUME NEW w \in Weeks, NEW s \in Slots, NEW status \in {"confirmed", "modified"}
      PROVE  Marking(w, s, status) \in CallRun /\ Releasing(w, s) \in CallRun
  BY DEF Marking, Releasing, CallRun
<1>b. ASSUME call[c].pc # "idle"
      PROVE  call[c] \in CallRun /\ call[c].week \in Weeks /\ call[c].slot \in Slots
  BY <1>b, CallRunning DEF CallRun
<1>1. ASSUME NEW kind \in Kinds, NEW w \in Weeks, NEW s \in Slots,
             CallAccess(c, kind, w, s)
      PROVE  TypeOK'
  <2>1. [pc |-> "cycle", week |-> w, slot |-> s, kind |-> kind, seen |-> promo[w][s]]
          \in CallRun
    BY <1>1, KindsAreKinds DEF CallAccess, CallRun, Seen, TypeOK
  <2>2. QED
    BY <1>0, <1>1, <2>1 DEF CallAccess, TypeOK, tables
<1>2. ASSUME CallRefused(c) PROVE TypeOK'
  BY <1>0, <1>2 DEF CallRefused, TypeOK, tables
<1>3. ASSUME CallAccepted(c) PROVE TypeOK'
  <2>1. call[c] \in CallRun /\ call[c].week \in Weeks /\ call[c].slot \in Slots
    BY <1>3, <1>b DEF CallAccepted
  <2>2. call[c].seen \in Seen
    BY <1>3, <2>1 DEF CallAccepted, CallRun
  <2>3. PICK state \in CallRun : GoCall(c, state)
    <3>1. CASE call[c].kind = "confirm"
      BY <1>3, <3>1, <2>1, <1>a DEF CallAccepted
    <3>2. CASE call[c].kind = "modify"
      <4>1. [pc |-> "modify", week |-> call[c].week, slot |-> call[c].slot] \in CallRun
        BY <2>1 DEF CallRun
      <4>2. QED
        BY <1>3, <3>2, <4>1 DEF CallAccepted
    <3>3. CASE call[c].kind = "reschedule"
      <4>1. PICK x \in Sessions, w \in Weeks :
              GoCall(c, [pc |-> "reschedule", week |-> call[c].week,
                         slot |-> call[c].slot, seen |-> call[c].seen,
                         ses |-> x, to |-> w])
        BY <1>3, <3>3 DEF CallAccepted
      <4>2. [pc |-> "reschedule", week |-> call[c].week, slot |-> call[c].slot,
             seen |-> call[c].seen, ses |-> x, to |-> w] \in CallRun
        BY <2>1, <2>2 DEF CallRun
      <4>3. QED
        BY <4>1, <4>2
    <3>4. CASE call[c].kind = "cancel"
      <4>1. PICK x \in Sessions :
              GoCall(c, [pc |-> "cancel", week |-> call[c].week,
                         slot |-> call[c].slot, seen |-> call[c].seen, ses |-> x])
        BY <1>3, <3>4 DEF CallAccepted
      <4>2. [pc |-> "cancel", week |-> call[c].week, slot |-> call[c].slot,
             seen |-> call[c].seen, ses |-> x] \in CallRun
        BY <2>1, <2>2 DEF CallRun
      <4>3. QED
        BY <4>1, <4>2
    <3>5. QED
      BY <1>3, <3>1, <3>2, <3>3, <3>4 DEF CallAccepted
  <2>4. QED
    BY <1>0, <1>3, <2>3 DEF CallAccepted, TypeOK, tables
<1>4. ASSUME CallModify(c) PROVE TypeOK'
  <2>1. call[c].week \in Weeks /\ call[c].slot \in Slots
    BY <1>4, <1>b DEF CallModify
  <2>2. QED
    BY <1>0, <1>a, <1>4, <2>1 DEF CallModify, TypeOK, tables
<1>5. ASSUME CallReschedule(c) \/ CallCancel(c) PROVE TypeOK'
  <2>1. call[c] \in CallRun /\ call[c].week \in Weeks /\ call[c].slot \in Slots
    BY <1>5, <1>b DEF CallReschedule, CallCancel
  <2>2. call[c].ses \in Sessions /\ (call[c].pc = "reschedule" => call[c].to \in Weeks)
    BY <1>5, <2>1 DEF CallReschedule, CallCancel, CallRun
  <2>3. session' \in [Sessions -> SessionRow]
    <3>1. session \in [Sessions -> SessionRow]
      BY DEF TypeOK
    <3>2. CASE CallReschedule(c)
      <4>1. session[call[c].ses] \in SessionRow /\ call[c].to \in Weeks
        BY <2>2, <3>1, <3>2 DEF CallReschedule
      <4>2. Rescheduled(session[call[c].ses], call[c].to) \in SessionRow
        BY <4>1 DEF Rescheduled, SessionRow, SessionStatus
      <4>3. QED
        BY <2>2, <3>1, <3>2, <4>2 DEF CallReschedule
    <3>3. CASE CallCancel(c)
      <4>1. [session[call[c].ses] EXCEPT !.status = "cancelled"] \in SessionRow
        BY <2>2, <3>1 DEF SessionRow, SessionStatus
      <4>2. QED
        BY <2>2, <3>1, <3>3, <4>1 DEF CallCancel
    <3>4. QED
      BY <1>5, <3>2, <3>3
  <2>4. call' \in [Calls -> CallRun \cup {Idle}]
    BY <1>0, <1>a, <1>5, <2>1 DEF CallReschedule, CallCancel, AfterSessionEdit
  <2>5. QED
    BY <1>5, <2>3, <2>4 DEF CallReschedule, CallCancel, TypeOK
<1>6. ASSUME CallMark(c) PROVE TypeOK'
  <2>1. call[c] \in CallRun /\ call[c].week \in Weeks /\ call[c].slot \in Slots
    BY <1>6, <1>b DEF CallMark
  <2>2. call[c].status \in PromoStatus
    BY <1>6, <2>1 DEF CallMark, CallRun, PromoStatus
  <2>3. promo' \in [Weeks -> [Slots -> PromoStatus]]
    BY <1>6, <2>1, <2>2 DEF CallMark, TypeOK
  <2>4. QED
    BY <1>0, <1>a, <1>6, <2>1, <2>3 DEF CallMark, TypeOK
<1>7. ASSUME CallRelease(c) PROVE TypeOK'
  <2>1. session' \in [Sessions -> SessionRow]
    BY <1>7, SetStatusType DEF CallRelease, SessionStatus, TypeOK
  <2>2. QED
    BY <1>0, <1>7, <2>1 DEF CallRelease, TypeOK
<1>8. ASSUME CallFails(c) PROVE TypeOK'
  <2>1. faults' \in 0..MaxFaults
    BY <1>8, MaxFaultsNat DEF CallFails, Fault, TypeOK
  <2>2. QED
    BY <1>0, <1>8, <2>1 DEF CallFails, TypeOK, tables
<1>9. QED
  BY <1>1, <1>2, <1>3, <1>4, <1>5, <1>6, <1>7, <1>8 DEF CallStep

LEMMA DeleteSlotType ==
  ASSUME TypeOK, NEW s \in Slots, DeleteSlotRecord(s)
  PROVE  session' \in [Sessions -> SessionRow] /\ slotRow' \in [Slots -> SlotStatus]
BY UnlinkSlotType DEF DeleteSlotRecord, TypeOK, SlotStatus

LEMMA ResetType ==
  ASSUME TypeOK, NEW p \in Servers, ResetStart(p) \/ ResetStep(p) \/ ResetFails(p)
  PROVE  TypeOK'
<1>0. ASSUME NEW state \in ResetRun \cup {Idle}, GoReset(p, state)
      PROVE  reset' \in [Servers -> ResetRun \cup {Idle}]
  BY <1>0 DEF GoReset, TypeOK
<1>a. ASSUME reset[p].pc \in {"mark", "cancel", "delete", "close"}
      PROVE  /\ reset[p].cycles \in SUBSET Weeks /\ reset[p].week \in Weeks
             /\ reset[p].todo \in SUBSET Slots /\ reset[p].hadResets \in BOOLEAN
             /\ reset[p].pc \in {"cancel", "delete"} => reset[p].slot \in Slots
  BY <1>a, ResetRunning DEF ResetRun
<1>1. ASSUME ResetStart(p) PROVE TypeOK'
  <2>1. [pc |-> "next", cycles |-> ActiveCycles] \in ResetRun
    BY DEF ActiveCycles, ResetRun
  <2>2. reset' \in [Servers -> ResetRun \cup {Idle}]
    BY <1>0, <1>1, <2>1 DEF ResetStart
  <2>3. contested' \in SUBSET Weeks
    BY <1>1 DEF ResetStart, ActiveCycles, TypeOK
  <2>4. QED
    BY <1>1, <2>2, <2>3 DEF ResetStart, TypeOK, tables
<1>2. ASSUME ResetNext(p) PROVE TypeOK'
  <2>1. reset[p].cycles \in SUBSET Weeks
    BY <1>2, ResetRunning DEF ResetNext, ResetRun
  <2>2. PICK w \in reset[p].cycles :
          GoReset(p, [pc |-> IF PendingSlots(w) = {} THEN "close" ELSE "mark",
                      cycles |-> reset[p].cycles \ {w}, week |-> w,
                      todo |-> PendingSlots(w), hadResets |-> FALSE])
    BY <1>2 DEF ResetNext
  <2>3. [pc |-> IF PendingSlots(w) = {} THEN "close" ELSE "mark",
         cycles |-> reset[p].cycles \ {w}, week |-> w,
         todo |-> PendingSlots(w), hadResets |-> FALSE] \in ResetRun
    BY <2>1 DEF PendingSlots, ResetRun
  <2>4. reset' \in [Servers -> ResetRun \cup {Idle}]
    BY <1>0, <2>2, <2>3
  <2>5. QED
    BY <1>2, <2>4 DEF ResetNext, TypeOK, tables
<1>3. ASSUME ResetMark(p) PROVE TypeOK'
  <2>0. reset[p].pc = "mark"
    BY <1>3 DEF ResetMark
  <2>1. PICK s \in reset[p].todo :
          /\ promo' = [promo EXCEPT ![reset[p].week][s] = "reset"]
          /\ GoReset(p, [pc |-> "cancel", cycles |-> reset[p].cycles,
                         week |-> reset[p].week, todo |-> reset[p].todo \ {s},
                         hadResets |-> reset[p].hadResets, slot |-> s])
    BY <1>3 DEF ResetMark
  <2>2. [pc |-> "cancel", cycles |-> reset[p].cycles,
         week |-> reset[p].week, todo |-> reset[p].todo \ {s},
         hadResets |-> reset[p].hadResets, slot |-> s] \in ResetRun
    BY <1>a, <2>0 DEF ResetRun
  <2>3. promo' \in [Weeks -> [Slots -> PromoStatus]]
    BY <1>a, <2>0, <2>1 DEF TypeOK, PromoStatus
  <2>4. reset' \in [Servers -> ResetRun \cup {Idle}]
    BY <1>0, <2>1, <2>2
  <2>5. QED
    BY <1>3, <2>3, <2>4 DEF ResetMark, TypeOK
<1>4. ASSUME ResetCancel(p) PROVE TypeOK'
  <2>1. reset[p] \in ResetRun /\ reset[p].pc = "cancel"
    BY <1>4, ResetRunning DEF ResetCancel
  <2>2. [reset[p] EXCEPT !.pc = "delete"] \in ResetRun
    BY <2>1 DEF ResetRun
  <2>3. session' \in [Sessions -> SessionRow] /\ faults' \in 0..MaxFaults
    BY <1>4, SetStatusType, MaxFaultsNat DEF ResetCancel, SessionStatus, Fault, TypeOK
  <2>4. reset' \in [Servers -> ResetRun \cup {Idle}]
    BY <1>0, <1>4, <2>2 DEF ResetCancel
  <2>5. QED
    BY <1>4, <2>3, <2>4 DEF ResetCancel, TypeOK
<1>5. ASSUME ResetDelete(p) PROVE TypeOK'
  <2>0. reset[p].pc = "delete"
    BY <1>5 DEF ResetDelete
  <2>1. [pc |-> IF reset[p].todo = {} THEN "close" ELSE "mark",
         cycles |-> reset[p].cycles, week |-> reset[p].week,
         todo |-> reset[p].todo, hadResets |-> TRUE] \in ResetRun
    BY <1>a, <2>0 DEF ResetRun
  <2>2. /\ session' \in [Sessions -> SessionRow] /\ slotRow' \in [Slots -> SlotStatus]
        /\ faults' \in 0..MaxFaults
    BY <1>5, <1>a, DeleteSlotType, MaxFaultsNat DEF ResetDelete, Fault, TypeOK
  <2>3. reset' \in [Servers -> ResetRun \cup {Idle}]
    BY <1>0, <1>5, <2>1 DEF ResetDelete
  <2>4. QED
    BY <1>5, <2>2, <2>3 DEF ResetDelete, TypeOK
<1>6. ASSUME ResetClose(p) PROVE TypeOK'
  <2>0. reset[p].pc = "close"
    BY <1>6 DEF ResetClose
  <2>1. [pc |-> "next", cycles |-> reset[p].cycles] \in ResetRun
    BY <1>a, <2>0 DEF ResetRun
  <2>2. cycle' \in [Weeks -> CycleStatus]
    BY <1>6, <1>a DEF ResetClose, CloseStatus, CycleStatus, TypeOK
  <2>3. reset' \in [Servers -> ResetRun \cup {Idle}]
    BY <1>0, <1>6, <2>1 DEF ResetClose
  <2>4. QED
    BY <1>6, <2>2, <2>3 DEF ResetClose, TypeOK
<1>7. ASSUME ResetFails(p) PROVE TypeOK'
  <2>1. reset' \in [Servers -> ResetRun \cup {Idle}]
    BY <1>0, <1>7 DEF ResetFails
  <2>2. QED
    BY <1>7, <2>1, MaxFaultsNat DEF ResetFails, Fault, TypeOK, tables
<1>8. QED
  BY <1>1, <1>2, <1>3, <1>4, <1>5, <1>6, <1>7 DEF ResetStep

LEMMA ReconType ==
  ASSUME TypeOK, NEW p \in Servers, ReconStart(p) \/ ReconStep(p)
  PROVE  TypeOK'
<1>0. ASSUME NEW state \in ReconRun \cup {Idle}, GoRecon(p, state)
      PROVE  recon' \in [Servers -> ReconRun \cup {Idle}]
  BY <1>0 DEF GoRecon, TypeOK
<1>a. ASSUME recon[p].pc # "idle" PROVE recon[p] \in ReconRun /\ recon[p].todo \in SUBSET Orphan
  BY <1>a, ReconRunning DEF ReconRun
<1>b. ASSUME recon[p].pc \in {"cancel", "fallback", "delete"}
      PROVE  recon[p].orphan \in Orphan /\ recon[p].orphan.slot \in Slots
  BY <1>b, ReconRunning DEF ReconRun, Orphan
<1>c. ASSUME NEW todo \in SUBSET Orphan, ReconAdvance(p, todo)
      PROVE  recon' \in [Servers -> ReconRun \cup {Idle}]
  <2>1. [pc |-> "next", todo |-> todo] \in ReconRun
    BY DEF ReconRun
  <2>2. QED
    BY <1>0, <1>c, <2>1 DEF ReconAdvance
<1>d. ASSUME recon[p].pc \in {"cancel", "fallback"}, ReconAfterSessions(p)
      PROVE  recon' \in [Servers -> ReconRun \cup {Idle}]
  <2>1. recon[p] \in ReconRun /\ recon[p].todo \in SUBSET Orphan
    BY <1>a, <1>d
  <2>2. [recon[p] EXCEPT !.pc = "delete"] \in ReconRun
    BY <1>d, <2>1 DEF ReconRun
  <2>3. QED
    BY <1>0, <1>c, <1>d, <2>1, <2>2 DEF ReconAfterSessions
<1>1. ASSUME ReconStart(p) PROVE TypeOK'
  <2>1. \A w \in Weeks, s \in Slots : OrphanOf(w, s) \in Orphan
    BY DEF OrphanOf, Orphan, StillPending
  <2>2. [pc |-> "next", todo |-> OrphanedResets] \in ReconRun
    BY <2>1 DEF OrphanedResets, ReconRun
  <2>3. QED
    BY <1>0, <1>1, <2>2 DEF ReconStart, TypeOK, tables
<1>2. ASSUME ReconNext(p) PROVE TypeOK'
  <2>1. recon[p].todo \in SUBSET Orphan
    BY <1>2, <1>a DEF ReconNext
  <2>2. PICK o \in recon[p].todo :
          GoRecon(p, [pc |-> IF o.pending THEN "cancel" ELSE "delete",
                      todo |-> recon[p].todo \ {o}, orphan |-> o])
    BY <1>2 DEF ReconNext
  <2>3. [pc |-> IF o.pending THEN "cancel" ELSE "delete",
         todo |-> recon[p].todo \ {o}, orphan |-> o] \in ReconRun
    BY <2>1 DEF ReconRun
  <2>4. recon' \in [Servers -> ReconRun \cup {Idle}]
    BY <1>0, <2>2, <2>3
  <2>5. QED
    BY <1>2, <2>4 DEF ReconNext, TypeOK, tables
<1>3. ASSUME ReconCancel(p) PROVE TypeOK'
  <2>1. recon[p] \in ReconRun /\ recon[p].pc = "cancel"
    BY <1>3, <1>a DEF ReconCancel
  <2>2. [recon[p] EXCEPT !.pc = "fallback"] \in ReconRun
    BY <2>1 DEF ReconRun
  <2>3. recon' \in [Servers -> ReconRun \cup {Idle}]
    BY <1>0, <1>3, <1>d, <2>1, <2>2 DEF ReconCancel
  <2>4. session' \in [Sessions -> SessionRow] /\ faults' \in 0..MaxFaults
    BY <1>3, SetStatusType, MaxFaultsNat DEF ReconCancel, SessionStatus, Fault, TypeOK
  <2>5. QED
    BY <1>3, <2>3, <2>4 DEF ReconCancel, TypeOK
<1>4. ASSUME ReconFallback(p) PROVE TypeOK'
  <2>1. recon' \in [Servers -> ReconRun \cup {Idle}]
    BY <1>4, <1>d DEF ReconFallback
  <2>2. session' \in [Sessions -> SessionRow] /\ faults' \in 0..MaxFaults
    BY <1>4, SetStatusType, MaxFaultsNat DEF ReconFallback, SessionStatus, Fault, TypeOK
  <2>3. QED
    BY <1>4, <2>1, <2>2 DEF ReconFallback, TypeOK
<1>5. ASSUME ReconDelete(p) PROVE TypeOK'
  <2>1. recon' \in [Servers -> ReconRun \cup {Idle}]
    BY <1>5, <1>a, <1>c DEF ReconDelete
  <2>2. /\ session' \in [Sessions -> SessionRow] /\ slotRow' \in [Slots -> SlotStatus]
        /\ faults' \in 0..MaxFaults
    BY <1>5, <1>b, DeleteSlotType, MaxFaultsNat DEF ReconDelete, Fault, TypeOK
  <2>3. QED
    BY <1>5, <2>1, <2>2 DEF ReconDelete, TypeOK
<1>6. QED
  BY <1>1, <1>2, <1>3, <1>4, <1>5 DEF ReconStep

LEMMA RestType ==
  ASSUME TypeOK,
         Timetable \/ (\E x \in Sessions : SessionMove(x)) \/ \E p \in Servers : Crash(p)
  PROVE  TypeOK'
<1>1. ASSUME NEW s \in Slots, TimetableCreate(s) PROVE TypeOK'
  <2>1. \A w \in Weeks : [slot |-> s, week |-> w, status |-> "scheduled"] \in SessionRow
    BY DEF SessionRow, SessionStatus
  <2>2. session' \in [Sessions -> SessionRow]
    BY <1>1, <2>1 DEF TimetableCreate, TypeOK, Sessions
  <2>3. QED
    BY <1>1, <2>2 DEF TimetableCreate, TypeOK, SlotStatus
<1>2. ASSUME NEW s \in Slots, NEW d \in Today, TimetableRemove(s, d) PROVE TypeOK'
  <2>1. session' \in [Sessions -> SessionRow]
    BY <1>2 DEF TimetableRemove, TypeOK, SessionRow, SessionStatus
  <2>2. QED
    BY <1>2, <2>1 DEF TimetableRemove, TypeOK, SlotStatus
<1>3. ASSUME NEW x \in Sessions, SessionMove(x) PROVE TypeOK'
  <2>1. PICK m \in SessionMoves : session' = SetStatus({x}, m[2])
    BY <1>3 DEF SessionMove
  <2>2. m[2] \in SessionStatus
    BY DEF SessionMoves, SessionStatus
  <2>3. session' \in [Sessions -> SessionRow]
    BY <2>1, <2>2, SetStatusType DEF TypeOK
  <2>4. QED
    BY <1>3, <2>3 DEF SessionMove, TypeOK
<1>4. ASSUME NEW p \in Servers, Crash(p) PROVE TypeOK'
  <2>1. /\ trigger' \in [Triggers -> TriggerRun \cup {Idle}]
        /\ call' \in [Calls -> CallRun \cup {Idle}]
    BY <1>4 DEF Crash, TypeOK
  <2>2. /\ reset' \in [Servers -> ResetRun \cup {Idle}]
        /\ recon' \in [Servers -> ReconRun \cup {Idle}]
    BY <1>4 DEF Crash, GoReset, GoRecon, TypeOK
  <2>3. QED
    BY <1>4, <2>1, <2>2, MaxFaultsNat DEF Crash, Fault, TypeOK, tables
<1>5. QED
  BY <1>1, <1>2, <1>3, <1>4 DEF Timetable

LEMMA NextType == TypeOK /\ [Next]_vars => TypeOK'
<1> SUFFICES ASSUME TypeOK, [Next]_vars PROVE TypeOK'
  OBVIOUS
<1>1. CASE Next
  BY <1>1, TriggerType, CallType, ResetType, ReconType, RestType DEF Next
<1>2. CASE UNCHANGED vars
  BY <1>2 DEF vars, TypeOK
<1>3. QED
  BY <1>1, <1>2

(* Type correctness: no statement of the promotion, of its jobs or of the  *)
(* code it shares rows with writes a status outside the tables' enums or a  *)
(* local state its handler does not know.                                   *)
THEOREM TypeCorrect == Spec => []TypeOK
BY InitType, NextType, PTL DEF Spec

-----------------------------------------------------------------------------
(* The invariant.  Rows of the two promotion tables are never deleted, so   *)
(* what a process knows of them stays known; and outside TriggerInsert and  *)
(* TriggerTransition a step neither inserts a slot promotion nor makes a    *)
(* session wait.                                                            *)

RowsKept ==
  /\ \A w \in Weeks : cycle[w] # "none" => cycle'[w] # "none"
  /\ \A w \in Weeks, s \in Slots : promo[w][s] # "none" => promo'[w][s] # "none"

NoNewPromo ==
  \A w \in Weeks, s \in Slots : promo'[w][s] # "none" => promo[w][s] # "none"

NoNewPending ==
  \A x \in Sessions : session'[x].status = "pending_confirmation" =>
    /\ session[x].status = "pending_confirmation"
    /\ session'[x].week = session[x].week
    /\ session'[x].slot \in {session[x].slot, NoSlot}

LEMMA TablesStep ==
  ASSUME IInv, RowsKept, NoNewPromo, NoNewPending
  PROVE  PendingHasPromotion' /\ PromoHasCycle'
<1>1. PromoHasCycle'
  BY DEF IInv, RowsKept, NoNewPromo, PromoHasCycle
<1>2. ASSUME NEW x \in Sessions,
             session'[x].status = "pending_confirmation", session'[x].slot # NoSlot
      PROVE  /\ cycle'[session'[x].week] # "none"
             /\ promo'[session'[x].week][session'[x].slot] # "none"
  <2>1. /\ session[x].status = "pending_confirmation"
        /\ session'[x].week = session[x].week /\ session'[x].slot = session[x].slot
    BY <1>2 DEF NoNewPending
  <2>2. session[x].week \in Weeks /\ session[x].slot \in Slots
    BY <1>2, <2>1 DEF IInv, TypeOK, SessionRow
  <2>3. /\ cycle[session[x].week] # "none"
        /\ promo[session[x].week][session[x].slot] # "none"
    BY <1>2, <2>1 DEF IInv, PendingHasPromotion
  <2>4. QED
    BY <2>1, <2>2, <2>3 DEF RowsKept
<1>3. QED
  BY <1>1, <1>2 DEF PendingHasPromotion

LEMMA TriggersStep ==
  ASSUME IInv, RowsKept, UNCHANGED trigger
  PROVE  TriggersKnow'
<1>1. ASSUME NEW t \in Triggers, trigger[t].pc \notin {"idle", "create"}
      PROVE  trigger[t].week \in Weeks /\ trigger[t].eligible \in SUBSET Slots
  BY <1>1, TriggerRunning DEF IInv, TriggerRun
<1>2. QED
  BY <1>1 DEF IInv, RowsKept, TriggersKnow

LEMMA CallsStep ==
  ASSUME IInv, RowsKept, UNCHANGED call
  PROVE  CallsKnow'
<1>1. ASSUME NEW c \in Calls, call[c] # Idle
      PROVE  call[c].week \in Weeks /\ call[c].slot \in Slots
  BY <1>1 DEF IInv, TypeOK, CallRun
<1>2. QED
  BY <1>1 DEF IInv, RowsKept, CallsKnow

(* The runs of the reset job.  A step of one leaves what the others hold,   *)
(* and closes only what it holds itself.                                    *)

LEMMA HeldFields ==
  ASSUME TypeOK, NEW p \in Servers
  PROVE  /\ reset[p].pc = "idle" => reset[p] = Idle
         /\ reset[p] = Idle => Held(p) = {}
         /\ reset[p].pc = "next" => reset[p] # Idle /\ Held(p) = reset[p].cycles
         /\ reset[p].pc \notin {"idle", "next"} =>
              /\ reset[p] # Idle
              /\ Held(p) = reset[p].cycles \cup {reset[p].week}
              /\ reset[p].week \in Weeks /\ reset[p].todo \in SUBSET Slots
<1>1. reset[p].pc \notin {"idle", "next"} =>
        /\ reset[p].cycles \in SUBSET Weeks /\ reset[p].week \in Weeks
        /\ reset[p].todo \in SUBSET Slots
  BY ResetRunning DEF ResetRun
<1>2. reset[p].pc = "next" => reset[p].cycles \in SUBSET Weeks
  BY ResetRunning DEF ResetRun
<1>3. reset[p].pc = "idle" => reset[p] = Idle
  BY DEF TypeOK, ResetRun
<1>4. QED
  BY <1>1, <1>2, <1>3 DEF Held, Idle

LEMMA ResetIdleStep ==
  ASSUME IInv, RowsKept, UNCHANGED <<reset, contested>>,
         \A w \in Weeks : cycle[w] = "active" => cycle'[w] = "active"
  PROVE  ResetKnows'
<1>1. \A p \in Servers : Held(p)' = Held(p) /\ HeldElsewhere(p)' = HeldElsewhere(p)
  BY DEF Held, HeldElsewhere
<1>2. ASSUME NEW p \in Servers, reset[p].pc \notin {"idle", "next"}
      PROVE  reset[p].week \in Weeks /\ reset[p].todo \in SUBSET Slots
  BY <1>2, HeldFields DEF IInv
<1>3. \A p \in Servers : Held(p) \subseteq Weeks
  BY DEF Held
<1>4. QED
  BY <1>1, <1>2, <1>3 DEF IInv, RowsKept, ResetKnows

LEMMA ResetKnowsStep ==
  ASSUME IInv, RowsKept, UNCHANGED contested, NEW p \in Servers,
         \A q \in Servers : q # p => reset'[q] = reset[q],
         Held(p)' \subseteq Held(p),
         \A w \in Weeks : cycle[w] = "active" =>
           cycle'[w] = "active" \/ (w \in Held(p) /\ w \notin Held(p)'),
         reset'[p].pc \notin {"idle", "next"} =>
           /\ reset'[p].week \notin reset'[p].cycles
           /\ \A s \in reset'[p].todo : promo'[reset'[p].week][s] # "none"
  PROVE  ResetKnows'
<1>1. \A q \in Servers : q # p => Held(q)' = Held(q)
  BY DEF Held
<1>2. \A q \in Servers : HeldElsewhere(q)' \subseteq HeldElsewhere(q)
  BY <1>1 DEF HeldElsewhere
<1>3. ASSUME NEW q \in Servers, NEW w \in Held(q)'
      PROVE  /\ cycle'[w] # "none"
             /\ w \notin contested => cycle'[w] = "active" /\ w \notin HeldElsewhere(q)'
  <2>1. w \in Weeks /\ w \in Held(q)
    BY <1>1, <1>3 DEF Held
  <2>2. /\ cycle[w] # "none"
        /\ w \notin contested => cycle[w] = "active" /\ w \notin HeldElsewhere(q)
    BY <2>1 DEF IInv, ResetKnows
  <2>3. w \in Held(p) /\ w \notin HeldElsewhere(q) => q = p
    BY <2>1 DEF HeldElsewhere
  <2>4. QED
    BY <1>2, <1>3, <2>1, <2>2, <2>3 DEF RowsKept
<1>4. ASSUME NEW q \in Servers, reset'[q].pc \notin {"idle", "next"}
      PROVE  /\ reset'[q].week \notin reset'[q].cycles
             /\ \A s \in reset'[q].todo : promo'[reset'[q].week][s] # "none"
  <2>1. CASE q = p
    BY <1>4, <2>1
  <2>2. CASE q # p
    <3>1. reset'[q] = reset[q]
      BY <2>2
    <3>2. reset[q].week \in Weeks /\ reset[q].todo \in SUBSET Slots
      BY <1>4, <3>1, HeldFields DEF IInv
    <3>3. QED
      BY <1>4, <3>1, <3>2 DEF IInv, ResetKnows, RowsKept
  <2>3. QED
    BY <2>1, <2>2
<1>5. QED
  BY <1>3, <1>4 DEF ResetKnows

(* A step that leaves both promotion tables alone and makes no session wait *)
(* keeps whatever does not mention the processes it moves.                  *)
LEMMA SameTables ==
  ASSUME UNCHANGED <<cycle, promo>>
  PROVE  RowsKept /\ NoNewPromo
BY DEF RowsKept, NoNewPromo

LEMMA SameSessions ==
  ASSUME UNCHANGED session
  PROVE  NoNewPending
BY DEF NoNewPending

LEMMA SetStatusNoNewPending ==
  ASSUME NEW X, NEW status, status # "pending_confirmation",
         session \in [Sessions -> SessionRow], session' = SetStatus(X, status)
  PROVE  NoNewPending
BY DEF SetStatus, NoNewPending, SessionRow

LEMMA DeleteSlotNoNewPending ==
  ASSUME NEW s, session \in [Sessions -> SessionRow], DeleteSlotRecord(s)
  PROVE  NoNewPending
BY DEF DeleteSlotRecord, UnlinkSlot, NoNewPending, SessionRow

(* A step of the promotion does not touch rows that are absent, and no row  *)
(* is unborn again.                                                         *)

AbsentKept ==
  /\ \A x \in Sessions : session[x].status = "absent" => session'[x].status = "absent"
  /\ \A s \in Slots : slotRow'[s] = "unborn" => slotRow[s] = "unborn"

LEMMA UnbornStep ==
  ASSUME IInv, AbsentKept
  PROVE  UnbornHasNone'
BY DEF IInv, AbsentKept, UnbornHasNone, Sessions

LEMMA SetStatusAbsentKept ==
  ASSUME NEW X, NEW status, \A x \in X : session[x].status # "absent",
         session \in [Sessions -> SessionRow], session' = SetStatus(X, status),
         UNCHANGED slotRow
  PROVE  AbsentKept
BY DEF SetStatus, AbsentKept, SessionRow

LEMMA DeleteSlotAbsentKept ==
  ASSUME NEW s, session \in [Sessions -> SessionRow],
         slotRow \in [Slots -> SlotStatus], DeleteSlotRecord(s)
  PROVE  AbsentKept
BY DEF DeleteSlotRecord, UnlinkSlot, AbsentKept, SessionRow

LEMMA NextUnborn == IInv /\ Next => UnbornHasNone'
<1> SUFFICES ASSUME IInv, Next PROVE UnbornHasNone'
  OBVIOUS
<1>0. session \in [Sessions -> SessionRow] /\ slotRow \in [Slots -> SlotStatus]
  BY DEF IInv, TypeOK
<1>1. CASE UNCHANGED <<session, slotRow>>
  BY <1>1, UnbornStep DEF AbsentKept
<1>2. ASSUME NEW t \in Triggers, TriggerTransition(t) PROVE UnbornHasNone'
  BY <1>0, <1>2, SetStatusAbsentKept, UnbornStep DEF TriggerTransition, PromotableSessions
<1>3. ASSUME NEW c \in Calls, CallReschedule(c) \/ CallCancel(c) PROVE UnbornHasNone'
  <2>1. CASE CallReschedule(c)
    BY <1>0, <2>1, UnbornStep DEF CallReschedule, Rescheduled, AbsentKept, SessionRow
  <2>2. CASE CallCancel(c)
    BY <1>0, <2>2, UnbornStep DEF CallCancel, AbsentKept, SessionRow
  <2>3. QED
    BY <1>3, <2>1, <2>2
<1>4. ASSUME NEW c \in Calls, CallRelease(c) PROVE UnbornHasNone'
  BY <1>0, <1>4, SetStatusAbsentKept, UnbornStep DEF CallRelease, ReleasableSessions
<1>5. ASSUME NEW p \in Servers, UNCHANGED slotRow,
             ResetCancel(p) \/ ReconCancel(p) \/ ReconFallback(p)
      PROVE  UnbornHasNone'
  <2>1. CASE UNCHANGED session
    BY <1>1, <1>5, <2>1
  <2>2. CASE ~UNCHANGED session
    <3>1. PICK X : /\ session' = SetStatus(X, "cancelled")
                   /\ \A x \in X : session[x].status # "absent"
      BY <1>5, <2>2 DEF ResetCancel, ReconCancel, ReconFallback, CancellableFrom
    <3>2. QED
      BY <1>0, <1>5, <3>1, SetStatusAbsentKept, UnbornStep
  <2>3. QED
    BY <2>1, <2>2
<1>6. ASSUME NEW p \in Servers, ResetDelete(p) \/ ReconDelete(p) PROVE UnbornHasNone'
  BY <1>0, <1>1, <1>6, DeleteSlotAbsentKept, UnbornStep DEF ResetDelete, ReconDelete
<1>7. ASSUME NEW s \in Slots, TimetableCreate(s) PROVE UnbornHasNone'
  <2>1. ASSUME NEW x \in Sessions, slotRow'[x[1]] = "unborn"
        PROVE  session'[x].status = "absent"
    BY <1>0, <1>7, <2>1 DEF TimetableCreate, IInv, UnbornHasNone, Sessions
  <2>2. QED
    BY <2>1 DEF UnbornHasNone
<1>8. ASSUME NEW s \in Slots, NEW d \in Today, TimetableRemove(s, d) PROVE UnbornHasNone'
  BY <1>0, <1>8, UnbornStep DEF TimetableRemove, AbsentKept, SessionRow
<1>9. ASSUME NEW x \in Sessions, SessionMove(x) PROVE UnbornHasNone'
  BY <1>0, <1>9, SetStatusAbsentKept, UnbornStep DEF SessionMove, SessionMoves
<1>10. QED
  BY <1>1, <1>2, <1>3, <1>4, <1>5, <1>6, <1>7, <1>8, <1>9
  DEF Next, TriggerStep, TriggerLookup, TriggerCreate, TriggerList, TriggerScan,
      TriggerInsert, TriggerFails, CallStep, CallAccess, CallRefused, CallAccepted,
      CallModify, CallMark, CallFails, ResetStart, ResetStep, ResetNext, ResetMark,
      ResetCancel, ResetClose, ResetFails, ReconStart, ReconStep, ReconNext, ReconCancel,
      ReconFallback, Timetable, Crash, tables

LEMMA InitInv == Init => IInv
<1> SUFFICES ASSUME Init PROVE IInv
  OBVIOUS
<1>1. TypeOK
  BY InitType
<1>2. PendingHasPromotion /\ PromoHasCycle
  BY DEF Init, PendingHasPromotion, PromoHasCycle
<1>3. TriggersKnow /\ CallsKnow /\ ResetKnows
  BY DEF Init, Idle, TriggersKnow, CallsKnow, ResetKnows, Held
<1>4. UnbornHasNone
  BY DEF Init, UnbornHasNone
<1>5. QED
  BY <1>1, <1>2, <1>3, <1>4 DEF IInv

LEMMA TriggerInv ==
  ASSUME IInv, NEW t \in Triggers,
         (\E w \in Weeks : TriggerLookup(t, w)) \/ TriggerStep(t) \/ TriggerFails(t)
  PROVE  IInv'
<1>0. TypeOK' /\ UnbornHasNone' /\ trigger \in [Triggers -> TriggerRun \cup {Idle}]
  BY TriggerType, NextUnborn DEF IInv, TypeOK, Next
<1>a. ASSUME trigger[t].pc # "idle"
      PROVE  /\ trigger[t] \in TriggerRun /\ trigger[t].week \in Weeks
             /\ trigger[t].eligible \in SUBSET Slots
  BY <1>a, TriggerRunning DEF IInv, TriggerRun
<1>b. UNCHANGED <<call, reset, contested>>
  BY DEF TriggerStep, TriggerLookup, TriggerCreate, TriggerList, TriggerScan,
         TriggerInsert, TriggerTransition, TriggerFails
<1>c. ASSUME RowsKept, NEW state, GoTrigger(t, state),
             state.pc \notin {"idle", "create"} =>
               /\ state.week \in Weeks
               /\ cycle'[state.week] # "none"
               /\ state.pc = "transition" =>
                    \A s \in state.eligible : promo'[state.week][s] # "none"
      PROVE  TriggersKnow'
  <2>1. ASSUME NEW u \in Triggers, u # t, trigger[u].pc \notin {"idle", "create"}
        PROVE  trigger[u].week \in Weeks /\ trigger[u].eligible \in SUBSET Slots
    BY <2>1, TriggerRunning DEF IInv, TriggerRun
  <2>2. QED
    BY <1>0, <1>c, <2>1 DEF GoTrigger, IInv, TriggersKnow, RowsKept
<1>d. ASSUME RowsKept, \A w \in Weeks : cycle[w] = "active" => cycle'[w] = "active"
      PROVE  CallsKnow' /\ ResetKnows'
  BY <1>b, <1>d, CallsStep, ResetIdleStep
<1>1. ASSUME NEW w \in Weeks, TriggerLookup(t, w) PROVE IInv'
  <2>1. UNCHANGED <<cycle, promo, session>>
    BY <1>1 DEF TriggerLookup, tables
  <2>2. TriggersKnow'
    BY <1>1, <1>c, <2>1, SameTables DEF TriggerLookup
  <2>3. QED
    BY <1>0, <1>d, <2>1, <2>2, SameTables, SameSessions, TablesStep DEF IInv
<1>2. ASSUME TriggerCreate(t) PROVE IInv'
  <2>1. /\ RowsKept /\ NoNewPromo /\ NoNewPending
        /\ \A w \in Weeks : cycle[w] = "active" => cycle'[w] = "active"
    BY <1>2 DEF TriggerCreate, RowsKept, NoNewPromo, NoNewPending, IInv, TypeOK
  <2>2. TriggersKnow'
    <3>1. trigger[t] \in TriggerRun /\ trigger[t].week \in Weeks
      BY <1>2, <1>a DEF TriggerCreate
    <3>2. CASE cycle[trigger[t].week] = "none"
      <4>1. cycle'[trigger[t].week] # "none"
        BY <1>2, <3>1, <3>2 DEF TriggerCreate, IInv, TypeOK
      <4>2. GoTrigger(t, [trigger[t] EXCEPT !.pc = "list"])
        BY <1>2, <3>2 DEF TriggerCreate
      <4>3. QED
        BY <1>c, <2>1, <3>1, <4>1, <4>2 DEF TriggerRun
    <3>3. CASE cycle[trigger[t].week] # "none"
      BY <1>2, <1>c, <2>1, <3>3 DEF TriggerCreate, Idle
    <3>4. QED
      BY <3>2, <3>3
  <2>3. QED
    BY <1>0, <1>d, <2>1, <2>2, TablesStep DEF IInv
<1>3. ASSUME TriggerList(t) \/ TriggerScan(t) PROVE IInv'
  <2>1. UNCHANGED <<cycle, promo, session>>
    BY <1>3 DEF TriggerList, TriggerScan, tables
  <2>2. PICK todo, eligible : GoTrigger(t, ScanState(t, todo, eligible))
    BY <1>3 DEF TriggerList, TriggerScan
  <2>3. trigger[t] \in TriggerRun /\ trigger[t].week \in Weeks /\ cycle[trigger[t].week] # "none"
    BY <1>3, <1>a DEF TriggerList, TriggerScan, IInv, TriggersKnow
  <2>4. /\ ScanState(t, todo, eligible).pc \in {"idle", "scan", "insert"}
        /\ ScanState(t, todo, eligible).pc # "idle" =>
             ScanState(t, todo, eligible).week = trigger[t].week
    BY <2>3 DEF ScanState, AfterScan, Idle, TriggerRun
  <2>5. TriggersKnow'
    BY <1>c, <2>1, <2>2, <2>3, <2>4, SameTables
  <2>6. QED
    BY <1>0, <1>d, <2>1, <2>5, SameTables, SameSessions, TablesStep DEF IInv
<1>4. ASSUME TriggerInsert(t) PROVE IInv'
  <2>1. /\ trigger[t] \in TriggerRun /\ trigger[t].week \in Weeks
        /\ trigger[t].eligible \in SUBSET Slots /\ cycle[trigger[t].week] # "none"
    BY <1>4, <1>a DEF TriggerInsert, IInv, TriggersKnow
  <2>2. UNCHANGED <<cycle, session>>
    BY <1>4 DEF TriggerInsert
  <2>3. /\ \A w \in Weeks, s \in Slots : w # trigger[t].week => promo'[w][s] = promo[w][s]
        /\ \A s \in Slots : promo[trigger[t].week][s] # "none" =>
             promo'[trigger[t].week][s] # "none"
        /\ \A s \in trigger[t].eligible : promo'[trigger[t].week][s] # "none"
    BY <1>4, <2>1 DEF TriggerInsert, IInv, TypeOK
  <2>4. RowsKept
    BY <2>2, <2>3 DEF RowsKept
  <2>5. PromoHasCycle'
    BY <2>1, <2>2, <2>3 DEF IInv, PromoHasCycle
  <2>6. PendingHasPromotion'
    <3>1. SUFFICES ASSUME NEW x \in Sessions, session[x].status = "pending_confirmation",
                          session[x].slot # NoSlot
                   PROVE  /\ cycle'[session[x].week] # "none"
                          /\ promo'[session[x].week][session[x].slot] # "none"
      BY <2>2 DEF PendingHasPromotion
    <3>2. session[x].week \in Weeks /\ session[x].slot \in Slots
      BY <3>1 DEF IInv, TypeOK, SessionRow
    <3>3. QED
      BY <2>4, <3>1, <3>2 DEF IInv, PendingHasPromotion, RowsKept
  <2>7. TriggersKnow'
    <3>1. GoTrigger(t, [trigger[t] EXCEPT !.pc = "transition"])
      BY <1>4 DEF TriggerInsert
    <3>2. QED
      BY <1>c, <2>1, <2>2, <2>3, <2>4, <3>1 DEF TriggerRun
  <2>8. QED
    BY <1>0, <1>d, <2>2, <2>4, <2>5, <2>6, <2>7 DEF IInv
<1>5. ASSUME TriggerTransition(t) PROVE IInv'
  <2>1. /\ trigger[t].week \in Weeks /\ cycle[trigger[t].week] # "none"
        /\ \A s \in trigger[t].eligible : promo[trigger[t].week][s] # "none"
    BY <1>5, <1>a DEF TriggerTransition, IInv, TriggersKnow
  <2>2. UNCHANGED <<cycle, promo>>
    BY <1>5 DEF TriggerTransition
  <2>3. PendingHasPromotion'
    <3>1. SUFFICES ASSUME NEW x \in Sessions,
                          session'[x].status = "pending_confirmation",
                          session'[x].slot # NoSlot
                   PROVE  /\ cycle[session'[x].week] # "none"
                          /\ promo[session'[x].week][session'[x].slot] # "none"
      BY <2>2 DEF PendingHasPromotion
    <3>2. CASE x \in PromotableSessions(trigger[t].eligible, trigger[t].week)
      <4>1. session'[x].week = trigger[t].week /\ session'[x].slot \in trigger[t].eligible
        BY <1>5, <3>2 DEF TriggerTransition, SetStatus, PromotableSessions, IInv, TypeOK,
                          SessionRow
      <4>2. QED
        BY <2>1, <4>1
    <3>3. CASE x \notin PromotableSessions(trigger[t].eligible, trigger[t].week)
      <4>1. session'[x] = session[x]
        BY <1>5, <3>3 DEF TriggerTransition, SetStatus
      <4>2. QED
        BY <3>1, <4>1 DEF IInv, PendingHasPromotion
    <3>4. QED
      BY <3>2, <3>3
  <2>4. PromoHasCycle'
    BY <2>2 DEF IInv, PromoHasCycle
  <2>5. TriggersKnow'
    BY <1>5, <1>c, <2>2, SameTables DEF TriggerTransition, Idle
  <2>6. QED
    BY <1>0, <1>d, <2>2, <2>3, <2>4, <2>5, SameTables DEF IInv
<1>6. ASSUME TriggerFails(t) PROVE IInv'
  <2>1. UNCHANGED <<cycle, promo, session>>
    BY <1>6 DEF TriggerFails, tables
  <2>2. TriggersKnow'
    BY <1>6, <1>c, <2>1, SameTables DEF TriggerFails, Idle
  <2>3. QED
    BY <1>0, <1>d, <2>1, <2>2, SameTables, SameSessions, TablesStep DEF IInv
<1>7. QED
  BY <1>1, <1>2, <1>3, <1>4, <1>5, <1>6 DEF TriggerStep

LEMMA CallInv ==
  ASSUME IInv, NEW c \in Calls,
         \/ \E kind \in Kinds, w \in Weeks, s \in Slots : CallAccess(c, kind, w, s)
         \/ CallStep(c) \/ CallFails(c)
  PROVE  IInv'
<1>0. TypeOK' /\ UnbornHasNone' /\ call \in [Calls -> CallRun \cup {Idle}]
  BY CallType, NextUnborn DEF IInv, TypeOK, Next
<1>a. ASSUME call[c].pc # "idle"
      PROVE  /\ call[c] \in CallRun /\ call[c].week \in Weeks /\ call[c].slot \in Slots
             /\ promo[call[c].week][call[c].slot] # "none"
  BY <1>a, CallRunning DEF IInv, CallsKnow, Idle, CallRun
<1>b. UNCHANGED <<cycle, trigger, reset, contested>>
  BY DEF CallStep, CallAccess, CallRefused, CallAccepted, CallModify, CallReschedule,
         CallCancel, CallMark, CallRelease, CallFails, tables
<1>c. ASSUME RowsKept, NEW state, GoCall(c, state),
             state # Idle => /\ state.week \in Weeks /\ state.slot \in Slots
                             /\ promo[state.week][state.slot] # "none"
      PROVE  CallsKnow'
  <2>1. ASSUME NEW d \in Calls, d # c, call[d] # Idle
        PROVE  call[d].week \in Weeks /\ call[d].slot \in Slots
    BY <1>0, <2>1 DEF CallRun
  <2>2. QED
    BY <1>0, <1>c, <2>1 DEF GoCall, IInv, CallsKnow, RowsKept
<1>d. ASSUME RowsKept, NoNewPromo, NoNewPending, CallsKnow'
      PROVE  IInv'
  BY <1>0, <1>b, <1>d, TablesStep, TriggersStep, ResetIdleStep DEF IInv
<1>1. ASSUME NEW kind \in Kinds, NEW w \in Weeks, NEW s \in Slots,
             CallAccess(c, kind, w, s)
      PROVE  IInv'
  <2>1. UNCHANGED <<cycle, promo, session>>
    BY <1>1 DEF CallAccess, tables
  <2>2. CallsKnow'
    BY <1>1, <1>c, <2>1, SameTables DEF CallAccess
  <2>3. QED
    BY <1>d, <2>1, <2>2, SameTables, SameSessions
<1>2. ASSUME CallRefused(c) \/ CallFails(c) PROVE IInv'
  <2>1. UNCHANGED <<cycle, promo, session>>
    BY <1>2 DEF CallRefused, CallFails, tables
  <2>2. CallsKnow'
    BY <1>2, <1>c, <2>1, SameTables DEF CallRefused, CallFails
  <2>3. QED
    BY <1>d, <2>1, <2>2, SameTables, SameSessions
<1>3. ASSUME CallAccepted(c) \/ CallModify(c) PROVE IInv'
  <2>1. UNCHANGED <<cycle, promo, session>>
    BY <1>3 DEF CallAccepted, CallModify, tables
  <2>2. call[c].pc # "idle"
    BY <1>3 DEF CallAccepted, CallModify
  <2>3. CallsKnow'
    <3>1. CASE CallAccepted(c)
      BY <1>a, <1>c, <2>1, <2>2, <3>1, SameTables DEF CallAccepted, Marking
    <3>2. CASE CallModify(c)
      BY <1>a, <1>c, <2>1, <2>2, <3>2, SameTables DEF CallModify, Marking
    <3>3. QED
      BY <1>3, <3>1, <3>2
  <2>4. QED
    BY <1>d, <2>1, <2>3, SameTables, SameSessions
<1>4. ASSUME CallReschedule(c) \/ CallCancel(c) PROVE IInv'
  <2>1. UNCHANGED <<cycle, promo>> /\ call[c].pc # "idle"
    BY <1>4 DEF CallReschedule, CallCancel
  <2>2. NoNewPending
    <3>0. session \in [Sessions -> SessionRow]
      BY DEF IInv, TypeOK
    <3>1. CASE CallReschedule(c)
      BY <3>0, <3>1 DEF CallReschedule, Rescheduled, NoNewPending, SessionRow
    <3>2. CASE CallCancel(c)
      BY <3>0, <3>2 DEF CallCancel, NoNewPending, SessionRow
    <3>3. QED
      BY <1>4, <3>1, <3>2
  <2>3. CallsKnow'
    BY <1>4, <1>a, <1>c, <2>1, SameTables
    DEF CallReschedule, CallCancel, AfterSessionEdit, Marking, Releasing
  <2>4. QED
    BY <1>d, <2>1, <2>2, <2>3, SameTables
<1>5. ASSUME CallMark(c) PROVE IInv'
  <2>1. /\ call[c] \in CallRun /\ call[c].week \in Weeks /\ call[c].slot \in Slots
        /\ promo[call[c].week][call[c].slot] # "none"
        /\ call[c].status \in {"confirmed", "modified"}
    BY <1>5, <1>a DEF CallMark, CallRun
  <2>2. RowsKept /\ NoNewPromo
    BY <1>5, <2>1 DEF CallMark, RowsKept, NoNewPromo, IInv, TypeOK
  <2>3. NoNewPending
    BY <1>5, SameSessions DEF CallMark
  <2>4. CallsKnow'
    BY <1>5, <1>c, <2>1, <2>2 DEF CallMark, Releasing
  <2>5. QED
    BY <1>d, <2>2, <2>3, <2>4
<1>6. ASSUME CallRelease(c) PROVE IInv'
  <2>1. UNCHANGED <<cycle, promo>>
    BY <1>6 DEF CallRelease
  <2>2. NoNewPending
    BY <1>6, SetStatusNoNewPending DEF CallRelease, IInv, TypeOK
  <2>3. CallsKnow'
    BY <1>6, <1>c, <2>1, SameTables DEF CallRelease
  <2>4. QED
    BY <1>d, <2>1, <2>2, <2>3, SameTables
<1>7. QED
  BY <1>1, <1>2, <1>3, <1>4, <1>5, <1>6 DEF CallStep

(* What a run holds can be read off its local state, before a step and      *)
(* after it.                                                                *)
HeldIs ==
  \A p \in Servers :
    /\ reset[p] = Idle => Held(p) = {}
    /\ reset[p].pc = "next" => Held(p) = reset[p].cycles
    /\ reset[p].pc \notin {"idle", "next"} =>
         Held(p) = reset[p].cycles \cup {reset[p].week}

LEMMA HeldFieldsNow == TypeOK => HeldIs
  BY HeldFields DEF HeldIs

LEMMA HeldFieldsNext == TypeOK' => HeldIs'
  BY HeldFieldsNow, PTL

LEMMA ResetInv ==
  ASSUME IInv, NEW p \in Servers, ResetStart(p) \/ ResetStep(p) \/ ResetFails(p)
  PROVE  IInv'
<1>0. /\ TypeOK /\ TypeOK' /\ UnbornHasNone' /\ session \in [Sessions -> SessionRow]
      /\ reset \in [Servers -> ResetRun \cup {Idle}]
  BY ResetType, NextUnborn DEF IInv, TypeOK, Next
<1>b. UNCHANGED <<trigger, call>>
  BY DEF ResetStart, ResetStep, ResetNext, ResetMark, ResetCancel, ResetDelete,
         ResetClose, ResetFails
<1>c. ASSUME RowsKept, NoNewPromo, NoNewPending, ResetKnows'
      PROVE  IInv'
  BY <1>0, <1>b, <1>c, TablesStep, TriggersStep, CallsStep DEF IInv
<1>d. ASSUME NEW state, GoReset(p, state)
      PROVE  reset'[p] = state /\ \A q \in Servers : q # p => reset'[q] = reset[q]
  BY <1>0, <1>d DEF GoReset
<1>e. /\ reset[p].pc \in {"mark", "cancel", "delete", "close"} =>
           /\ reset[p].week \in Weeks /\ reset[p].todo \in SUBSET Slots
           /\ Held(p) = reset[p].cycles \cup {reset[p].week}
           /\ reset[p].week \notin reset[p].cycles
           /\ \A s \in reset[p].todo : promo[reset[p].week][s] # "none"
  BY <1>0, HeldFields DEF IInv, ResetKnows
<1>f. /\ reset'[p] = Idle => Held(p)' = {}
      /\ reset'[p].pc = "next" => Held(p)' = reset'[p].cycles
      /\ reset'[p].pc \notin {"idle", "next"} => Held(p)' = reset'[p].cycles \cup {reset'[p].week}
  BY <1>0, HeldFieldsNext DEF HeldIs
<1>1. ASSUME ResetStart(p) PROVE IInv'
  <2>1. UNCHANGED <<cycle, promo, session>>
    BY <1>1 DEF ResetStart, tables
  <2>2. /\ reset'[p] = [pc |-> "next", cycles |-> ActiveCycles]
        /\ \A q \in Servers : q # p => reset'[q] = reset[q]
    BY <1>1, <1>d DEF ResetStart
  <2>3. /\ Held(p)' = ActiveCycles
        /\ \A q \in Servers : q # p => Held(q)' = Held(q)
    BY <1>f, <2>2 DEF Held
  <2>4. contested' = contested \cup (ActiveCycles \cap HeldElsewhere(p))
    BY <1>1 DEF ResetStart
  <2>5. ASSUME NEW q \in Servers, NEW w \in Held(q)'
        PROVE  /\ cycle'[w] # "none"
               /\ w \notin contested' => cycle'[w] = "active" /\ w \notin HeldElsewhere(q)'
    <3>0. w \in Weeks
      BY <2>5 DEF Held
    <3>1. CASE q = p
      <4>1. cycle[w] = "active" /\ w \in ActiveCycles
        BY <2>3, <2>5, <3>1 DEF ActiveCycles
      <4>2. w \notin contested' => w \notin HeldElsewhere(p)
        BY <2>4, <4>1
      <4>3. HeldElsewhere(p)' = HeldElsewhere(p)
        BY <2>3 DEF HeldElsewhere
      <4>4. QED
        BY <2>1, <3>1, <4>1, <4>2, <4>3
    <3>2. CASE q # p
      <4>1. w \in Held(q)
        BY <2>3, <2>5, <3>2
      <4>2. /\ cycle[w] # "none"
            /\ w \notin contested => cycle[w] = "active" /\ w \notin HeldElsewhere(q)
        BY <4>1 DEF IInv, ResetKnows
      <4>3. w \notin contested' => w \notin contested /\ w \notin ActiveCycles
        BY <2>4, <3>0, <3>2, <4>1 DEF HeldElsewhere
      <4>4. w \notin contested' => w \notin HeldElsewhere(q)'
        BY <2>3, <4>2, <4>3 DEF HeldElsewhere
      <4>5. QED
        BY <2>1, <4>2, <4>3, <4>4
    <3>3. QED
      BY <3>1, <3>2
  <2>6. ASSUME NEW q \in Servers, reset'[q].pc \notin {"idle", "next"}
        PROVE  /\ reset'[q].week \notin reset'[q].cycles
               /\ \A s \in reset'[q].todo : promo'[reset'[q].week][s] # "none"
    <3>1. q # p
      BY <2>2, <2>6
    <3>2. reset'[q] = reset[q]
      BY <2>2, <3>1
    <3>3. QED
      BY <2>1, <2>6, <3>2 DEF IInv, ResetKnows
  <2>7. ResetKnows'
    BY <2>5, <2>6 DEF ResetKnows
  <2>8. QED
    BY <1>c, <2>1, <2>7, SameTables, SameSessions
<1>2. ASSUME ResetFails(p) PROVE IInv'
  <2>1. UNCHANGED <<cycle, promo, session, contested>> /\ GoReset(p, Idle)
    BY <1>2 DEF ResetFails, tables
  <2>2. reset'[p] = Idle /\ \A q \in Servers : q # p => reset'[q] = reset[q]
    BY <1>d, <2>1
  <2>3. ResetKnows'
    BY <1>f, <2>1, <2>2, SameTables, ResetKnowsStep DEF Idle
  <2>4. QED
    BY <1>c, <2>1, <2>3, SameTables, SameSessions
<1>3. ASSUME ResetNext(p) PROVE IInv'
  <2>1. UNCHANGED <<cycle, promo, session, contested>> /\ reset[p].pc = "next"
    BY <1>3 DEF ResetNext, tables
  <2>2. PICK w \in reset[p].cycles :
          GoReset(p, [pc |-> IF PendingSlots(w) = {} THEN "close" ELSE "mark",
                      cycles |-> reset[p].cycles \ {w}, week |-> w,
                      todo |-> PendingSlots(w), hadResets |-> FALSE])
    BY <1>3 DEF ResetNext
  <2>3. /\ reset'[p].pc \in {"mark", "close"} /\ reset'[p].week = w
        /\ reset'[p].cycles = reset[p].cycles \ {w} /\ reset'[p].todo = PendingSlots(w)
        /\ \A q \in Servers : q # p => reset'[q] = reset[q]
    BY <1>d, <2>2
  <2>4. Held(p)' = Held(p)
    <3>1. Held(p)' = reset'[p].cycles \cup {reset'[p].week}
      BY <1>f, <2>3
    <3>2. Held(p) = reset[p].cycles
      BY <1>0, <2>1, HeldFields
    <3>3. QED
      BY <2>3, <3>1, <3>2
  <2>5. \A s \in PendingSlots(w) : promo[w][s] # "none"
    BY DEF PendingSlots
  <2>6. ResetKnows'
    BY <2>1, <2>3, <2>4, <2>5, SameTables, ResetKnowsStep
  <2>7. QED
    BY <1>c, <2>1, <2>6, SameTables, SameSessions
<1>4. ASSUME ResetMark(p) PROVE IInv'
  <2>0. reset[p].pc = "mark" /\ UNCHANGED <<cycle, session, contested>>
    BY <1>4 DEF ResetMark
  <2>1. PICK s \in reset[p].todo :
          /\ promo' = [promo EXCEPT ![reset[p].week][s] = "reset"]
          /\ GoReset(p, [pc |-> "cancel", cycles |-> reset[p].cycles,
                         week |-> reset[p].week, todo |-> reset[p].todo \ {s},
                         hadResets |-> reset[p].hadResets, slot |-> s])
    BY <1>4 DEF ResetMark
  <2>2. RowsKept /\ NoNewPromo
    BY <1>e, <2>0, <2>1 DEF RowsKept, NoNewPromo, IInv, TypeOK
  <2>3. /\ reset'[p].pc = "cancel" /\ reset'[p].week = reset[p].week
        /\ reset'[p].cycles = reset[p].cycles /\ reset'[p].todo = reset[p].todo \ {s}
        /\ \A q \in Servers : q # p => reset'[q] = reset[q]
    BY <1>d, <2>1
  <2>4. Held(p)' = Held(p)
    BY <1>e, <1>f, <2>0, <2>3
  <2>5. \A r \in reset'[p].todo : promo'[reset'[p].week][r] # "none"
    BY <1>e, <2>0, <2>2, <2>3 DEF RowsKept
  <2>6. ResetKnows'
    BY <1>e, <2>0, <2>2, <2>3, <2>4, <2>5, ResetKnowsStep
  <2>7. QED
    BY <1>c, <2>0, <2>2, <2>6, SameSessions
<1>5. ASSUME ResetCancel(p) \/ ResetDelete(p) PROVE IInv'
  <2>1. UNCHANGED <<cycle, promo, contested>> /\ reset[p].pc \in {"cancel", "delete"}
    BY <1>5 DEF ResetCancel, ResetDelete
  <2>2. NoNewPending
    <3>1. CASE ResetCancel(p)
      BY <1>0, <3>1, SetStatusNoNewPending, SameSessions DEF ResetCancel
    <3>2. CASE ResetDelete(p)
      BY <1>0, <3>2, DeleteSlotNoNewPending, SameSessions DEF ResetDelete
    <3>3. QED
      BY <1>5, <3>1, <3>2
  <2>3. /\ reset'[p].pc \in {"mark", "delete", "close"}
        /\ reset'[p].cycles = reset[p].cycles
        /\ reset'[p].week = reset[p].week /\ reset'[p].todo = reset[p].todo
        /\ \A q \in Servers : q # p => reset'[q] = reset[q]
    <3>1. CASE ResetCancel(p)
      <4>1. reset[p] \in ResetRun /\ reset[p].pc = "cancel"
        BY <1>0, <3>1, ResetRunning DEF ResetCancel
      <4>2. reset'[p] = [reset[p] EXCEPT !.pc = "delete"]
        BY <1>d, <3>1 DEF ResetCancel
      <4>3. QED
        BY <1>d, <3>1, <4>1, <4>2 DEF ResetCancel, ResetRun
    <3>2. CASE ResetDelete(p)
      BY <1>d, <3>2 DEF ResetDelete
    <3>3. QED
      BY <1>5, <3>1, <3>2
  <2>4. Held(p)' = Held(p)
    BY <1>e, <1>f, <2>1, <2>3
  <2>5. ResetKnows'
    BY <1>e, <2>1, <2>3, <2>4, SameTables, ResetKnowsStep
  <2>6. QED
    BY <1>c, <2>1, <2>2, <2>5, SameTables
<1>6. ASSUME ResetClose(p) PROVE IInv'
  <2>1. /\ cycle' = [cycle EXCEPT ![reset[p].week] = CloseStatus(reset[p].hadResets)]
        /\ UNCHANGED <<promo, session, contested>> /\ reset[p].pc = "close"
    BY <1>6 DEF ResetClose
  <2>2. RowsKept /\ NoNewPromo
    BY <2>1 DEF CloseStatus, RowsKept, NoNewPromo, IInv, TypeOK
  <2>3. /\ \/ reset'[p] = Idle /\ reset[p].cycles = {}
           \/ reset'[p].pc = "next" /\ reset'[p].cycles = reset[p].cycles
        /\ \A q \in Servers : q # p => reset'[q] = reset[q]
    BY <1>6, <1>d DEF ResetClose
  <2>4. Held(p)' = reset[p].cycles
    BY <1>f, <2>3
  <2>5. \A w \in Weeks : cycle[w] = "active" =>
          cycle'[w] = "active" \/ (w \in Held(p) /\ w \notin Held(p)')
    BY <1>0, <1>e, <2>1, <2>4 DEF TypeOK
  <2>6. ResetKnows'
    BY <1>e, <2>1, <2>2, <2>3, <2>4, <2>5, ResetKnowsStep DEF Idle
  <2>7. QED
    BY <1>c, <2>1, <2>2, <2>6, SameSessions
<1>7. QED
  BY <1>1, <1>2, <1>3, <1>4, <1>5, <1>6 DEF ResetStep

LEMMA ReconInv ==
  ASSUME IInv, NEW p \in Servers, ReconStart(p) \/ ReconStep(p)
  PROVE  IInv'
<1>1. UNCHANGED <<cycle, promo, trigger, call, reset, contested>>
  BY DEF ReconStart, ReconStep, ReconNext, ReconCancel, ReconFallback, ReconDelete, tables
<1>2. NoNewPending
  <2>0. session \in [Sessions -> SessionRow]
    BY DEF IInv, TypeOK
  <2>1. CASE ReconStart(p) \/ ReconNext(p)
    BY <2>1, SameSessions DEF ReconStart, ReconNext, tables
  <2>2. CASE ReconCancel(p) \/ ReconFallback(p)
    BY <2>0, <2>2, SetStatusNoNewPending, SameSessions DEF ReconCancel, ReconFallback
  <2>3. CASE ReconDelete(p)
    BY <2>0, <2>3, DeleteSlotNoNewPending, SameSessions DEF ReconDelete
  <2>4. QED
    BY <2>1, <2>2, <2>3 DEF ReconStep
<1>3. TypeOK' /\ UnbornHasNone'
  BY ReconType, NextUnborn DEF IInv, Next
<1>4. RowsKept /\ NoNewPromo
  BY <1>1, SameTables
<1>5. QED
  BY <1>1, <1>2, <1>3, <1>4, TablesStep, TriggersStep, CallsStep, ResetIdleStep DEF IInv

LEMMA CrashInv ==
  ASSUME IInv, NEW p \in Servers, Crash(p)
  PROVE  IInv'
<1>1. UNCHANGED <<cycle, promo, session, contested>>
  BY DEF Crash, tables
<1>2. RowsKept /\ NoNewPromo /\ NoNewPending
  BY <1>1, SameTables, SameSessions
<1>3. TypeOK' /\ UnbornHasNone'
  BY RestType, NextUnborn DEF IInv, Next
<1>4. TriggersKnow'
  <2>1. \A t \in Triggers : trigger'[t] = Idle \/ trigger'[t] = trigger[t]
    BY DEF Crash
  <2>2. QED
    BY <1>1, <2>1 DEF IInv, TriggersKnow, Idle
<1>5. CallsKnow'
  <2>1. \A c \in Calls : call'[c] = Idle \/ call'[c] = call[c]
    BY DEF Crash
  <2>2. QED
    BY <1>1, <2>1 DEF IInv, CallsKnow
<1>6. ResetKnows'
  <2>1. reset'[p] = Idle /\ \A q \in Servers : q # p => reset'[q] = reset[q]
    BY DEF Crash, GoReset, IInv, TypeOK
  <2>2. Held(p)' = {}
    BY <2>1 DEF Held
  <2>3. QED
    BY <1>1, <1>2, <2>1, <2>2, ResetKnowsStep DEF Idle
<1>7. QED
  BY <1>2, <1>3, <1>4, <1>5, <1>6, TablesStep DEF IInv

LEMMA RestInv ==
  ASSUME IInv, Timetable \/ \E x \in Sessions : SessionMove(x)
  PROVE  IInv'
<1>1. UNCHANGED <<cycle, promo, trigger, call, reset, contested>>
  BY DEF Timetable, TimetableCreate, TimetableRemove, SessionMove
<1>2. NoNewPending
  <2>0. session \in [Sessions -> SessionRow]
    BY DEF IInv, TypeOK
  <2>1. ASSUME NEW s \in Slots, TimetableCreate(s) PROVE NoNewPending
    BY <2>0, <2>1 DEF TimetableCreate, NoNewPending, SessionRow
  <2>2. ASSUME NEW s \in Slots, NEW d \in Today, TimetableRemove(s, d) PROVE NoNewPending
    BY <2>0, <2>2 DEF TimetableRemove, NoNewPending, SessionRow
  <2>3. ASSUME NEW x \in Sessions, SessionMove(x) PROVE NoNewPending
    BY <2>0, <2>3, SetStatusNoNewPending DEF SessionMove, SessionMoves
  <2>4. QED
    BY <2>1, <2>2, <2>3 DEF Timetable
<1>3. TypeOK' /\ UnbornHasNone'
  BY RestType, NextUnborn DEF IInv, Next
<1>4. RowsKept /\ NoNewPromo
  BY <1>1, SameTables
<1>5. QED
  BY <1>1, <1>2, <1>3, <1>4, TablesStep, TriggersStep, CallsStep, ResetIdleStep DEF IInv

LEMMA NextInv == IInv /\ [Next]_vars => IInv'
<1> SUFFICES ASSUME IInv, [Next]_vars PROVE IInv'
  OBVIOUS
<1>1. CASE Next
  BY <1>1, TriggerInv, CallInv, ResetInv, ReconInv, CrashInv, RestInv DEF Next
<1>2. CASE UNCHANGED vars
  BY <1>2 DEF vars, IInv, TypeOK, PendingHasPromotion, PromoHasCycle, TriggersKnow,
     CallsKnow, ResetKnows, Held, HeldElsewhere, UnbornHasNone
<1>3. QED
  BY <1>1, <1>2

(* The inductive invariant holds throughout.                                *)
THEOREM InvariantHolds == Spec => []IInv
BY InitInv, NextInv, PTL DEF Spec

(* Whatever overlaps, fails or dies, a session of a living slot waits for   *)
(* confirmation only in a week with a cycle that holds a slot promotion for *)
(* the slot.                                                                *)
THEOREM PendingAlwaysHasPromotion == Spec => []PendingHasPromotion
<1>1. IInv => PendingHasPromotion
  BY DEF IInv
<1>2. QED
  BY InvariantHolds, <1>1, PTL

-----------------------------------------------------------------------------
(* What no step does.                                                       *)

LEMMA NextClosedKept == IInv /\ [Next]_vars => [ClosedKept]_cycle
<1> SUFFICES ASSUME IInv, Next PROVE ClosedKept \/ UNCHANGED cycle
  BY DEF vars
<1>1. ASSUME NEW t \in Triggers, TriggerCreate(t) PROVE ClosedKept
  BY <1>1 DEF TriggerCreate, ClosedKept, Closed, IInv, TypeOK
<1>2. ASSUME NEW p \in Servers, ResetClose(p) PROVE ClosedKept
  <2>1. reset[p].week \in Held(p)
    BY <1>2, HeldFields DEF ResetClose, IInv
  <2>2. reset[p].week \notin contested => cycle[reset[p].week] = "active"
    BY <2>1 DEF IInv, ResetKnows
  <2>3. QED
    BY <1>2, <2>2 DEF ResetClose, CloseStatus, ClosedKept, Closed, IInv, TypeOK
<1>3. QED
  BY <1>1, <1>2
  DEF Next, TriggerStep, TriggerLookup, TriggerList, TriggerScan, TriggerInsert,
      TriggerTransition, TriggerFails, CallStep, CallAccess, CallRefused, CallAccepted,
      CallModify, CallReschedule, CallCancel, CallMark, CallRelease, CallFails,
      ResetStart, ResetStep, ResetNext, ResetMark, ResetCancel, ResetDelete, ResetFails,
      ReconStart, ReconStep, ReconNext, ReconCancel, ReconFallback, ReconDelete,
      Timetable, TimetableCreate, TimetableRemove, SessionMove, Crash, tables

(* A closed cycle stays closed, whatever overlaps: only triggerPromotion    *)
(* makes a cycle active, and only where there is none.  And it stays as it  *)
(* ended, because a run of the job lists only active cycles, unless two     *)
(* runs had listed it at once: the UPDATE that closes it does not look at   *)
(* the status it overwrites.                                                *)
THEOREM ClosedCyclesStayClosed == Spec => CycleFinal
<1>1. IInv /\ [Next]_vars => [ClosedKept]_cycle
  BY NextClosedKept
<1>2. QED
  BY InvariantHolds, <1>1, PTL DEF Spec, CycleFinal

LEMMA SetStatusSettledKept ==
  ASSUME NEW X, NEW status, \A x \in X : session[x].status \notin Settled,
         session \in [Sessions -> SessionRow], session' = SetStatus(X, status)
  PROVE  SettledKept
BY DEF SetStatus, SettledKept, SessionRow

LEMMA NextSettledKept == IInv /\ [Next]_vars => [SettledKept]_session
<1> SUFFICES ASSUME IInv, Next PROVE SettledKept \/ UNCHANGED session
  BY DEF vars
<1>0. session \in [Sessions -> SessionRow]
  BY DEF IInv, TypeOK
<1>1. ASSUME NEW t \in Triggers, TriggerTransition(t) PROVE SettledKept
  BY <1>0, <1>1, SetStatusSettledKept DEF TriggerTransition, PromotableSessions, Settled
<1>2. ASSUME NEW c \in Calls, CallReschedule(c) \/ CallCancel(c) PROVE SettledKept
  <2>1. CASE CallReschedule(c)
    BY <1>0, <2>1 DEF CallReschedule, Rescheduled, SettledKept, Settled, SessionRow
  <2>2. CASE CallCancel(c)
    BY <1>0, <2>2 DEF CallCancel, SettledKept, Settled, SessionRow
  <2>3. QED
    BY <1>2, <2>1, <2>2
<1>3. ASSUME NEW c \in Calls, CallRelease(c) PROVE SettledKept
  BY <1>0, <1>3, SetStatusSettledKept DEF CallRelease, ReleasableSessions, Settled
<1>4. ASSUME NEW p \in Servers, ResetCancel(p) \/ ReconCancel(p) \/ ReconFallback(p)
      PROVE  SettledKept \/ UNCHANGED session
  BY <1>0, <1>4, SetStatusSettledKept
  DEF ResetCancel, ReconCancel, ReconFallback, CancellableFrom, Settled
<1>5. ASSUME NEW s, DeleteSlotRecord(s) PROVE SettledKept
  BY <1>0, <1>5 DEF DeleteSlotRecord, UnlinkSlot, SettledKept, SessionRow
<1>6. ASSUME NEW s \in Slots, TimetableCreate(s) PROVE SettledKept
  <2>1. \A x \in Sessions : x[1] = s => session[x].status \notin Settled
    BY <1>6 DEF TimetableCreate, IInv, UnbornHasNone, Settled
  <2>2. QED
    BY <1>6, <2>1 DEF TimetableCreate, SettledKept
<1>7. ASSUME NEW s \in Slots, NEW d \in Today, TimetableRemove(s, d) PROVE SettledKept
  BY <1>0, <1>7 DEF TimetableRemove, SettledKept, Settled, SessionRow
<1>8. ASSUME NEW x \in Sessions, SessionMove(x) PROVE SettledKept
  <2>1. PICK m \in SessionMoves :
          session[x].status = m[1] /\ session' = SetStatus({x}, m[2])
    BY <1>8 DEF SessionMove
  <2>2. QED
    BY <1>0, <2>1 DEF SetStatus, SessionMoves, SettledKept, Settled, SessionRow
<1>9. ASSUME NEW p \in Servers, ResetDelete(p) \/ ReconDelete(p)
      PROVE  SettledKept \/ UNCHANGED session
  BY <1>5, <1>9 DEF ResetDelete, ReconDelete
<1>10. QED
  BY <1>1, <1>2, <1>3, <1>4, <1>6, <1>7, <1>8, <1>9
  DEF Next, TriggerStep, TriggerLookup, TriggerCreate, TriggerList, TriggerScan,
      TriggerInsert, TriggerFails, CallStep, CallAccess, CallRefused, CallAccepted,
      CallModify, CallMark, CallFails, ResetStart, ResetStep, ResetNext, ResetMark,
      ResetClose, ResetFails, ReconStart, ReconStep, ReconNext, Timetable, Crash, tables

(* No request or job of the promotion, however stale its view, takes a      *)
(* session that is live, completed or cancelled back or to another week.    *)
THEOREM SettledSessionsStay == Spec => SettledSessionsKept
<1>1. IInv /\ [Next]_vars => [SettledKept]_session
  BY NextSettledKept
<1>2. QED
  BY InvariantHolds, <1>1, PTL DEF Spec, SettledSessionsKept

=============================================================================
