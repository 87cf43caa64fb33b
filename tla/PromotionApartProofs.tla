------------------------- MODULE PromotionApartProofs -------------------------
(* Theorems about PromotionApart for every value of its constants.          *)
EXTENDS PromotionApart, PromotionProofs

-----------------------------------------------------------------------------
(* While no trigger overlaps the reset: what the two still know.            *)

Apart == ~(TriggerBusy /\ ResetBusy)

(* Nobody but the reset job closes a cycle, so the one a trigger is filling *)
(* is active.                                                               *)
TriggersOwn ==
  \A t \in Triggers :
    trigger[t].pc \notin {"idle", "create"} => cycle[trigger[t].week] = "active"

(* Nothing becomes pending behind the back of a run of the reset job.       *)
ResetTakesAll ==
  \A p \in Servers : Resetting(p) =>
    /\ PendingSlots(reset[p].week) \subseteq reset[p].todo
    /\ reset[p].pc = "close" => reset[p].todo = {}

ClosedNoPending ==
  \A w \in Weeks, s \in Slots : cycle[w] \in Closed => promo[w][s] # "pending"

(* Without a failure, only a run under way has reset a slot promotion of an *)
(* active cycle, and it remembers that it did.                              *)
ResetRemembered ==
  \A w \in Weeks, s \in Slots :
    faults = 0 /\ cycle[w] = "active" /\ promo[w][s] = "reset" =>
      \E p \in Servers : Remembers(p, w)

(* A cycle that one run alone held closes as completed without a reset.     *)
CompletedNoReset ==
  \A w \in Weeks, s \in Slots :
    cycle[w] = "completed" /\ faults = 0 /\ w \notin contested => promo[w][s] # "reset"

ApartInv ==
  /\ IInv
  /\ Apart
  /\ TriggersOwn
  /\ ResetTakesAll
  /\ ClosedNoPending
  /\ ResetRemembered
  /\ CompletedNoReset

-----------------------------------------------------------------------------
(* One at a time: what a handler read is still so when it writes.           *)

TriggerFresh ==
  \A t \in Triggers :
    /\ trigger[t].pc \in {"list", "scan", "insert"} =>
         \A s \in Slots : promo[trigger[t].week][s] = "none"
    /\ trigger[t].pc = "transition" =>
         \A s \in trigger[t].eligible : promo[trigger[t].week][s] = "pending"

Editing == {"modify", "reschedule", "cancel", "mark"}

CallFresh ==
  \A c \in Calls :
    /\ call[c].pc \in {"cycle", "reschedule", "cancel"} =>
         promo[call[c].week][call[c].slot] = call[c].seen
    /\ call[c].pc \in Editing =>
         /\ cycle[call[c].week] = "active"
         /\ promo[call[c].week][call[c].slot] \in {"pending", "confirmed", "modified"}
    /\ call[c].pc = "mark" /\ call[c].status = "confirmed" =>
         promo[call[c].week][call[c].slot] = "pending"

ResetFresh ==
  \A p \in Servers : Resetting(p) =>
    /\ reset[p].todo \subseteq PendingSlots(reset[p].week)
    /\ reset[p].pc \in {"cancel", "delete"} => promo[reset[p].week][reset[p].slot] = "reset"
    /\ reset[p].hadResets => \E s \in Slots : promo[reset[p].week][s] = "reset"

(* Somebody can answer for the slot in that week, or its sessions are about *)
(* to be released or cancelled.                                             *)
Attended(w, s) ==
  \/ cycle[w] = "active" /\ promo[w][s] = "pending"
  \/ \E c \in Calls : call[c] = Releasing(w, s)
  \/ \E p \in Servers : reset[p].pc = "cancel" /\ reset[p].week = w /\ reset[p].slot = s

WaitingAttended ==
  \A x \in Sessions :
    /\ faults = 0
    /\ session[x].status = "pending_confirmation"
    /\ session[x].slot # NoSlot
    => Attended(session[x].week, session[x].slot)

SerialInv ==
  /\ ApartInv
  /\ contested = {}
  /\ OneAtATime
  /\ TriggerFresh
  /\ CallFresh
  /\ ResetFresh
  /\ WaitingAttended

-----------------------------------------------------------------------------
(* What the records of the processes hold.                                  *)

LEMMA TriggerFields ==
  ASSUME TypeOK, NEW t \in Triggers, trigger[t].pc # "idle"
  PROVE  /\ trigger[t] \in TriggerRun
         /\ trigger[t].week \in Weeks /\ trigger[t].eligible \in SUBSET Slots
BY TriggerRunning DEF TriggerRun

LEMMA CallFields ==
  ASSUME TypeOK, NEW c \in Calls, call[c].pc # "idle"
  PROVE  /\ call[c] \in CallRun
         /\ call[c].week \in Weeks /\ call[c].slot \in Slots
         /\ call[c].pc = "mark" => call[c].status \in {"confirmed", "modified"}
BY CallRunning DEF CallRun

LEMMA ResetFields ==
  ASSUME TypeOK, NEW p \in Servers, Resetting(p)
  PROVE  /\ reset[p] \in ResetRun /\ reset[p] # Idle
         /\ reset[p].cycles \in SUBSET Weeks /\ reset[p].week \in Weeks
         /\ reset[p].todo \in SUBSET Slots /\ reset[p].hadResets \in BOOLEAN
         /\ reset[p].pc \in {"cancel", "delete"} => reset[p].slot \in Slots
         /\ Held(p) = reset[p].cycles \cup {reset[p].week}
BY ResetRunning, HeldFields DEF Resetting, ResetRun

(* A run moves its own local state only.                                    *)
LEMMA ResetMoves ==
  ASSUME TypeOK, NEW p \in Servers, NEW state, GoReset(p, state)
  PROVE  reset'[p] = state /\ \A q \in Servers : q # p => reset'[q] = reset[q]
BY DEF TypeOK, GoReset

(* An idle job resets nothing.                                              *)
LEMMA IdleNotResetting ==
  ASSUME NEW p \in Servers
  PROVE  /\ reset[p] = Idle => ~Resetting(p)
         /\ reset'[p] = Idle => ~Resetting(p)'
BY DEF Idle, Resetting

LEMMA FaultsStay == TypeOK /\ Next /\ faults' = 0 => faults = 0
<1> SUFFICES ASSUME TypeOK, Next, faults # 0 PROVE faults' # 0
  OBVIOUS
<1>1. CASE UNCHANGED faults
  BY <1>1
<1>2. CASE Fault
  BY <1>2, MaxFaultsNat DEF Fault, TypeOK
<1>3. QED
  BY <1>1, <1>2
  DEF Next, TriggerStep, TriggerLookup, TriggerCreate, TriggerList, TriggerScan,
      TriggerInsert, TriggerTransition, TriggerFails, CallStep, CallAccess, CallRefused,
      CallAccepted, CallModify, CallReschedule, CallCancel, CallMark, CallRelease,
      CallFails, ResetStart, ResetStep, ResetNext, ResetMark, ResetCancel, ResetDelete,
      ResetClose, ResetFails, ReconStart, ReconStep, ReconNext, ReconCancel,
      ReconFallback, ReconDelete, Timetable, TimetableCreate, TimetableRemove,
      SessionMove, Crash

LEMMA FaultCounts == TypeOK /\ Fault => faults' # 0
BY MaxFaultsNat DEF Fault, TypeOK

-----------------------------------------------------------------------------
(* The steps, while no trigger overlaps the reset.                          *)

ApartKnows ==
  TriggersOwn /\ ResetTakesAll /\ ClosedNoPending /\ ResetRemembered /\ CompletedNoReset

LEMMA ApartFrame ==
  ASSUME ApartInv, UNCHANGED <<cycle, promo, trigger, reset, contested>>,
         faults' = 0 => faults = 0
  PROVE  ApartKnows'
<1>1. TriggersOwn' /\ ClosedNoPending' /\ CompletedNoReset'
  BY DEF ApartInv, TriggersOwn, ClosedNoPending, CompletedNoReset
<1>2. ResetTakesAll' /\ ResetRemembered'
  BY DEF ApartInv, Resetting, Remembers, ResetTakesAll, ResetRemembered, PendingSlots
<1>3. QED
  BY <1>1, <1>2 DEF ApartKnows

LEMMA TriggerApart ==
  ASSUME ApartInv, NEW t \in Triggers,
         (\E w \in Weeks : TriggerLookup(t, w)) \/ TriggerStep(t) \/ TriggerFails(t)
  PROVE  ApartKnows'
<1>0. /\ TypeOK /\ trigger \in [Triggers -> TriggerRun \cup {Idle}]
      /\ UNCHANGED <<reset, contested>> /\ (faults' = 0 => faults = 0)
  <2>1. TypeOK
    BY DEF ApartInv, IInv
  <2>2. UNCHANGED <<reset, contested>>
    BY DEF TriggerStep, TriggerLookup, TriggerCreate, TriggerList, TriggerScan,
           TriggerInsert, TriggerTransition, TriggerFails
  <2>3. QED
    BY <2>1, <2>2, FaultsStay DEF TypeOK, Next
<1>a. ASSUME NEW state, GoTrigger(t, state), UNCHANGED <<cycle, promo>>,
             state.pc \notin {"idle", "create"} => cycle[state.week] = "active"
      PROVE  ApartKnows'
  <2>1. TriggersOwn'
    BY <1>0, <1>a DEF ApartInv, GoTrigger, TriggersOwn
  <2>2. ResetTakesAll' /\ ClosedNoPending' /\ ResetRemembered' /\ CompletedNoReset'
    BY <1>0, <1>a DEF ApartInv, Resetting, Remembers, ResetTakesAll, PendingSlots,
       ClosedNoPending, ResetRemembered, CompletedNoReset
  <2>3. QED
    BY <2>1, <2>2 DEF ApartKnows
<1>b. ASSUME trigger[t].pc # "idle", NEW p \in Servers PROVE ~Resetting(p) /\ ~Resetting(p)'
  BY <1>0, <1>b, IdleNotResetting DEF ApartInv, Apart, TriggerBusy, ResetBusy, Idle
<1>1. ASSUME NEW w \in Weeks, TriggerLookup(t, w) PROVE ApartKnows'
  BY <1>a, <1>1 DEF TriggerLookup, tables
<1>2. ASSUME TriggerCreate(t) PROVE ApartKnows'
  <2>0. trigger[t].week \in Weeks /\ trigger[t] \in TriggerRun /\ trigger[t].pc # "idle"
    BY <1>0, <1>2, TriggerFields DEF TriggerCreate
  <2>1. CASE cycle[trigger[t].week] # "none"
    BY <1>a, <1>2, <2>1 DEF TriggerCreate, Idle
  <2>2. CASE cycle[trigger[t].week] = "none"
    <3>1. /\ cycle' = [cycle EXCEPT ![trigger[t].week] = "active"]
          /\ GoTrigger(t, [trigger[t] EXCEPT !.pc = "list"]) /\ UNCHANGED promo
      BY <1>2, <2>2 DEF TriggerCreate
    <3>2. [trigger[t] EXCEPT !.pc = "list"].week = trigger[t].week
      BY <2>0 DEF TriggerRun
    <3>3. cycle \in [Weeks -> CycleStatus]
      BY <1>0 DEF TypeOK
    <3>4. TriggersOwn'
      <4>1. ASSUME NEW u \in Triggers, trigger'[u].pc \notin {"idle", "create"}
            PROVE  cycle'[trigger'[u].week] = "active"
        <5>1. CASE u = t
          BY <1>0, <2>0, <3>1, <3>2, <3>3, <5>1 DEF GoTrigger
        <5>2. CASE u # t
          <6>1. trigger'[u] = trigger[u]
            BY <1>0, <3>1, <5>2 DEF GoTrigger
          <6>2. trigger[u].week \in Weeks /\ cycle[trigger[u].week] = "active"
            BY <1>0, <4>1, <6>1, TriggerFields DEF ApartInv, TriggersOwn
          <6>3. QED
            BY <3>1, <3>3, <6>1, <6>2
        <5>3. QED
          BY <5>1, <5>2
      <4>2. QED
        BY <4>1 DEF TriggersOwn
    <3>5. \A s \in Slots : promo[trigger[t].week][s] = "none"
      BY <2>0, <2>2 DEF ApartInv, IInv, PromoHasCycle
    <3>6. ClosedNoPending' /\ ResetRemembered' /\ CompletedNoReset'
      BY <1>0, <2>0, <3>1, <3>3, <3>5
      DEF ApartInv, Resetting, Remembers, Closed, ClosedNoPending, ResetRemembered,
        CompletedNoReset
    <3>7. ResetTakesAll'
      BY <1>b, <2>0 DEF ResetTakesAll
    <3>8. QED
      BY <3>4, <3>6, <3>7 DEF ApartKnows
  <2>3. QED
    BY <2>1, <2>2
<1>3. ASSUME TriggerList(t) \/ TriggerScan(t) PROVE ApartKnows'
  <2>1. /\ trigger[t] \in TriggerRun /\ cycle[trigger[t].week] = "active"
        /\ UNCHANGED <<cycle, promo>>
    BY <1>0, <1>3, TriggerFields
    DEF TriggerList, TriggerScan, ApartInv, TriggersOwn, tables
  <2>2. PICK todo, eligible : GoTrigger(t, ScanState(t, todo, eligible))
    BY <1>3 DEF TriggerList, TriggerScan
  <2>3. \/ ScanState(t, todo, eligible) = Idle
        \/ ScanState(t, todo, eligible).week = trigger[t].week
    BY <2>1 DEF ScanState, TriggerRun
  <2>4. QED
    BY <1>a, <2>1, <2>2, <2>3 DEF Idle
<1>4. ASSUME TriggerInsert(t) PROVE ApartKnows'
  <2>1. /\ trigger[t] \in TriggerRun /\ cycle[trigger[t].week] = "active"
        /\ trigger[t].week \in Weeks /\ trigger[t].pc # "idle"
    BY <1>0, <1>4, TriggerFields DEF TriggerInsert, ApartInv, TriggersOwn
  <2>2. [trigger[t] EXCEPT !.pc = "transition"].week = trigger[t].week
    BY <2>1 DEF TriggerRun
  <2>3. TriggersOwn'
    BY <1>0, <1>4, <2>1, <2>2 DEF TriggerInsert, GoTrigger, ApartInv, TriggersOwn
  <2>4. /\ UNCHANGED cycle
        /\ \A w \in Weeks, s \in Slots :
             /\ w # trigger[t].week => promo'[w][s] = promo[w][s]
             /\ promo'[w][s] = "reset" => promo[w][s] = "reset"
    BY <1>0, <1>4 DEF TriggerInsert, TypeOK
  <2>5. ClosedNoPending' /\ ResetRemembered' /\ CompletedNoReset'
    BY <1>0, <2>1, <2>4
    DEF ApartInv, Resetting, Remembers, Closed, ClosedNoPending, ResetRemembered,
        CompletedNoReset
  <2>6. ResetTakesAll'
    BY <1>b, <2>1 DEF ResetTakesAll
  <2>7. QED
    BY <2>3, <2>5, <2>6 DEF ApartKnows
<1>5. ASSUME TriggerTransition(t) \/ TriggerFails(t) PROVE ApartKnows'
  BY <1>a, <1>5 DEF TriggerTransition, TriggerFails, Idle, tables
<1>6. QED
  BY <1>1, <1>2, <1>3, <1>4, <1>5 DEF TriggerStep

LEMMA CallApart ==
  ASSUME ApartInv, NEW c \in Calls,
         \/ \E kind \in Kinds, w \in Weeks, s \in Slots : CallAccess(c, kind, w, s)
         \/ CallStep(c) \/ CallFails(c)
  PROVE  ApartKnows'
<1>0. TypeOK /\ UNCHANGED <<cycle, trigger, reset, contested>> /\ (faults' = 0 => faults = 0)
  <2>1. TypeOK
    BY DEF ApartInv, IInv
  <2>2. UNCHANGED <<cycle, trigger, reset, contested>>
    BY DEF CallStep, CallAccess, CallRefused, CallAccepted, CallModify, CallReschedule,
           CallCancel, CallMark, CallRelease, CallFails, tables
  <2>3. QED
    BY <2>1, <2>2, FaultsStay DEF Next
<1>1. CASE CallMark(c)
  <2>1. /\ call[c].week \in Weeks /\ call[c].slot \in Slots
        /\ call[c].status \in {"confirmed", "modified"}
    BY <1>0, <1>1, CallFields DEF CallMark
  <2>2. \A w \in Weeks, s \in Slots :
          promo'[w][s] \in {"pending", "reset"} => promo'[w][s] = promo[w][s]
    BY <1>0, <1>1, <2>1 DEF CallMark, TypeOK
  <2>3. TriggersOwn' /\ ClosedNoPending' /\ ResetRemembered' /\ CompletedNoReset'
    BY <1>0, <2>2 DEF ApartInv, TriggersOwn, Resetting, Remembers, ClosedNoPending,
       ResetRemembered, CompletedNoReset
  <2>4. ResetTakesAll'
    BY <1>0, <2>2, ResetFields DEF ApartInv, Resetting, ResetTakesAll, PendingSlots
  <2>5. QED
    BY <2>3, <2>4 DEF ApartKnows
<1>2. CASE UNCHANGED promo
  BY <1>0, <1>2, ApartFrame
<1>3. QED
  BY <1>1, <1>2
  DEF CallStep, CallAccess, CallRefused, CallAccepted, CallModify, CallReschedule,
      CallCancel, CallRelease, CallFails, tables

LEMMA ResetApart ==
  ASSUME ApartInv, NEW p \in Servers, ResetStart(p) \/ ResetStep(p) \/ ResetFails(p)
  PROVE  ApartKnows'
<1>0. TypeOK /\ UNCHANGED trigger /\ (faults' = 0 => faults = 0)
  <2>1. TypeOK
    BY DEF ApartInv, IInv
  <2>2. UNCHANGED trigger
    BY DEF ResetStart, ResetStep, ResetNext, ResetMark, ResetCancel, ResetDelete,
           ResetClose, ResetFails
  <2>3. QED
    BY <2>1, <2>2, FaultsStay DEF Next
<1>a. ASSUME \A q \in Servers : q # p => reset'[q] = reset[q],
             \A w \in Weeks : PendingSlots(w)' \subseteq PendingSlots(w),
             Resetting(p)' => /\ PendingSlots(reset[p].week)' \subseteq reset'[p].todo
                              /\ reset'[p].pc = "close" => reset'[p].todo = {}
      PROVE  ResetTakesAll'
  <2>1. ASSUME NEW q \in Servers, q # p, Resetting(q)'
        PROVE  /\ PendingSlots(reset[q].week)' \subseteq reset'[q].todo
               /\ reset'[q].pc = "close" => reset'[q].todo = {}
    <3>1. reset'[q] = reset[q] /\ Resetting(q)
      BY <1>a, <2>1 DEF Resetting
    <3>2. PICK w \in Weeks : w = reset[q].week
      BY <1>0, <3>1, ResetFields
    <3>3. PendingSlots(w) \subseteq reset[q].todo /\ PendingSlots(w)' \subseteq PendingSlots(w)
      BY <1>a, <3>1, <3>2 DEF ApartInv, ResetTakesAll
    <3>4. reset[q].pc = "close" => reset[q].todo = {}
      BY <3>1 DEF ApartInv, ResetTakesAll
    <3>5. PendingSlots(reset[q].week)' = PendingSlots(w)'
      BY <3>1, <3>2 DEF PendingSlots
    <3>6. QED
      BY <3>1, <3>3, <3>4, <3>5
  <2>2. QED
    BY <1>a, <2>1 DEF ResetTakesAll
<1>b. ASSUME \A q \in Servers : q # p => reset'[q] = reset[q],
             NEW w \in Weeks, NEW q \in Servers, Remembers(q, w),
             q = p => Remembers(p, w)'
      PROVE  Remembers(q, w)'
  BY <1>b DEF Remembers, Resetting
<1>1. ASSUME ResetStart(p) PROVE ApartKnows'
  <2>1. /\ UNCHANGED <<cycle, promo>> /\ reset[p] = Idle
        /\ GoReset(p, [pc |-> "next", cycles |-> ActiveCycles])
        /\ \A w \in Weeks : w \notin contested' => w \notin contested
    BY <1>1 DEF ResetStart, tables
  <2>2. /\ reset'[p].pc = "next" /\ \A q \in Servers : q # p => reset'[q] = reset[q]
        /\ ~Resetting(p) /\ ~Resetting(p)'
    BY <1>0, <2>1, ResetMoves DEF Resetting, Idle
  <2>3. ResetTakesAll'
    BY <1>a, <2>1, <2>2 DEF PendingSlots
  <2>4. ResetRemembered'
    BY <1>0, <1>b, <2>1, <2>2 DEF ApartInv, ResetRemembered, Remembers
  <2>5. TriggersOwn' /\ ClosedNoPending' /\ CompletedNoReset'
    BY <1>0, <2>1 DEF ApartInv, TriggersOwn, ClosedNoPending, CompletedNoReset
  <2>6. QED
    BY <2>3, <2>4, <2>5 DEF ApartKnows
<1>2. ASSUME ResetNext(p) PROVE ApartKnows'
  <2>1. UNCHANGED <<cycle, promo, contested>> /\ ~Resetting(p)
    BY <1>2 DEF ResetNext, Resetting, tables
  <2>2. PICK w \in reset[p].cycles :
          GoReset(p, [pc |-> IF PendingSlots(w) = {} THEN "close" ELSE "mark",
                      cycles |-> reset[p].cycles \ {w}, week |-> w,
                      todo |-> PendingSlots(w), hadResets |-> FALSE])
    BY <1>2 DEF ResetNext
  <2>3. /\ reset'[p].week = w /\ reset'[p].todo = PendingSlots(w)
        /\ reset'[p].pc = "close" => PendingSlots(w) = {}
        /\ \A q \in Servers : q # p => reset'[q] = reset[q]
    BY <1>0, <2>2, ResetMoves
  <2>4. ResetTakesAll'
    BY <1>a, <2>1, <2>3 DEF PendingSlots
  <2>5. ResetRemembered'
    BY <1>0, <1>b, <2>1, <2>3 DEF ApartInv, ResetRemembered, Remembers
  <2>6. TriggersOwn' /\ ClosedNoPending' /\ CompletedNoReset'
    BY <1>0, <2>1 DEF ApartInv, TriggersOwn, ClosedNoPending, CompletedNoReset
  <2>7. QED
    BY <2>4, <2>5, <2>6 DEF ApartKnows
<1>3. ASSUME ResetMark(p) PROVE ApartKnows'
  <2>0. Resetting(p) /\ UNCHANGED <<cycle, faults, contested>>
    BY <1>3 DEF ResetMark, Resetting
  <2>1. PICK v \in Weeks : /\ v = reset[p].week /\ reset[p].todo \in SUBSET Slots
                           /\ v \in Held(p)
    BY <1>0, <2>0, ResetFields
  <2>2. PICK s \in reset[p].todo :
          /\ promo' = [promo EXCEPT ![reset[p].week][s] = "reset"]
          /\ GoReset(p, [pc |-> "cancel", cycles |-> reset[p].cycles,
                         week |-> reset[p].week, todo |-> reset[p].todo \ {s},
                         hadResets |-> reset[p].hadResets, slot |-> s])
    BY <1>3 DEF ResetMark
  <2>3. \A w \in Weeks, r \in Slots :
          promo'[w][r] = IF w = v /\ r = s THEN "reset" ELSE promo[w][r]
    BY <1>0, <2>1, <2>2 DEF TypeOK
  <2>4. /\ reset'[p].pc = "cancel" /\ reset'[p].week = v
        /\ reset'[p].todo = reset[p].todo \ {s}
        /\ \A q \in Servers : q # p => reset'[q] = reset[q]
    BY <1>0, <2>1, <2>2, ResetMoves
  <2>5. ResetTakesAll'
    <3>1. \A w \in Weeks : PendingSlots(w)' \subseteq PendingSlots(w)
      BY <2>3 DEF PendingSlots
    <3>2. PendingSlots(v) \subseteq reset[p].todo
      BY <2>0, <2>1 DEF ApartInv, ResetTakesAll
    <3>3. PendingSlots(v)' \subseteq PendingSlots(v) \ {s}
      BY <2>1, <2>3 DEF PendingSlots
    <3>4. PendingSlots(reset[p].week)' = PendingSlots(v)'
      BY <2>4 DEF PendingSlots
    <3>5. QED
      BY <1>a, <2>4, <3>1, <3>2, <3>3, <3>4
  <2>6. ResetRemembered'
    <3>1. Remembers(p, v)'
      BY <2>4 DEF Remembers, Resetting
    <3>2. \A w \in Weeks : Remembers(p, w) => w = v
      BY <2>1 DEF Remembers
    <3>3. ASSUME NEW w \in Weeks, w # v, \E q \in Servers : Remembers(q, w)
          PROVE  \E q \in Servers : Remembers(q, w)'
      BY <1>b, <2>4, <3>2, <3>3
    <3>4. ASSUME NEW w \in Weeks, NEW r \in Slots, faults = 0, cycle[w] = "active",
                 promo'[w][r] = "reset"
          PROVE  \E q \in Servers : Remembers(q, w)'
      <4>1. CASE w = v
        BY <3>1, <4>1
      <4>2. CASE w # v
        BY <2>3, <3>3, <3>4, <4>2 DEF ApartInv, ResetRemembered
      <4>3. QED
        BY <4>1, <4>2
    <3>5. QED
      BY <2>0, <3>4 DEF ResetRemembered
  <2>7. CompletedNoReset'
    <3>1. v \notin contested => cycle[v] = "active"
      BY <2>1 DEF ApartInv, IInv, ResetKnows
    <3>2. QED
      BY <2>0, <2>3, <3>1 DEF ApartInv, CompletedNoReset
  <2>8. TriggersOwn' /\ ClosedNoPending'
    BY <1>0, <2>0, <2>3 DEF ApartInv, TriggersOwn, ClosedNoPending
  <2>9. QED
    BY <2>5, <2>6, <2>7, <2>8 DEF ApartKnows
<1>4. ASSUME ResetCancel(p) \/ ResetDelete(p) PROVE ApartKnows'
  <2>0. Resetting(p) /\ UNCHANGED <<cycle, promo, contested>>
    BY <1>4 DEF ResetCancel, ResetDelete, Resetting
  <2>1. /\ reset'[p].week = reset[p].week /\ reset'[p].todo = reset[p].todo
        /\ reset'[p].pc \in {"mark", "delete", "close"}
        /\ reset'[p].pc = "close" => reset[p].todo = {}
        /\ reset'[p].pc \in {"mark", "close"} => reset'[p].hadResets
        /\ \A q \in Servers : q # p => reset'[q] = reset[q]
    <3>1. CASE ResetCancel(p)
      <4>1. /\ reset'[p] = [reset[p] EXCEPT !.pc = "delete"]
            /\ \A q \in Servers : q # p => reset'[q] = reset[q]
        BY <1>0, <3>1, ResetMoves DEF ResetCancel
      <4>2. reset[p] \in ResetRun /\ reset[p].pc = "cancel"
        BY <1>0, <2>0, <3>1, ResetFields DEF ResetCancel
      <4>3. QED
        BY <4>1, <4>2 DEF ResetRun
    <3>2. CASE ResetDelete(p)
      BY <1>0, <3>2, ResetMoves DEF ResetDelete
    <3>3. QED
      BY <1>4, <3>1, <3>2
  <2>2. ResetTakesAll'
    <3>1. PendingSlots(reset[p].week) \subseteq reset[p].todo
      BY <2>0 DEF ApartInv, ResetTakesAll
    <3>2. PendingSlots(reset[p].week)' = PendingSlots(reset[p].week)
      BY <2>0, <2>1 DEF PendingSlots
    <3>3. \A w \in Weeks : PendingSlots(w)' \subseteq PendingSlots(w)
      BY <2>0 DEF PendingSlots
    <3>4. QED
      BY <1>a, <2>1, <3>1, <3>2, <3>3
  <2>3. ResetRemembered'
    <3>1. \A w \in Weeks : Remembers(p, w) => Remembers(p, w)'
      BY <2>1 DEF Remembers, Resetting
    <3>2. QED
      BY <1>0, <1>b, <2>0, <2>1, <3>1 DEF ApartInv, ResetRemembered
  <2>4. TriggersOwn' /\ ClosedNoPending' /\ CompletedNoReset'
    BY <1>0, <2>0 DEF ApartInv, TriggersOwn, ClosedNoPending, CompletedNoReset
  <2>5. QED
    BY <2>2, <2>3, <2>4 DEF ApartKnows
<1>5. ASSUME ResetClose(p) PROVE ApartKnows'
  <2>0. /\ Resetting(p) /\ UNCHANGED <<promo, faults, contested>> /\ reset[p].pc = "close"
    BY <1>5 DEF ResetClose, Resetting
  <2>1. PICK v \in Weeks : /\ v = reset[p].week /\ reset[p].hadResets \in BOOLEAN
                           /\ v \in Held(p) /\ reset[p] # Idle
    BY <1>0, <2>0, ResetFields
  <2>2. \A w \in Weeks :
          cycle'[w] = IF w = v THEN CloseStatus(reset[p].hadResets) ELSE cycle[w]
    BY <1>0, <1>5, <2>1 DEF ResetClose, TypeOK
  <2>3. \A s \in Slots : promo[v][s] # "pending"
    BY <2>0, <2>1 DEF ApartInv, ResetTakesAll, PendingSlots
  <2>4. /\ ~Resetting(p)' /\ \A q \in Servers : q # p => reset'[q] = reset[q]
    <3>1. /\ reset'[p] \in {Idle, [pc |-> "next", cycles |-> reset[p].cycles]}
          /\ \A q \in Servers : q # p => reset'[q] = reset[q]
      BY <1>0, <1>5, ResetMoves DEF ResetClose
    <3>2. QED
      BY <3>1 DEF Resetting, Idle
  <2>5. ASSUME faults = 0, v \notin contested, NEW s \in Slots, promo[v][s] = "reset"
        PROVE  reset[p].hadResets
    <3>1. cycle[v] = "active" /\ v \notin HeldElsewhere(p)
      BY <2>1, <2>5 DEF ApartInv, IInv, ResetKnows
    <3>2. PICK q \in Servers : Remembers(q, v)
      BY <2>5, <3>1 DEF ApartInv, ResetRemembered
    <3>3. v \in Held(q)
      BY <1>0, <3>2, ResetFields DEF Remembers
    <3>4. q = p
      BY <3>1, <3>3 DEF HeldElsewhere
    <3>5. QED
      BY <2>0, <3>2, <3>4 DEF Remembers
  <2>6. ClosedNoPending' /\ CompletedNoReset'
    BY <2>0, <2>1, <2>2, <2>3, <2>5
    DEF ApartInv, Closed, ClosedNoPending, CompletedNoReset, CloseStatus
  <2>7. TriggersOwn'
    BY <1>0, <2>1 DEF ApartInv, Apart, TriggerBusy, ResetBusy, Idle, TriggersOwn
  <2>8. ResetTakesAll'
    BY <1>a, <2>0, <2>4 DEF PendingSlots
  <2>9. ResetRemembered'
    <3>1. \A w \in Weeks : Remembers(p, w) => w = v
      BY <2>1 DEF Remembers
    <3>2. \A w \in Weeks : cycle'[w] = "active" => w # v /\ cycle[w] = "active"
      BY <2>1, <2>2 DEF CloseStatus
    <3>3. ASSUME NEW w \in Weeks, w # v, \E q \in Servers : Remembers(q, w)
          PROVE  \E q \in Servers : Remembers(q, w)'
      BY <1>b, <2>4, <3>1, <3>3
    <3>4. QED
      BY <2>0, <3>2, <3>3 DEF ApartInv, ResetRemembered
  <2>10. QED
    BY <2>6, <2>7, <2>8, <2>9 DEF ApartKnows
<1>6. ASSUME ResetFails(p) PROVE ApartKnows'
  <2>1. /\ UNCHANGED <<cycle, promo, contested>> /\ faults' # 0
        /\ ~Resetting(p)' /\ \A q \in Servers : q # p => reset'[q] = reset[q]
    BY <1>0, <1>6, FaultCounts, ResetMoves, IdleNotResetting DEF ResetFails, tables
  <2>2. ResetTakesAll'
    BY <1>a, <2>1 DEF PendingSlots
  <2>3. QED
    BY <1>0, <2>1, <2>2 DEF ApartInv, ApartKnows, TriggersOwn, ClosedNoPending,
       ResetRemembered, CompletedNoReset
<1>7. QED
  BY <1>1, <1>2, <1>3, <1>4, <1>5, <1>6 DEF ResetStep

LEMMA RestApart ==
  ASSUME ApartInv,
         \/ \E p \in Servers : ReconStart(p) \/ ReconStep(p) \/ Crash(p)
         \/ Timetable \/ \E x \in Sessions : SessionMove(x)
  PROVE  ApartKnows'
<1>0. TypeOK /\ (faults' = 0 => faults = 0)
  BY FaultsStay DEF ApartInv, IInv, Next
<1>1. ASSUME NEW p \in Servers, Crash(p) PROVE ApartKnows'
  <2>1. /\ UNCHANGED <<cycle, promo, contested>> /\ faults' # 0
        /\ \A t \in Triggers : trigger'[t] = Idle \/ trigger'[t] = trigger[t]
        /\ \A q \in Servers : reset'[q] = Idle \/ reset'[q] = reset[q]
    BY <1>0, <1>1, FaultCounts, ResetMoves DEF Crash, tables
  <2>2. TriggersOwn' /\ ClosedNoPending' /\ ResetRemembered' /\ CompletedNoReset'
    BY <2>1 DEF ApartInv, Idle, TriggersOwn, ClosedNoPending, ResetRemembered,
       CompletedNoReset
  <2>3. ResetTakesAll'
    BY <2>1, IdleNotResetting DEF ApartInv, Resetting, ResetTakesAll, PendingSlots
  <2>4. QED
    BY <2>2, <2>3 DEF ApartKnows
<1>2. CASE UNCHANGED <<cycle, promo, trigger, reset, contested>>
  BY <1>0, <1>2, ApartFrame
<1>3. QED
  BY <1>1, <1>2
  DEF ReconStart, ReconStep, ReconNext, ReconCancel, ReconFallback, ReconDelete, Timetable,
      TimetableCreate, TimetableRemove, SessionMove, tables

LEMMA InitApart == Init => ApartInv
<1> SUFFICES ASSUME Init PROVE ApartInv
  OBVIOUS
<1>1. IInv
  BY InitInv
<1>2. Apart /\ TriggersOwn /\ ResetTakesAll
  BY DEF Init, Idle, Apart, TriggerBusy, TriggersOwn, Resetting, ResetTakesAll
<1>3. ClosedNoPending /\ ResetRemembered /\ CompletedNoReset
  BY DEF Init, Closed, ClosedNoPending, ResetRemembered, CompletedNoReset
<1>4. QED
  BY <1>1, <1>2, <1>3 DEF ApartInv

LEMMA NextApart == ApartInv /\ [Next /\ Apart']_vars => ApartInv'
<1> SUFFICES ASSUME ApartInv, [Next /\ Apart']_vars PROVE ApartInv'
  OBVIOUS
<1>1. IInv'
  BY NextInv DEF ApartInv
<1>2. CASE Next /\ Apart'
  <2>1. ApartKnows'
    BY <1>2, TriggerApart, CallApart, ResetApart, RestApart DEF Next
  <2>2. QED
    BY <1>1, <1>2, <2>1 DEF ApartInv, ApartKnows
<1>3. CASE UNCHANGED vars
  <2>1. ApartKnows' /\ Apart'
    BY <1>3, ApartFrame DEF ApartInv, Apart, TriggerBusy, ResetBusy, vars
  <2>2. QED
    BY <1>1, <2>1 DEF ApartInv, ApartKnows
<1>4. QED
  BY <1>2, <1>3

(* The invariant behind ClosedIsSettled.                                    *)
THEOREM ApartHolds == TriggerApartSpec => []ApartInv
<1>1. [Next /\ ~(TriggerBusy' /\ ResetBusy')]_vars => [Next /\ Apart']_vars
  BY DEF Apart
<1>2. QED
  BY <1>1, InitApart, NextApart, PTL DEF TriggerApartSpec

(* While no trigger overlaps the reset, whatever the lecturers answer       *)
(* meanwhile, whatever fails and however many processes run the job, a      *)
(* cycle closes with nothing pending; and without a failure, and unless two *)
(* runs held it at once, it ends as completed only if nothing was reset.    *)
THEOREM ClosedCyclesAreSettled == TriggerApartSpec => []ClosedIsSettled
<1>1. ApartInv => ClosedIsSettled
  BY DEF ApartInv, ClosedNoPending, CompletedNoReset, ClosedIsSettled
<1>2. QED
  BY ApartHolds, <1>1, PTL

-----------------------------------------------------------------------------
(* The steps, one at a time.                                                *)

Fresh == TriggerFresh /\ CallFresh /\ ResetFresh

LEMMA FreshFrame ==
  ASSUME Fresh, UNCHANGED <<cycle, promo, trigger, call, reset>>
  PROVE  Fresh'
<1>1. TriggerFresh' /\ CallFresh'
  BY DEF Fresh, TriggerFresh, Editing, CallFresh
<1>2. ResetFresh'
  BY DEF Fresh, Resetting, ResetFresh, PendingSlots
<1>3. QED
  BY <1>1, <1>2 DEF Fresh

LEMMA WaitingStep ==
  ASSUME TypeOK, WaitingAttended, faults' = 0 => faults = 0, NoNewPending,
         \A w \in Weeks, s \in Slots : Attended(w, s) => Attended(w, s)'
  PROVE  WaitingAttended'
<1> SUFFICES ASSUME NEW x \in Sessions, faults' = 0,
                    session'[x].status = "pending_confirmation",
                    session'[x].slot # NoSlot
             PROVE  Attended(session[x].week, session[x].slot)'
  BY DEF WaitingAttended
<1>1. /\ session[x].status = "pending_confirmation"
      /\ session'[x].week = session[x].week /\ session'[x].slot = session[x].slot
  BY DEF NoNewPending
<1>2. session[x].week \in Weeks /\ session[x].slot \in Slots
  BY <1>1 DEF TypeOK, SessionRow
<1>3. PICK w \in Weeks, s \in Slots : w = session[x].week /\ s = session[x].slot
  BY <1>2
<1>4. Attended(w, s)
  BY <1>1, <1>3 DEF WaitingAttended
<1>5. Attended(w, s)'
  BY <1>4
<1>6. QED
  BY <1>1, <1>3, <1>5 DEF Attended

(* Only triggerPromotion makes a session wait.                              *)
LEMMA OnlyTriggersMakeWait ==
  ASSUME TypeOK, Next, \A t \in Triggers : ~TriggerTransition(t)
  PROVE  NoNewPending
<1>0. session \in [Sessions -> SessionRow]
  BY DEF TypeOK
<1>1. ASSUME NEW c \in Calls, CallReschedule(c) \/ CallCancel(c) PROVE NoNewPending
  <2>1. CASE CallReschedule(c)
    BY <1>0, <2>1 DEF CallReschedule, Rescheduled, NoNewPending, SessionRow
  <2>2. CASE CallCancel(c)
    BY <1>0, <2>2 DEF CallCancel, NoNewPending, SessionRow
  <2>3. QED
    BY <1>1, <2>1, <2>2
<1>2. ASSUME NEW c \in Calls, CallRelease(c) PROVE NoNewPending
  BY <1>0, <1>2, SetStatusNoNewPending DEF CallRelease
<1>3. ASSUME NEW p \in Servers, ResetCancel(p) \/ ReconCancel(p) \/ ReconFallback(p)
      PROVE  NoNewPending
  BY <1>0, <1>3, SetStatusNoNewPending, SameSessions
  DEF ResetCancel, ReconCancel, ReconFallback
<1>4. ASSUME NEW p \in Servers, ResetDelete(p) \/ ReconDelete(p) PROVE NoNewPending
  BY <1>0, <1>4, DeleteSlotNoNewPending, SameSessions DEF ResetDelete, ReconDelete
<1>5. ASSUME NEW s \in Slots, TimetableCreate(s) PROVE NoNewPending
  BY <1>0, <1>5 DEF TimetableCreate, NoNewPending, SessionRow
<1>6. ASSUME NEW s \in Slots, NEW d \in Today, TimetableRemove(s, d) PROVE NoNewPending
  BY <1>0, <1>6 DEF TimetableRemove, NoNewPending, SessionRow
<1>7. ASSUME NEW x \in Sessions, SessionMove(x) PROVE NoNewPending
  BY <1>0, <1>7, SetStatusNoNewPending DEF SessionMove, SessionMoves
<1>8. CASE UNCHANGED session
  BY <1>8, SameSessions
<1>9. QED
  BY <1>1, <1>2, <1>3, <1>4, <1>5, <1>6, <1>7, <1>8
  DEF Next, TriggerStep, TriggerLookup, TriggerCreate, TriggerList, TriggerScan,
      TriggerInsert, TriggerFails, CallStep, CallAccess, CallRefused, CallAccepted,
      CallModify, CallMark, CallFails, ResetStart, ResetStep, ResetNext, ResetMark,
      ResetClose, ResetFails, ReconStart, ReconStep, ReconNext, Timetable, Crash, tables

LEMMA TriggerSerial ==
  ASSUME SerialInv, NEW t \in Triggers, OneAtATime',
         (\E w \in Weeks : TriggerLookup(t, w)) \/ TriggerStep(t) \/ TriggerFails(t)
  PROVE  Fresh' /\ WaitingAttended'
<1>0. /\ TypeOK /\ trigger \in [Triggers -> TriggerRun \cup {Idle}]
      /\ UNCHANGED <<call, reset>> /\ (faults' = 0 => faults = 0)
  <2>1. TypeOK
    BY DEF SerialInv, ApartInv, IInv
  <2>2. UNCHANGED <<call, reset>>
    BY DEF TriggerStep, TriggerLookup, TriggerCreate, TriggerList, TriggerScan,
           TriggerInsert, TriggerTransition, TriggerFails
  <2>3. QED
    BY <2>1, <2>2, FaultsStay DEF TypeOK, Next
<1>1. \E state : GoTrigger(t, state)
  BY DEF TriggerStep, TriggerLookup, TriggerCreate, TriggerList, TriggerScan,
         TriggerInsert, TriggerTransition, TriggerFails
<1>2. trigger[t] # Idle \/ trigger'[t] # Idle
  BY <1>0 DEF TriggerStep, TriggerLookup, TriggerCreate, TriggerList, TriggerScan,
     TriggerInsert, TriggerTransition, TriggerFails, GoTrigger, Idle
<1>3. /\ \A u \in Triggers \ {t} : trigger'[u] = Idle
      /\ \A c \in Calls : call'[c] = Idle
      /\ \A p \in Servers : reset'[p] = Idle
  <2>1. \A u \in Triggers \ {t} : trigger'[u] = trigger[u]
    BY <1>0, <1>1 DEF GoTrigger
  <2>2. CASE trigger[t] # Idle
    BY <1>0, <2>1, <2>2 DEF SerialInv, OneAtATime, TriggerBusy, CallBusy, ResetBusy
  <2>3. CASE trigger'[t] # Idle
    BY <2>3 DEF OneAtATime, TriggerBusy, CallBusy, ResetBusy
  <2>4. QED
    BY <1>2, <2>2, <2>3
<1>4. CallFresh' /\ ResetFresh'
  BY <1>3 DEF Idle, Editing, CallFresh, Resetting, ResetFresh
<1>a. ASSUME NEW state, GoTrigger(t, state),
             state.pc \in {"list", "scan", "insert"} =>
               \A s \in Slots : promo'[state.week][s] = "none",
             state.pc = "transition" =>
               \A s \in state.eligible : promo'[state.week][s] = "pending"
      PROVE  TriggerFresh'
  <2>1. trigger'[t] = state
    BY <1>0, <1>a DEF GoTrigger
  <2>2. QED
    BY <1>3, <1>a, <2>1 DEF TriggerFresh, Idle
<1>b. ASSUME UNCHANGED session,
             \A w \in Weeks, s \in Slots :
               cycle[w] = "active" /\ promo[w][s] = "pending" =>
                 cycle'[w] = "active" /\ promo'[w][s] = "pending"
      PROVE  WaitingAttended'
  <2>1. \A w \in Weeks, s \in Slots : Attended(w, s) => Attended(w, s)'
    BY <1>0, <1>b DEF Attended, Releasing
  <2>2. QED
    BY <1>0, <1>b, <2>1, SameSessions, WaitingStep DEF SerialInv
<1>5. ASSUME NEW w \in Weeks, TriggerLookup(t, w) PROVE TriggerFresh' /\ WaitingAttended'
  BY <1>a, <1>b, <1>5 DEF TriggerLookup, tables
<1>6. ASSUME TriggerCreate(t) PROVE TriggerFresh' /\ WaitingAttended'
  <2>0. /\ trigger[t].week \in Weeks /\ trigger[t] \in TriggerRun
        /\ cycle \in [Weeks -> CycleStatus]
    BY <1>0, <1>6, TriggerFields DEF TriggerCreate, TypeOK
  <2>1. WaitingAttended'
    BY <1>b, <1>6, <2>0 DEF TriggerCreate
  <2>2. CASE cycle[trigger[t].week] # "none"
    BY <1>a, <1>6, <2>1, <2>2 DEF TriggerCreate, Idle
  <2>3. CASE cycle[trigger[t].week] = "none"
    <3>1. GoTrigger(t, [trigger[t] EXCEPT !.pc = "list"]) /\ UNCHANGED promo
      BY <1>6, <2>3 DEF TriggerCreate
    <3>2. /\ [trigger[t] EXCEPT !.pc = "list"].week = trigger[t].week
          /\ [trigger[t] EXCEPT !.pc = "list"].pc = "list"
      BY <2>0 DEF TriggerRun
    <3>3. \A s \in Slots : promo[trigger[t].week][s] = "none"
      BY <2>0, <2>3 DEF SerialInv, ApartInv, IInv, PromoHasCycle
    <3>4. TriggerFresh'
      BY <1>a, <3>1, <3>2, <3>3
    <3>5. QED
      BY <2>1, <3>4
  <2>4. QED
    BY <2>2, <2>3
<1>7. ASSUME TriggerList(t) \/ TriggerScan(t) PROVE TriggerFresh' /\ WaitingAttended'
  <2>1. trigger[t] \in TriggerRun /\ UNCHANGED <<cycle, promo, session>>
    BY <1>0, <1>7, TriggerFields DEF TriggerList, TriggerScan, tables
  <2>2. PICK todo, eligible : GoTrigger(t, ScanState(t, todo, eligible))
    BY <1>7 DEF TriggerList, TriggerScan
  <2>3. \/ ScanState(t, todo, eligible) = Idle
        \/ /\ ScanState(t, todo, eligible).week = trigger[t].week
           /\ ScanState(t, todo, eligible).pc \in {"scan", "insert"}
    BY <2>1 DEF ScanState, AfterScan, TriggerRun
  <2>4. \A s \in Slots : promo[trigger[t].week][s] = "none"
    BY <1>7 DEF TriggerList, TriggerScan, SerialInv, TriggerFresh
  <2>5. TriggerFresh'
    BY <1>a, <2>1, <2>2, <2>3, <2>4 DEF Idle
  <2>6. QED
    BY <1>b, <2>1, <2>5
<1>8. ASSUME TriggerInsert(t) PROVE TriggerFresh' /\ WaitingAttended'
  <2>1. /\ trigger[t] \in TriggerRun /\ trigger[t].week \in Weeks
        /\ trigger[t].eligible \in SUBSET Slots
    BY <1>0, <1>8, TriggerFields DEF TriggerInsert
  <2>2. /\ [trigger[t] EXCEPT !.pc = "transition"].week = trigger[t].week
        /\ [trigger[t] EXCEPT !.pc = "transition"].eligible = trigger[t].eligible
        /\ [trigger[t] EXCEPT !.pc = "transition"].pc = "transition"
    BY <2>1 DEF TriggerRun
  <2>3. \A s \in Slots : promo[trigger[t].week][s] = "none"
    BY <1>8 DEF TriggerInsert, SerialInv, TriggerFresh
  <2>4. \A s \in trigger[t].eligible : promo'[trigger[t].week][s] = "pending"
    BY <1>0, <1>8, <2>1, <2>3 DEF TriggerInsert, TypeOK
  <2>5. TriggerFresh'
    BY <1>8, <1>a, <2>2, <2>4 DEF TriggerInsert
  <2>6. \A w \in Weeks, s \in Slots : promo[w][s] = "pending" => promo'[w][s] = "pending"
    BY <1>0, <1>8, <2>1 DEF TriggerInsert, TypeOK
  <2>7. QED
    BY <1>8, <1>b, <2>5, <2>6 DEF TriggerInsert
<1>9. ASSUME TriggerTransition(t) PROVE TriggerFresh' /\ WaitingAttended'
  <2>1. TriggerFresh'
    BY <1>9, <1>a DEF TriggerTransition, Idle
  <2>2. /\ trigger[t].week \in Weeks /\ trigger[t].eligible \in SUBSET Slots
        /\ cycle[trigger[t].week] = "active"
        /\ \A s \in trigger[t].eligible : promo[trigger[t].week][s] = "pending"
        /\ UNCHANGED <<cycle, promo>>
    BY <1>0, <1>9, TriggerFields
    DEF TriggerTransition, SerialInv, ApartInv, TriggersOwn, TriggerFresh
  <2>3. ASSUME NEW x \in Sessions, faults' = 0,
               session'[x].status = "pending_confirmation", session'[x].slot # NoSlot
        PROVE  Attended(session[x].week, session[x].slot)'
    <3>1. CASE x \in PromotableSessions(trigger[t].eligible, trigger[t].week)
      <4>1. /\ session'[x].week = trigger[t].week
            /\ session'[x].slot \in trigger[t].eligible
        BY <1>0, <1>9, <3>1
        DEF TriggerTransition, SetStatus, PromotableSessions, TypeOK, SessionRow
      <4>2. QED
        BY <2>2, <4>1 DEF Attended
    <3>2. CASE x \notin PromotableSessions(trigger[t].eligible, trigger[t].week)
      <4>1. session'[x] = session[x]
        BY <1>9, <3>2 DEF TriggerTransition, SetStatus
      <4>2. QED
        BY <1>0, <2>2, <2>3, <4>1
        DEF SerialInv, WaitingAttended, Attended, Releasing
    <3>3. QED
      BY <3>1, <3>2
  <2>4. QED
    BY <2>1, <2>3 DEF WaitingAttended
<1>10. ASSUME TriggerFails(t) PROVE TriggerFresh' /\ WaitingAttended'
  BY <1>a, <1>b, <1>10 DEF TriggerFails, Idle, tables
<1>11. QED
  BY <1>4, <1>5, <1>6, <1>7, <1>8, <1>9, <1>10 DEF TriggerStep, Fresh

LEMMA CallSerial ==
  ASSUME SerialInv, NEW c \in Calls, OneAtATime',
         \/ \E kind \in Kinds, w \in Weeks, s \in Slots : CallAccess(c, kind, w, s)
         \/ CallStep(c) \/ CallFails(c)
  PROVE  Fresh' /\ WaitingAttended'
<1>0. /\ TypeOK /\ call \in [Calls -> CallRun \cup {Idle}]
      /\ UNCHANGED <<cycle, trigger, reset>> /\ (faults' = 0 => faults = 0)
  <2>1. TypeOK
    BY DEF SerialInv, ApartInv, IInv
  <2>2. UNCHANGED <<cycle, trigger, reset>>
    BY DEF CallStep, CallAccess, CallRefused, CallAccepted, CallModify, CallReschedule,
           CallCancel, CallMark, CallRelease, CallFails, tables
  <2>3. QED
    BY <2>1, <2>2, FaultsStay DEF TypeOK, Next
<1>n. ASSUME \A t \in Triggers : ~TriggerTransition(t) PROVE NoNewPending
  BY <1>0, <1>n, OnlyTriggersMakeWait DEF Next
<1>1. \E state : GoCall(c, state)
  BY DEF CallStep, CallAccess, CallRefused, CallAccepted, CallModify, CallReschedule,
         CallCancel, AfterSessionEdit, CallMark, CallRelease, CallFails
<1>2. call[c] # Idle \/ call'[c] # Idle
  BY <1>0 DEF CallStep, CallAccess, CallRefused, CallAccepted, CallModify, CallReschedule,
     CallCancel, CallMark, CallRelease, CallFails, GoCall, Idle
<1>3. /\ \A d \in Calls \ {c} : call'[d] = Idle
      /\ \A t \in Triggers : trigger'[t] = Idle
      /\ \A p \in Servers : reset'[p] = Idle
  <2>1. \A d \in Calls \ {c} : call'[d] = call[d]
    BY <1>0, <1>1 DEF GoCall
  <2>2. CASE call[c] # Idle
    BY <1>0, <2>1, <2>2 DEF SerialInv, OneAtATime, TriggerBusy, CallBusy, ResetBusy
  <2>3. CASE call'[c] # Idle
    BY <2>3 DEF OneAtATime, TriggerBusy, CallBusy, ResetBusy
  <2>4. QED
    BY <1>2, <2>2, <2>3
<1>4. TriggerFresh' /\ ResetFresh'
  BY <1>3 DEF Idle, TriggerFresh, Resetting, ResetFresh
<1>5. NoNewPending
  BY <1>0, <1>3, <1>n DEF TriggerTransition, Idle
<1>a. ASSUME NEW state, GoCall(c, state),
             state.pc \in {"cycle", "reschedule", "cancel"} =>
               promo'[state.week][state.slot] = state.seen,
             state.pc \in Editing =>
               /\ cycle[state.week] = "active"
               /\ promo'[state.week][state.slot] \in {"pending", "confirmed", "modified"},
             state.pc = "mark" /\ state.status = "confirmed" =>
               promo'[state.week][state.slot] = "pending"
      PROVE  CallFresh'
  <2>1. call'[c] = state
    BY <1>0, <1>a DEF GoCall
  <2>2. QED
    BY <1>0, <1>3, <1>a, <2>1 DEF CallFresh, Editing, Idle
<1>b. ASSUME UNCHANGED promo, call[c].pc # "release" PROVE WaitingAttended'
  <2>1. ASSUME NEW w \in Weeks, NEW s \in Slots, NEW d \in Calls,
               call[d] = Releasing(w, s)
        PROVE  call'[d] = Releasing(w, s)
    BY <1>0, <1>1, <1>b, <2>1 DEF GoCall, Releasing
  <2>2. \A w \in Weeks, s \in Slots : Attended(w, s) => Attended(w, s)'
    BY <1>0, <1>b, <2>1 DEF Attended, Releasing
  <2>3. QED
    BY <1>0, <1>5, <2>2, WaitingStep DEF SerialInv
<1>6. ASSUME NEW kind \in Kinds, NEW w \in Weeks, NEW s \in Slots,
             CallAccess(c, kind, w, s)
      PROVE  CallFresh' /\ WaitingAttended'
  BY <1>6, <1>a, <1>b DEF CallAccess, Editing, Idle, tables
<1>7. ASSUME CallRefused(c) PROVE CallFresh' /\ WaitingAttended'
  BY <1>7, <1>a, <1>b DEF CallRefused, Editing, Idle, tables
<1>8. ASSUME CallAccepted(c) PROVE CallFresh' /\ WaitingAttended'
  <2>1. /\ call[c] \in CallRun /\ call[c].week \in Weeks /\ call[c].slot \in Slots
        /\ UNCHANGED promo /\ call[c].pc = "cycle" /\ cycle[call[c].week] = "active"
    BY <1>0, <1>8, CallFields DEF CallAccepted, tables
  <2>2. /\ promo[call[c].week][call[c].slot] = call[c].seen
        /\ call[c].seen \in {"pending", "confirmed", "modified"}
        /\ call[c].kind = "confirm" => call[c].seen = "pending"
    <3>1. promo[call[c].week][call[c].slot] = call[c].seen
      BY <2>1 DEF SerialInv, CallFresh
    <3>2. call[c].seen \in PromoStatus \ {"none"}
      BY <2>1 DEF CallRun, Seen
    <3>3. QED
      BY <1>8, <3>1, <3>2 DEF CallAccepted, MayAnswer, PromoStatus
  <2>3. WaitingAttended'
    BY <1>b, <2>1
  <2>4. CallFresh'
    <3>1. CASE call[c].kind = "confirm"
      BY <1>8, <1>a, <2>1, <2>2, <3>1 DEF CallAccepted, Marking, Editing
    <3>2. CASE call[c].kind = "modify"
      BY <1>8, <1>a, <2>1, <2>2, <3>2 DEF CallAccepted, Editing
    <3>3. CASE call[c].kind = "reschedule"
      <4>1. PICK x \in Sessions, w \in Weeks :
              GoCall(c, [pc |-> "reschedule", week |-> call[c].week,
                         slot |-> call[c].slot, seen |-> call[c].seen,
                         ses |-> x, to |-> w])
        BY <1>8, <3>3 DEF CallAccepted
      <4>2. QED
        BY <1>a, <2>1, <2>2, <4>1 DEF Editing
    <3>4. CASE call[c].kind = "cancel"
      <4>1. PICK x \in Sessions :
              GoCall(c, [pc |-> "cancel", week |-> call[c].week,
                         slot |-> call[c].slot, seen |-> call[c].seen, ses |-> x])
        BY <1>8, <3>4 DEF CallAccepted
      <4>2. QED
        BY <1>a, <2>1, <2>2, <4>1 DEF Editing
    <3>5. QED
      BY <1>8, <3>1, <3>2, <3>3, <3>4 DEF CallAccepted
  <2>5. QED
    BY <2>3, <2>4
<1>9. ASSUME CallModify(c) PROVE CallFresh' /\ WaitingAttended'
  <2>1. /\ UNCHANGED promo /\ cycle[call[c].week] = "active"
        /\ promo[call[c].week][call[c].slot] \in {"pending", "confirmed", "modified"}
    BY <1>9 DEF CallModify, SerialInv, CallFresh, Editing, tables
  <2>2. QED
    BY <1>9, <1>a, <1>b, <2>1 DEF CallModify, Marking, Editing, Idle
<1>10. ASSUME CallReschedule(c) \/ CallCancel(c) PROVE CallFresh' /\ WaitingAttended'
  <2>1. /\ UNCHANGED promo /\ cycle[call[c].week] = "active" /\ AfterSessionEdit(c)
        /\ promo[call[c].week][call[c].slot] = call[c].seen
        /\ call[c].pc \in {"reschedule", "cancel"}
    BY <1>10 DEF CallReschedule, CallCancel, SerialInv, CallFresh, Editing
  <2>2. CallFresh'
    <3>1. CASE call[c].seen = "pending"
      BY <1>a, <2>1, <3>1 DEF AfterSessionEdit, Marking, Editing
    <3>2. CASE call[c].seen # "pending"
      BY <1>a, <2>1, <3>2 DEF AfterSessionEdit, Releasing, Editing
    <3>3. QED
      BY <3>1, <3>2
  <2>3. QED
    BY <1>b, <2>1, <2>2
<1>11. ASSUME CallMark(c) PROVE CallFresh' /\ WaitingAttended'
  <2>1. /\ call[c].week \in Weeks /\ call[c].slot \in Slots /\ call[c].pc = "mark"
        /\ GoCall(c, Releasing(call[c].week, call[c].slot))
        /\ promo' = [promo EXCEPT ![call[c].week][call[c].slot] = call[c].status]
    BY <1>0, <1>11, CallFields DEF CallMark
  <2>2. CallFresh'
    BY <1>a, <2>1 DEF Releasing, Editing
  <2>3. ASSUME NEW w \in Weeks, NEW s \in Slots, Attended(w, s)
        PROVE  Attended(w, s)'
    <3>1. CASE w = call[c].week /\ s = call[c].slot
      BY <1>0, <2>1, <3>1 DEF GoCall, Attended
    <3>2. CASE ~(w = call[c].week /\ s = call[c].slot)
      <4>1. promo'[w][s] = promo[w][s]
        BY <1>0, <2>1, <3>2 DEF TypeOK
      <4>2. ASSUME NEW d \in Calls, call[d] = Releasing(w, s)
            PROVE  call'[d] = Releasing(w, s)
        BY <1>0, <2>1, <4>2 DEF GoCall, Releasing
      <4>3. QED
        BY <1>0, <2>3, <4>1, <4>2 DEF Attended, Releasing
    <3>3. QED
      BY <3>1, <3>2
  <2>4. QED
    BY <1>0, <1>5, <2>2, <2>3, WaitingStep DEF SerialInv
<1>12. ASSUME CallRelease(c) PROVE CallFresh' /\ WaitingAttended'
  <2>1. /\ call[c].week \in Weeks /\ call[c].slot \in Slots /\ call[c].pc = "release"
        /\ GoCall(c, Idle) /\ UNCHANGED promo
        /\ session' = SetStatus(ReleasableSessions(call[c].slot, call[c].week), "scheduled")
    BY <1>0, <1>12, CallFields DEF CallRelease
  <2>2. CallFresh'
    BY <1>a, <2>1 DEF Editing, Idle
  <2>3. ASSUME NEW x \in Sessions, faults' = 0,
               session'[x].status = "pending_confirmation", session'[x].slot # NoSlot
        PROVE  Attended(session[x].week, session[x].slot)'
    <3>1. session'[x] = session[x] /\ ~(session[x].slot = call[c].slot
                                        /\ session[x].week = call[c].week)
      BY <1>0, <2>1, <2>3 DEF SetStatus, ReleasableSessions, TypeOK, SessionRow
    <3>2. Attended(session[x].week, session[x].slot)
      BY <1>0, <2>3, <3>1 DEF SerialInv, WaitingAttended
    <3>3. ASSUME NEW d \in Calls, call[d] = Releasing(session[x].week, session[x].slot)
          PROVE  call'[d] = call[d]
      <4>1. d # c
        BY <3>1, <3>3 DEF Releasing
      <4>2. QED
        BY <1>0, <2>1, <4>1 DEF GoCall
    <3>4. QED
      BY <1>0, <2>1, <3>1, <3>2, <3>3 DEF Attended, Releasing
  <2>4. QED
    BY <2>2, <2>3 DEF WaitingAttended
<1>13. ASSUME CallFails(c) PROVE CallFresh' /\ WaitingAttended'
  <2>1. faults' # 0 /\ GoCall(c, Idle)
    BY <1>0, <1>13, FaultCounts DEF CallFails
  <2>2. QED
    BY <1>a, <2>1 DEF Editing, Idle, WaitingAttended
<1>14. QED
  BY <1>4, <1>6, <1>7, <1>8, <1>9, <1>10, <1>11, <1>12, <1>13 DEF CallStep, Fresh

LEMMA ResetSerial ==
  ASSUME SerialInv, OneAtATime', NEW p \in Servers,
         ResetStart(p) \/ ResetStep(p) \/ ResetFails(p)
  PROVE  Fresh' /\ WaitingAttended' /\ contested' = {}
<1>0. TypeOK /\ UNCHANGED <<trigger, call>> /\ (faults' = 0 => faults = 0)
  <2>1. TypeOK
    BY DEF SerialInv, ApartInv, IInv
  <2>2. UNCHANGED <<trigger, call>>
    BY DEF ResetStart, ResetStep, ResetNext, ResetMark, ResetCancel, ResetDelete,
           ResetClose, ResetFails
  <2>3. QED
    BY <2>1, <2>2, FaultsStay DEF Next
<1>m. \E state : GoReset(p, state)
  BY DEF ResetStart, ResetStep, ResetNext, ResetMark, ResetCancel, ResetDelete,
         ResetClose, ResetFails
<1>1. reset[p] # Idle \/ reset'[p] # Idle
  <2>1. CASE ResetStart(p)
    BY <1>0, <2>1, ResetMoves DEF ResetStart, Idle
  <2>2. CASE ~ResetStart(p)
    BY <2>2 DEF ResetStep, ResetNext, ResetMark, ResetCancel, ResetDelete, ResetClose,
       ResetFails, Idle
  <2>3. QED
    BY <2>1, <2>2
<1>2. /\ \A t \in Triggers : trigger[t] = Idle /\ trigger'[t] = Idle
      /\ \A c \in Calls : call[c] = Idle /\ call'[c] = Idle
      /\ \A q \in Servers : q # p => reset[q] = Idle /\ reset'[q] = Idle
  <2>0. \A q \in Servers : q # p => reset'[q] = reset[q]
    BY <1>0, <1>m, ResetMoves
  <2>1. CASE reset[p] # Idle
    BY <1>0, <2>0, <2>1 DEF SerialInv, OneAtATime, TriggerBusy, CallBusy, ResetBusy
  <2>2. CASE reset'[p] # Idle
    BY <1>0, <2>0, <2>2 DEF OneAtATime, TriggerBusy, CallBusy, ResetBusy
  <2>3. QED
    BY <1>1, <2>1, <2>2
<1>3. TriggerFresh' /\ CallFresh'
  BY <1>2 DEF Idle, TriggerFresh, Editing, CallFresh
<1>4. NoNewPending
  BY <1>0, <1>2, OnlyTriggersMakeWait DEF Next, TriggerTransition, Idle
<1>c. contested' = {}
  <2>1. CASE ResetStart(p)
    <3>1. HeldElsewhere(p) = {}
      BY <1>2 DEF HeldElsewhere, Held
    <3>2. QED
      BY <2>1, <3>1 DEF ResetStart, SerialInv
  <2>2. CASE ~ResetStart(p)
    BY <2>2 DEF ResetStep, ResetNext, ResetMark, ResetCancel, ResetDelete, ResetClose,
       ResetFails, SerialInv
  <2>3. QED
    BY <2>1, <2>2
<1>a. ASSUME \A w \in Weeks, s \in Slots : Attended(w, s) => Attended(w, s)'
      PROVE  WaitingAttended'
  BY <1>0, <1>4, <1>a, WaitingStep DEF SerialInv
<1>b. ASSUME reset[p].pc # "cancel", NEW w \in Weeks, NEW s \in Slots,
             cycle[w] = "active" /\ promo[w][s] = "pending" =>
               \/ cycle'[w] = "active" /\ promo'[w][s] = "pending"
               \/ reset'[p].pc = "cancel" /\ reset'[p].week = w /\ reset'[p].slot = s
      PROVE  Attended(w, s) => Attended(w, s)'
  BY <1>2, <1>b DEF Attended, Releasing, Idle
<1>d. ASSUME Resetting(p)' =>
               /\ reset'[p].todo \subseteq PendingSlots(reset[p].week)'
               /\ reset'[p].pc \in {"cancel", "delete"} =>
                    promo'[reset'[p].week][reset'[p].slot] = "reset"
               /\ reset'[p].hadResets => \E s \in Slots : promo'[reset'[p].week][s] = "reset"
      PROVE  ResetFresh'
  BY <1>2, <1>d, IdleNotResetting DEF ResetFresh
<1>5. ASSUME ResetStart(p) \/ ResetFails(p) PROVE ResetFresh' /\ WaitingAttended'
  <2>1. ~Resetting(p)' /\ UNCHANGED <<cycle, promo>> /\ reset[p].pc # "cancel"
    <3>1. reset'[p] \in {Idle, [pc |-> "next", cycles |-> ActiveCycles]}
      BY <1>0, <1>5, ResetMoves DEF ResetStart, ResetFails
    <3>2. QED
      BY <1>5, <3>1 DEF ResetStart, ResetFails, Resetting, Idle, tables
  <2>2. \A w \in Weeks, s \in Slots : Attended(w, s) => Attended(w, s)'
    BY <1>b, <2>1
  <2>3. QED
    BY <1>a, <1>d, <2>1, <2>2
<1>6. ASSUME ResetNext(p) PROVE ResetFresh' /\ WaitingAttended'
  <2>1. UNCHANGED <<cycle, promo>> /\ reset[p].pc # "cancel"
    BY <1>6 DEF ResetNext, tables
  <2>2. \A w \in Weeks, s \in Slots : Attended(w, s) => Attended(w, s)'
    BY <1>b, <2>1
  <2>3. PICK w \in reset[p].cycles :
          GoReset(p, [pc |-> IF PendingSlots(w) = {} THEN "close" ELSE "mark",
                      cycles |-> reset[p].cycles \ {w}, week |-> w,
                      todo |-> PendingSlots(w), hadResets |-> FALSE])
    BY <1>6 DEF ResetNext
  <2>4. /\ reset'[p].pc \in {"mark", "close"} /\ reset'[p].week = w
        /\ reset'[p].todo = PendingSlots(w) /\ reset'[p].hadResets = FALSE
    BY <1>0, <2>3, ResetMoves
  <2>5. PendingSlots(reset[p].week)' = PendingSlots(w)
    BY <2>1, <2>4 DEF PendingSlots
  <2>6. ResetFresh'
    BY <1>d, <2>4, <2>5
  <2>7. QED
    BY <1>a, <2>2, <2>6
<1>7. ASSUME ResetMark(p) PROVE ResetFresh' /\ WaitingAttended'
  <2>0. Resetting(p) /\ UNCHANGED cycle /\ reset[p].pc = "mark"
    BY <1>7 DEF ResetMark, Resetting
  <2>1. PICK v \in Weeks : v = reset[p].week /\ reset[p].todo \in SUBSET Slots
    BY <1>0, <2>0, ResetFields
  <2>2. PICK s \in reset[p].todo :
          /\ promo' = [promo EXCEPT ![reset[p].week][s] = "reset"]
          /\ GoReset(p, [pc |-> "cancel", cycles |-> reset[p].cycles,
                         week |-> reset[p].week, todo |-> reset[p].todo \ {s},
                         hadResets |-> reset[p].hadResets, slot |-> s])
    BY <1>7 DEF ResetMark
  <2>3. \A w \in Weeks, r \in Slots :
          promo'[w][r] = IF w = v /\ r = s THEN "reset" ELSE promo[w][r]
    BY <1>0, <2>1, <2>2 DEF TypeOK
  <2>4. /\ reset'[p].pc = "cancel" /\ reset'[p].week = v /\ reset'[p].slot = s
        /\ reset'[p].todo = reset[p].todo \ {s}
    BY <1>0, <2>1, <2>2, ResetMoves
  <2>5. ResetFresh'
    <3>1. reset[p].todo \subseteq PendingSlots(v)
      BY <2>0, <2>1 DEF SerialInv, ResetFresh
    <3>2. PendingSlots(v) \ {s} \subseteq PendingSlots(v)'
      BY <2>3 DEF PendingSlots
    <3>3. PendingSlots(reset[p].week)' = PendingSlots(v)'
      BY <2>4 DEF PendingSlots
    <3>4. promo'[v][s] = "reset" /\ s \in Slots
      BY <2>1, <2>3
    <3>5. QED
      BY <1>d, <2>4, <3>1, <3>2, <3>3, <3>4
  <2>6. \A w \in Weeks, r \in Slots : Attended(w, r) => Attended(w, r)'
    BY <1>b, <2>0, <2>3, <2>4
  <2>7. QED
    BY <1>a, <2>5, <2>6
<1>8. ASSUME ResetCancel(p) PROVE ResetFresh' /\ WaitingAttended'
  <2>0. Resetting(p) /\ UNCHANGED <<cycle, promo>> /\ reset[p].pc = "cancel"
    BY <1>8 DEF ResetCancel, Resetting
  <2>1. reset[p].week \in Weeks /\ reset[p].slot \in Slots /\ reset[p] \in ResetRun
    BY <1>0, <2>0, ResetFields
  <2>2. /\ reset'[p].pc = "delete" /\ reset'[p].week = reset[p].week
        /\ reset'[p].slot = reset[p].slot /\ reset'[p].todo = reset[p].todo
        /\ reset'[p].hadResets = reset[p].hadResets
    <3>1. reset'[p] = [reset[p] EXCEPT !.pc = "delete"]
      BY <1>0, <1>8, ResetMoves DEF ResetCancel
    <3>2. QED
      BY <2>0, <2>1, <3>1 DEF ResetRun
  <2>3. ResetFresh'
    <3>1. PendingSlots(reset[p].week)' = PendingSlots(reset[p].week)
      BY <2>0, <2>2 DEF PendingSlots
    <3>2. /\ reset[p].todo \subseteq PendingSlots(reset[p].week)
          /\ promo[reset[p].week][reset[p].slot] = "reset"
          /\ reset[p].hadResets => \E s \in Slots : promo[reset[p].week][s] = "reset"
      BY <2>0 DEF SerialInv, ResetFresh
    <3>3. QED
      BY <1>d, <2>0, <2>2, <3>1, <3>2
  <2>4. ASSUME NEW x \in Sessions, faults' = 0,
               session'[x].status = "pending_confirmation", session'[x].slot # NoSlot
        PROVE  Attended(session[x].week, session[x].slot)'
    <3>1. session' = SetStatus(CancellableFrom(reset[p].slot, reset[p].week), "cancelled")
      BY <1>0, <1>8, <2>4, FaultCounts DEF ResetCancel
    <3>2. /\ session'[x] = session[x] /\ session[x].week \in Weeks
          /\ ~(session[x].slot = reset[p].slot /\ session[x].week >= reset[p].week)
      BY <1>0, <2>4, <3>1 DEF SetStatus, CancellableFrom, TypeOK, SessionRow
    <3>3. session[x].week # reset[p].week \/ session[x].slot # reset[p].slot
      <4>1. \A w \in Weeks : w >= w
        BY WeeksAreOrdered
      <4>2. reset[p].week >= reset[p].week
        BY <2>1, <4>1
      <4>3. QED
        BY <3>2, <4>2
    <3>4. Attended(session[x].week, session[x].slot)
      BY <1>0, <2>4, <3>2 DEF SerialInv, WaitingAttended
    <3>5. ~\E q \in Servers : /\ reset[q].pc = "cancel" /\ reset[q].week = session[x].week
                              /\ reset[q].slot = session[x].slot
      BY <1>2, <3>3 DEF Idle
    <3>6. cycle[session[x].week] = "active" /\ promo[session[x].week][session[x].slot] = "pending"
      BY <1>2, <3>4, <3>5 DEF Attended, Releasing, Idle
    <3>7. QED
      BY <2>0, <3>2, <3>6 DEF Attended
  <2>5. QED
    BY <2>3, <2>4 DEF WaitingAttended
<1>9. ASSUME ResetDelete(p) PROVE ResetFresh' /\ WaitingAttended'
  <2>0. Resetting(p) /\ UNCHANGED <<cycle, promo>> /\ reset[p].pc = "delete"
    BY <1>9 DEF ResetDelete, Resetting
  <2>1. reset[p].slot \in Slots
    BY <1>0, <2>0, ResetFields
  <2>2. /\ reset'[p].pc \in {"mark", "close"} /\ reset'[p].week = reset[p].week
        /\ reset'[p].todo = reset[p].todo
    BY <1>0, <1>9, ResetMoves DEF ResetDelete
  <2>3. ResetFresh'
    <3>1. PendingSlots(reset[p].week)' = PendingSlots(reset[p].week)
      BY <2>0, <2>2 DEF PendingSlots
    <3>2. /\ reset[p].todo \subseteq PendingSlots(reset[p].week)
          /\ promo[reset[p].week][reset[p].slot] = "reset"
      BY <2>0 DEF SerialInv, ResetFresh
    <3>3. QED
      BY <1>d, <2>0, <2>1, <2>2, <3>1, <3>2
  <2>4. \A w \in Weeks, s \in Slots : Attended(w, s) => Attended(w, s)'
    BY <1>b, <2>0
  <2>5. QED
    BY <1>a, <2>3, <2>4
<1>10. ASSUME ResetClose(p) PROVE ResetFresh' /\ WaitingAttended'
  <2>0. Resetting(p) /\ UNCHANGED promo /\ reset[p].pc = "close"
    BY <1>10 DEF ResetClose, Resetting
  <2>1. reset[p].week \in Weeks
    BY <1>0, <2>0, ResetFields
  <2>2. \A s \in Slots : promo[reset[p].week][s] # "pending"
    BY <2>0, <2>1 DEF SerialInv, ApartInv, ResetTakesAll, PendingSlots
  <2>3. \A w \in Weeks : w # reset[p].week => cycle'[w] = cycle[w]
    BY <1>0, <1>10, <2>1 DEF ResetClose, TypeOK
  <2>4. \A w \in Weeks, s \in Slots : Attended(w, s) => Attended(w, s)'
    BY <1>b, <2>0, <2>2, <2>3
  <2>5. ~Resetting(p)'
    <3>1. reset'[p] \in {Idle, [pc |-> "next", cycles |-> reset[p].cycles]}
      BY <1>0, <1>10, ResetMoves DEF ResetClose
    <3>2. QED
      BY <3>1 DEF Resetting, Idle
  <2>6. QED
    BY <1>a, <1>d, <2>4, <2>5
<1>11. QED
  BY <1>3, <1>5, <1>6, <1>7, <1>8, <1>9, <1>10, <1>c DEF ResetStep, Fresh

LEMMA RestSerial ==
  ASSUME SerialInv,
         \/ \E p \in Servers : ReconStart(p) \/ ReconStep(p) \/ Crash(p)
         \/ Timetable \/ \E x \in Sessions : SessionMove(x)
  PROVE  Fresh' /\ WaitingAttended'
<1>0. TypeOK /\ (faults' = 0 => faults = 0)
  BY FaultsStay DEF SerialInv, ApartInv, IInv, Next
<1>1. ASSUME NEW p \in Servers, Crash(p) PROVE Fresh' /\ WaitingAttended'
  <2>1. /\ \A t \in Triggers : trigger'[t] = Idle \/ trigger'[t] = trigger[t]
        /\ \A c \in Calls : call'[c] = Idle \/ call'[c] = call[c]
        /\ \A q \in Servers : reset'[q] = Idle \/ reset'[q] = reset[q]
        /\ faults' # 0 /\ UNCHANGED <<cycle, promo>>
    BY <1>0, <1>1, FaultCounts, ResetMoves DEF Crash, tables
  <2>2. TriggerFresh' /\ CallFresh'
    BY <2>1 DEF SerialInv, TriggerFresh, Editing, CallFresh, Idle
  <2>3. ResetFresh'
    BY <2>1, IdleNotResetting DEF SerialInv, Resetting, ResetFresh, PendingSlots
  <2>4. QED
    BY <2>1, <2>2, <2>3 DEF Fresh, WaitingAttended
<1>2. ASSUME UNCHANGED <<cycle, promo, trigger, call, reset>>, NoNewPending
      PROVE  Fresh' /\ WaitingAttended'
  <2>1. Fresh'
    BY <1>2, FreshFrame DEF SerialInv, Fresh
  <2>2. \A w \in Weeks, s \in Slots : Attended(w, s) => Attended(w, s)'
    BY <1>2 DEF Attended, Releasing
  <2>3. QED
    BY <1>0, <1>2, <2>1, <2>2, WaitingStep DEF SerialInv
<1>3. ASSUME NEW p \in Servers, ReconStart(p) \/ ReconStep(p)
      PROVE  Fresh' /\ WaitingAttended'
  <2>1. UNCHANGED <<cycle, promo, trigger, call, reset>>
    BY <1>3 DEF ReconStart, ReconStep, ReconNext, ReconCancel, ReconFallback, ReconDelete,
       tables
  <2>2. NoNewPending
    <3>1. session \in [Sessions -> SessionRow]
      BY <1>0 DEF TypeOK
    <3>2. CASE ReconStart(p) \/ ReconNext(p)
      BY <3>2, SameSessions DEF ReconStart, ReconNext, tables
    <3>3. CASE ReconCancel(p) \/ ReconFallback(p)
      BY <3>1, <3>3, SetStatusNoNewPending, SameSessions DEF ReconCancel, ReconFallback
    <3>4. CASE ReconDelete(p)
      BY <3>1, <3>4, DeleteSlotNoNewPending, SameSessions DEF ReconDelete
    <3>5. QED
      BY <1>3, <3>2, <3>3, <3>4 DEF ReconStep
  <2>3. QED
    BY <1>2, <2>1, <2>2
<1>4. ASSUME Timetable \/ \E x \in Sessions : SessionMove(x)
      PROVE  Fresh' /\ WaitingAttended'
  <2>1. UNCHANGED <<cycle, promo, trigger, call, reset>>
    BY <1>4 DEF Timetable, TimetableCreate, TimetableRemove, SessionMove
  <2>2. NoNewPending
    <3>1. session \in [Sessions -> SessionRow]
      BY <1>0 DEF TypeOK
    <3>2. ASSUME NEW s \in Slots, TimetableCreate(s) PROVE NoNewPending
      BY <3>1, <3>2 DEF TimetableCreate, NoNewPending, SessionRow
    <3>3. ASSUME NEW s \in Slots, NEW d \in Today, TimetableRemove(s, d)
          PROVE  NoNewPending
      BY <3>1, <3>3 DEF TimetableRemove, NoNewPending, SessionRow
    <3>4. ASSUME NEW x \in Sessions, SessionMove(x) PROVE NoNewPending
      BY <3>1, <3>4, SetStatusNoNewPending DEF SessionMove, SessionMoves
    <3>5. QED
      BY <1>4, <3>2, <3>3, <3>4 DEF Timetable
  <2>3. QED
    BY <1>2, <2>1, <2>2
<1>5. QED
  BY <1>1, <1>3, <1>4

LEMMA InitSerial == Init => SerialInv
<1> SUFFICES ASSUME Init PROVE SerialInv
  OBVIOUS
<1>1. ApartInv
  BY InitApart
<1>2. OneAtATime /\ TriggerFresh /\ CallFresh /\ ResetFresh
  BY DEF Init, Idle, OneAtATime, TriggerBusy, CallBusy, ResetBusy, ReconBusy, TriggerFresh,
         Editing, CallFresh, Resetting, ResetFresh
<1>3. WaitingAttended /\ contested = {}
  BY DEF Init, WaitingAttended
<1>4. QED
  BY <1>1, <1>2, <1>3 DEF SerialInv

LEMMA NextSerial == SerialInv /\ [Next /\ OneAtATime']_vars => SerialInv'
<1> SUFFICES ASSUME SerialInv, [Next /\ OneAtATime']_vars PROVE SerialInv'
  OBVIOUS
<1>1. [Next /\ Apart']_vars
  BY DEF OneAtATime, TriggerBusy, ResetBusy, Apart
<1>2. ApartInv'
  BY <1>1, NextApart DEF SerialInv
<1>3. CASE Next /\ OneAtATime'
  <2>1. Fresh' /\ WaitingAttended'
    BY <1>3, TriggerSerial, CallSerial, ResetSerial, RestSerial DEF Next
  <2>2. contested' = {}
    <3>1. CASE \E p \in Servers : ResetStart(p) \/ ResetStep(p) \/ ResetFails(p)
      BY <1>3, <3>1, ResetSerial
    <3>2. CASE ~\E p \in Servers : ResetStart(p) \/ ResetStep(p) \/ ResetFails(p)
      <4>1. UNCHANGED contested
        BY <1>3, <3>2
        DEF Next, TriggerStep, TriggerLookup, TriggerCreate, TriggerList, TriggerScan,
            TriggerInsert, TriggerTransition, TriggerFails, CallStep, CallAccess,
            CallRefused, CallAccepted, CallModify, CallReschedule, CallCancel, CallMark,
            CallRelease, CallFails, ReconStart, ReconStep, ReconNext, ReconCancel,
            ReconFallback, ReconDelete, Timetable, TimetableCreate, TimetableRemove,
            SessionMove, Crash
      <4>2. QED
        BY <4>1 DEF SerialInv
    <3>3. QED
      BY <3>1, <3>2
  <2>3. QED
    BY <1>2, <1>3, <2>1, <2>2 DEF SerialInv, Fresh
<1>4. CASE UNCHANGED vars
  <2>1. Fresh'
    BY <1>4, FreshFrame DEF SerialInv, Fresh, vars
  <2>2. OneAtATime' /\ WaitingAttended' /\ contested' = {}
    BY <1>4 DEF SerialInv, OneAtATime, TriggerBusy, CallBusy, ResetBusy, ReconBusy,
       WaitingAttended, Attended, Releasing, vars
  <2>3. QED
    BY <1>2, <2>1, <2>2 DEF SerialInv, Fresh
<1>5. QED
  BY <1>3, <1>4

(* The invariant of handlers that do not overlap.                           *)
THEOREM SerialHolds == SerialSpec => []SerialInv
BY InitSerial, NextSerial, PTL DEF SerialSpec

(* One at a time, and while no statement has failed, no session of a living *)
(* slot is left waiting for an answer that nobody can give: every handler   *)
(* that makes an answer impossible takes the sessions with it.              *)
THEOREM WaitingSessionsAreAnswerable == SerialSpec => []PendingIsAnswerable
<1>1. SerialInv => PendingIsAnswerable
  <2> SUFFICES ASSUME SerialInv, Quiet, faults = 0, NEW x \in Sessions,
                      session[x].status = "pending_confirmation",
                      session[x].slot # NoSlot
               PROVE  /\ cycle[session[x].week] = "active"
                      /\ promo[session[x].week][session[x].slot] = "pending"
    BY DEF PendingIsAnswerable
  <2>1. Attended(session[x].week, session[x].slot)
    BY DEF SerialInv, WaitingAttended
  <2>2. QED
    BY <2>1 DEF Attended, Releasing, Quiet, CallBusy, ResetBusy, Idle
<1>2. QED
  BY SerialHolds, <1>1, PTL

-----------------------------------------------------------------------------

(* The life cycle.  A step of Promotion is one of PromotionLifecycle, or it *)
(* leaves the tables, the memory of the job and the count of failures alone. *)

LEMMA LapsingStays ==
  ASSUME UNCHANGED reset
  PROVE  UNCHANGED Lapsing
BY DEF Lapsing, Remembers, Resetting

LEMMA CreateOpens ==
  ASSUME SerialInv, NEW t \in Triggers, TriggerCreate(t)
  PROVE  Lifecycle!Next \/ UNCHANGED Lifecycle!vars
<1>1. trigger[t].week \in Weeks
  BY TriggerFields DEF TriggerCreate, SerialInv, ApartInv, IInv
<1>2. UNCHANGED <<promo, Lapsing, faults>>
  BY LapsingStays DEF TriggerCreate
<1>3. CASE cycle[trigger[t].week] = "none"
  <2>1. Lifecycle!Open(trigger[t].week)
    BY <1>2, <1>3 DEF TriggerCreate, Lifecycle!Open
  <2>2. QED
    BY <1>1, <2>1 DEF Lifecycle!Next
<1>4. CASE cycle[trigger[t].week] # "none"
  BY <1>2, <1>4 DEF TriggerCreate, Lifecycle!vars
<1>5. QED
  BY <1>3, <1>4

LEMMA InsertProposes ==
  ASSUME SerialInv, NEW t \in Triggers, TriggerInsert(t)
  PROVE  Lifecycle!Next
<1>1. /\ TypeOK /\ trigger[t].week \in Weeks /\ trigger[t].eligible \in SUBSET Slots
      /\ cycle[trigger[t].week] = "active"
      /\ \A s \in Slots : promo[trigger[t].week][s] = "none"
  BY TriggerFields DEF TriggerInsert, SerialInv, ApartInv, IInv, TriggersOwn, TriggerFresh
<1>2. PICK w \in Weeks, S \in SUBSET Slots : w = trigger[t].week /\ S = trigger[t].eligible
  BY <1>1
<1>3. promo' = [promo EXCEPT ![w] = [s \in Slots |-> IF s \in S THEN "pending" ELSE "none"]]
  BY <1>1, <1>2 DEF TriggerInsert, TypeOK
<1>4. UNCHANGED <<cycle, Lapsing, faults>>
  BY LapsingStays DEF TriggerInsert
<1>5. Lifecycle!Propose(w, S)
  BY <1>1, <1>2, <1>3, <1>4 DEF Lifecycle!Propose
<1>6. QED
  BY <1>5 DEF Lifecycle!Next

LEMMA MarkAnswers ==
  ASSUME SerialInv, NEW c \in Calls, CallMark(c)
  PROVE  Lifecycle!Next \/ UNCHANGED Lifecycle!vars
<1>1. /\ TypeOK /\ call[c].week \in Weeks /\ call[c].slot \in Slots
      /\ call[c].status \in {"confirmed", "modified"}
      /\ cycle[call[c].week] = "active"
      /\ promo[call[c].week][call[c].slot] \in {"pending", "confirmed", "modified"}
      /\ call[c].status = "confirmed" => promo[call[c].week][call[c].slot] = "pending"
  BY CallFields DEF CallMark, SerialInv, ApartInv, IInv, CallFresh, Editing
<1>2. PICK w \in Weeks, s \in Slots : w = call[c].week /\ s = call[c].slot
  BY <1>1
<1>3. promo' = [promo EXCEPT ![w][s] = call[c].status] /\ UNCHANGED <<cycle, Lapsing, faults>>
  BY <1>2, LapsingStays DEF CallMark
<1>4. CASE promo[w][s] = call[c].status
  BY <1>1, <1>3, <1>4 DEF TypeOK, Lifecycle!vars
<1>5. CASE promo[w][s] # call[c].status
  <2>1. <<promo[w][s], call[c].status>> \in
          {<<"pending", "confirmed">>, <<"pending", "modified">>, <<"confirmed", "modified">>}
    BY <1>1, <1>2, <1>5
  <2>2. Lifecycle!Answer(w, s)
    BY <1>1, <1>2, <1>3, <2>1 DEF Lifecycle!Answer
  <2>3. QED
    BY <2>2 DEF Lifecycle!Next
<1>6. QED
  BY <1>4, <1>5

(* The only run there is: another one remembers nothing.                    *)
LEMMA OneRun ==
  ASSUME SerialInv, NEW p \in Servers, reset[p] # Idle
  PROVE  /\ \A q \in Servers : q # p => reset[q] = Idle /\ ~Resetting(q)
         /\ \A w \in Weeks : w \in Lapsing <=> Remembers(p, w)
         /\ \A w \in Held(p) : cycle[w] = "active"
<1>1. \A q \in Servers : q # p => reset[q] = Idle /\ ~Resetting(q)
  BY IdleNotResetting DEF SerialInv, OneAtATime
<1>2. QED
  BY <1>1 DEF Lapsing, Remembers, SerialInv, ApartInv, IInv, ResetKnows

LEMMA OneRunNext ==
  ASSUME NEW p \in Servers, \A q \in Servers : q # p => reset'[q] = Idle
  PROVE  \A w \in Weeks : w \in Lapsing' <=> Remembers(p, w)'
<1>1. \A q \in Servers : q # p => ~Resetting(q)'
  BY IdleNotResetting
<1>2. QED
  BY <1>1 DEF Lapsing, Remembers

LEMMA MarkLapses ==
  ASSUME SerialInv, NEW p \in Servers, ResetMark(p)
  PROVE  Lifecycle!Next
<1>1. Resetting(p) /\ TypeOK
  BY DEF ResetMark, Resetting, SerialInv, ApartInv, IInv
<1>2. PICK v \in Weeks : v = reset[p].week /\ v \in Held(p) /\ reset[p] # Idle
  BY <1>1, ResetFields
<1>3. PICK s \in reset[p].todo :
        /\ promo' = [promo EXCEPT ![reset[p].week][s] = "reset"]
        /\ GoReset(p, [pc |-> "cancel", cycles |-> reset[p].cycles,
                       week |-> reset[p].week, todo |-> reset[p].todo \ {s},
                       hadResets |-> reset[p].hadResets, slot |-> s])
  BY DEF ResetMark
<1>4. s \in Slots /\ promo[v][s] = "pending" /\ cycle[v] = "active"
  BY <1>1, <1>2, <1>3, OneRun DEF SerialInv, ResetFresh, PendingSlots
<1>5. /\ reset'[p].pc = "cancel" /\ reset'[p].week = v
      /\ \A q \in Servers : q # p => reset'[q] = Idle
  BY <1>1, <1>2, <1>3, OneRun, ResetMoves
<1>6. Lapsing' = Lapsing \cup {v}
  <2>1. \A w \in Weeks : w \in Lapsing <=> Remembers(p, w)
    BY <1>2, OneRun
  <2>2. \A w \in Weeks : w \in Lapsing' <=> Remembers(p, w)'
    BY <1>5, OneRunNext
  <2>3. \A w \in Weeks : Remembers(p, w)' <=> w = v
    BY <1>5 DEF Remembers, Resetting
  <2>4. \A w \in Weeks : Remembers(p, w) => w = v
    BY <1>2 DEF Remembers
  <2>5. Lapsing \subseteq Weeks /\ Lapsing' \subseteq Weeks
    BY DEF Lapsing
  <2>6. QED
    BY <2>1, <2>2, <2>3, <2>4, <2>5
<1>7. Lifecycle!Lapse(v, s)
  BY <1>2, <1>3, <1>4, <1>6 DEF ResetMark, Lifecycle!Lapse
<1>8. QED
  BY <1>4, <1>7 DEF Lifecycle!Next

LEMMA CloseCloses ==
  ASSUME SerialInv, NEW p \in Servers, ResetClose(p)
  PROVE  Lifecycle!Next
<1>1. Resetting(p) /\ TypeOK /\ reset[p].pc = "close"
  BY DEF ResetClose, Resetting, SerialInv, ApartInv, IInv
<1>2. PICK v \in Weeks : /\ v = reset[p].week /\ v \in Held(p) /\ reset[p] # Idle
                         /\ reset[p].hadResets \in BOOLEAN
  BY <1>1, ResetFields
<1>3. cycle[v] = "active" /\ \A s \in Slots : promo[v][s] # "pending"
  BY <1>1, <1>2, OneRun DEF SerialInv, ApartInv, ResetTakesAll, PendingSlots
<1>4. \A w \in Weeks : w \in Lapsing <=> w = v /\ reset[p].hadResets
  BY <1>1, <1>2, OneRun DEF Remembers
<1>5. Lapsing' = Lapsing \ {v}
  <2>1. /\ reset'[p] \in {Idle, [pc |-> "next", cycles |-> reset[p].cycles]}
        /\ \A q \in Servers : q # p => reset'[q] = Idle
    BY <1>1, <1>2, OneRun, ResetMoves DEF ResetClose
  <2>2. \A w \in Weeks : ~Remembers(p, w)'
    BY <2>1 DEF Remembers, Resetting, Idle
  <2>3. \A w \in Weeks : w \notin Lapsing'
    BY <2>1, <2>2, OneRunNext
  <2>4. Lapsing \subseteq Weeks /\ Lapsing' \subseteq Weeks
    BY DEF Lapsing
  <2>5. QED
    BY <1>4, <2>3, <2>4
<1>6. Lifecycle!Close(v)
  BY <1>2, <1>3, <1>4, <1>5 DEF ResetClose, CloseStatus, Lifecycle!Close
<1>7. QED
  BY <1>6 DEF Lifecycle!Next

(* A failure leaves the memory of the job alone or takes all of it.         *)
LEMMA FailureFails ==
  ASSUME Fault, UNCHANGED <<cycle, promo>>, UNCHANGED Lapsing \/ Lapsing' = {}
  PROVE  Lifecycle!Next
<1>1. Lifecycle!Fail
  BY DEF Fault, Lifecycle!Fail
<1>2. QED
  BY <1>1 DEF Lifecycle!Next

LEMMA ResetFollows ==
  ASSUME SerialInv, OneAtATime', NEW p \in Servers,
         ResetStart(p) \/ ResetStep(p) \/ ResetFails(p)
  PROVE  Lifecycle!Next \/ UNCHANGED Lifecycle!vars
<1>0. TypeOK
  BY DEF SerialInv, ApartInv, IInv
<1>a. Lapsing \subseteq Weeks /\ Lapsing' \subseteq Weeks
  BY DEF Lapsing
<1>b. ASSUME reset[p] # Idle, \A q \in Servers : q # p => reset'[q] = reset[q]
      PROVE  /\ \A w \in Weeks : w \in Lapsing <=> Remembers(p, w)
             /\ \A w \in Weeks : w \in Lapsing' <=> Remembers(p, w)'
  BY <1>b, OneRun, OneRunNext
<1>1. ASSUME ResetStart(p) PROVE UNCHANGED Lifecycle!vars
  <2>1. /\ reset'[p].pc = "next" /\ reset'[p] # Idle /\ reset[p] = Idle
        /\ \A q \in Servers : q # p => reset'[q] = reset[q]
    BY <1>0, <1>1, ResetMoves DEF ResetStart, Idle
  <2>2. \A q \in Servers : q # p => reset'[q] = Idle /\ reset[q] = Idle
    BY <2>1 DEF OneAtATime
  <2>3. Lapsing' = {}
    BY <1>a, <2>1, <2>2, OneRunNext DEF Remembers, Resetting
  <2>4. Lapsing = {}
    BY <2>1, <2>2, IdleNotResetting DEF Lapsing, Remembers
  <2>5. QED
    BY <1>1, <2>3, <2>4 DEF ResetStart, tables, Lifecycle!vars
<1>2. ASSUME ResetNext(p) PROVE UNCHANGED Lifecycle!vars
  <2>1. reset[p].pc = "next" /\ reset[p] # Idle
    BY <1>2 DEF ResetNext, Idle
  <2>2. /\ reset'[p].pc \in {"mark", "close"} /\ reset'[p].hadResets = FALSE
        /\ \A q \in Servers : q # p => reset'[q] = reset[q]
    BY <1>0, <1>2, ResetMoves DEF ResetNext
  <2>3. Lapsing = {} /\ Lapsing' = {}
    BY <1>a, <1>b, <2>1, <2>2 DEF Remembers, Resetting
  <2>4. QED
    BY <1>2, <2>3 DEF ResetNext, tables, Lifecycle!vars
<1>3. ASSUME ResetCancel(p) PROVE Lifecycle!Next \/ UNCHANGED Lifecycle!vars
  <2>1. reset[p].pc = "cancel" /\ Resetting(p)
    BY <1>3 DEF ResetCancel, Resetting
  <2>2. /\ reset'[p] = [reset[p] EXCEPT !.pc = "delete"]
        /\ \A q \in Servers : q # p => reset'[q] = reset[q]
    BY <1>0, <1>3, ResetMoves DEF ResetCancel
  <2>3. reset'[p].pc = "delete" /\ reset'[p].week = reset[p].week /\ reset[p] # Idle
    BY <1>0, <2>1, <2>2, ResetFields DEF ResetRun
  <2>4. \A w \in Weeks : Remembers(p, w)' <=> Remembers(p, w)
    BY <2>1, <2>3 DEF Remembers, Resetting
  <2>5. UNCHANGED Lapsing
    BY <1>a, <1>b, <2>2, <2>3, <2>4
  <2>6. UNCHANGED <<cycle, promo>> /\ (UNCHANGED faults \/ Fault)
    BY <1>3 DEF ResetCancel
  <2>7. QED
    BY <2>5, <2>6, FailureFails DEF Lifecycle!vars
<1>4. ASSUME ResetDelete(p) PROVE Lifecycle!Next \/ UNCHANGED Lifecycle!vars
  <2>1. reset[p].pc = "delete" /\ reset[p] # Idle
    BY <1>4 DEF ResetDelete, Idle
  <2>2. /\ reset'[p].pc \in {"mark", "close"}
        /\ reset'[p].week = reset[p].week /\ reset'[p].hadResets = TRUE
        /\ \A q \in Servers : q # p => reset'[q] = reset[q]
    BY <1>0, <1>4, ResetMoves DEF ResetDelete
  <2>3. \A w \in Weeks : Remembers(p, w)' <=> Remembers(p, w)
    BY <2>1, <2>2 DEF Remembers, Resetting
  <2>4. UNCHANGED Lapsing
    BY <1>a, <1>b, <2>1, <2>2, <2>3
  <2>5. UNCHANGED <<cycle, promo>> /\ (UNCHANGED faults \/ Fault)
    BY <1>4 DEF ResetDelete
  <2>6. QED
    BY <2>4, <2>5, FailureFails DEF Lifecycle!vars
<1>5. ASSUME ResetFails(p) PROVE Lifecycle!Next
  <2>1. reset[p] # Idle /\ reset'[p] = Idle /\ \A q \in Servers : q # p => reset'[q] = reset[q]
    BY <1>0, <1>5, ResetMoves DEF ResetFails, Idle
  <2>2. \A w \in Weeks : ~Remembers(p, w)'
    BY <2>1, IdleNotResetting DEF Remembers
  <2>3. Lapsing' = {}
    BY <1>a, <1>b, <2>1, <2>2
  <2>4. QED
    BY <1>5, <2>3, FailureFails DEF ResetFails, tables
<1>6. QED
  BY <1>1, <1>2, <1>3, <1>4, <1>5, MarkLapses, CloseCloses DEF ResetStep

LEMMA OthersFollow ==
  ASSUME SerialInv,
         \/ \E t \in Triggers : \/ \E w \in Weeks : TriggerLookup(t, w)
                                \/ TriggerStep(t) \/ TriggerFails(t)
         \/ \E c \in Calls : \/ \E kind \in Kinds, w \in Weeks, s \in Slots :
                                  CallAccess(c, kind, w, s)
                             \/ CallStep(c) \/ CallFails(c)
         \/ \E p \in Servers : ReconStart(p) \/ ReconStep(p) \/ Crash(p)
         \/ Timetable
         \/ \E x \in Sessions : SessionMove(x)
  PROVE  Lifecycle!Next \/ UNCHANGED Lifecycle!vars
<1>1. ASSUME UNCHANGED <<cycle, promo, reset, faults>>
      PROVE  UNCHANGED Lifecycle!vars
  BY <1>1, LapsingStays DEF Lifecycle!vars
<1>2. ASSUME UNCHANGED <<cycle, promo, reset>>, Fault
      PROVE  Lifecycle!Next
  BY <1>2, LapsingStays, FailureFails
<1>3. ASSUME NEW t \in Triggers,
             \/ \E w \in Weeks : TriggerLookup(t, w)
             \/ TriggerStep(t) \/ TriggerFails(t)
      PROVE  Lifecycle!Next \/ UNCHANGED Lifecycle!vars
  BY <1>1, <1>2, <1>3, CreateOpens, InsertProposes
  DEF TriggerStep, TriggerLookup, TriggerList, TriggerScan, TriggerTransition,
      TriggerFails, tables
<1>4. ASSUME NEW c \in Calls,
             \/ \E kind \in Kinds, w \in Weeks, s \in Slots : CallAccess(c, kind, w, s)
             \/ CallStep(c) \/ CallFails(c)
      PROVE  Lifecycle!Next \/ UNCHANGED Lifecycle!vars
  BY <1>1, <1>2, <1>4, MarkAnswers
  DEF CallStep, CallAccess, CallRefused, CallAccepted, CallModify, CallReschedule,
      CallCancel, CallRelease, CallFails, tables
<1>5. ASSUME NEW p \in Servers, ReconStart(p) \/ ReconStep(p)
      PROVE  Lifecycle!Next \/ UNCHANGED Lifecycle!vars
  BY <1>1, <1>2, <1>5
  DEF ReconStart, ReconStep, ReconNext, ReconCancel, ReconFallback, ReconDelete, tables
<1>6. ASSUME Timetable \/ \E x \in Sessions : SessionMove(x)
      PROVE  UNCHANGED Lifecycle!vars
  BY <1>1, <1>6 DEF Timetable, TimetableCreate, TimetableRemove, SessionMove
<1>7. ASSUME NEW p \in Servers, Crash(p) PROVE Lifecycle!Next
  <2>0. TypeOK /\ Lapsing' \subseteq Weeks
    BY DEF SerialInv, ApartInv, IInv, Lapsing
  <2>1. reset'[p] = Idle /\ \A q \in Servers : q # p => reset'[q] = reset[q]
    BY <1>7, <2>0, ResetMoves DEF Crash
  <2>2. CASE reset[p] = Idle
    <3>1. UNCHANGED reset
      BY <1>7, <2>0, <2>2 DEF Crash, GoReset, TypeOK
    <3>2. QED
      BY <1>7, <3>1, LapsingStays, FailureFails DEF Crash, tables
  <2>3. CASE reset[p] # Idle
    <3>1. \A q \in Servers : reset'[q] = Idle
      BY <2>1, <2>3, OneRun
    <3>2. Lapsing' = {}
      BY <3>1, IdleNotResetting DEF Lapsing, Remembers
    <3>3. QED
      BY <1>7, <3>2, FailureFails DEF Crash, tables
  <2>4. QED
    BY <2>2, <2>3
<1>8. QED
  BY <1>3, <1>4, <1>5, <1>6, <1>7

LEMMA NextFollows ==
  SerialInv /\ [Next /\ OneAtATime']_vars => [Lifecycle!Next]_(Lifecycle!vars)
<1> SUFFICES ASSUME SerialInv, [Next /\ OneAtATime']_vars
             PROVE  Lifecycle!Next \/ UNCHANGED Lifecycle!vars
  BY DEF Lifecycle!vars
<1>1. CASE UNCHANGED vars
  BY <1>1, LapsingStays DEF vars, Lifecycle!vars
<1>2. CASE Next /\ OneAtATime'
  BY <1>2, ResetFollows, OthersFollow DEF Next
<1>3. QED
  BY <1>1, <1>2

(* One at a time the handlers implement the life cycle, whatever fails:     *)
(* creating opens, inserting proposes once, marking answers or lapses only  *)
(* what is pending or may be amended, and the job closes with nothing       *)
(* pending, as expired exactly when it remembers a reset.  A failure or a   *)
(* crash is one of the life cycle: it takes nothing but that memory.        *)
THEOREM LifecycleIsFollowed == SerialSpec => FollowsLifecycle
<1>1. Init => Lifecycle!Init
  BY DEF Init, Lifecycle!Init, Lapsing, Remembers, Resetting, Idle
<1>2. QED
  BY <1>1, NextFollows, SerialHolds, PTL DEF SerialSpec, FollowsLifecycle, Lifecycle!Spec

-----------------------------------------------------------------------------
(* What the life cycle alone decides about the end of a cycle.  The run     *)
(* that closes a cycle remembers only what lapsed, and forgets only when    *)
(* something fails.                                                         *)

LifecycleTables ==
  /\ cycle \in [Weeks -> CycleStatus]
  /\ promo \in [Weeks -> [Slots -> PromoStatus]]
  /\ Lapsing \subseteq Weeks
  /\ faults \in Nat

LifecycleRemembers ==
  \A w \in Weeks :
    /\ cycle[w] = "none" => \A s \in Slots : promo[w][s] = "none"
    /\ w \in Lapsing => \E s \in Slots : promo[w][s] = "reset"
    /\ faults = 0 /\ cycle[w] = "active" =>
         \A s \in Slots : promo[w][s] = "reset" => w \in Lapsing

LifecycleInv == LifecycleTables /\ LifecycleRemembers /\ Lifecycle!EndsAsItWent

LEMMA LifecycleStep ==
  LifecycleInv /\ [Lifecycle!Next]_(Lifecycle!vars) => LifecycleInv'
<1> USE DEF LifecycleInv, LifecycleTables, LifecycleRemembers, Lifecycle!EndsAsItWent,
            CycleStatus, PromoStatus
<1> HIDE DEF Lapsing
<1> SUFFICES ASSUME LifecycleInv, [Lifecycle!Next]_(Lifecycle!vars) PROVE LifecycleInv'
  OBVIOUS
<1>1. ASSUME NEW w \in Weeks, Lifecycle!Open(w) PROVE LifecycleInv'
  BY <1>1 DEF Lifecycle!Open
<1>2. ASSUME NEW w \in Weeks, Lifecycle!Close(w) PROVE LifecycleInv'
  BY <1>2 DEF Lifecycle!Close
<1>3. ASSUME NEW w \in Weeks, NEW S \in SUBSET Slots, Lifecycle!Propose(w, S)
      PROVE  LifecycleInv'
  BY <1>3 DEF Lifecycle!Propose
<1>4. ASSUME NEW w \in Weeks, NEW s \in Slots, Lifecycle!Answer(w, s) PROVE LifecycleInv'
  BY <1>4 DEF Lifecycle!Answer
<1>5. ASSUME NEW w \in Weeks, NEW s \in Slots, Lifecycle!Lapse(w, s) PROVE LifecycleInv'
  BY <1>5 DEF Lifecycle!Lapse
<1>6. ASSUME Lifecycle!Fail PROVE LifecycleInv'
  BY <1>6 DEF Lifecycle!Fail
<1>7. CASE UNCHANGED Lifecycle!vars
  BY <1>7 DEF Lifecycle!vars
<1>8. QED
  BY <1>1, <1>2, <1>3, <1>4, <1>5, <1>6, <1>7 DEF Lifecycle!Next

(* So a program that follows the life cycle ends its cycles as they went:   *)
(* nothing is pending in a closed one, an expired one has a reset slot, and *)
(* unless something has failed a completed one has none.                    *)
THEOREM CyclesEndAsTheyWent == SerialSpec => []Lifecycle!EndsAsItWent
<1>1. Init => LifecycleInv
  BY DEF Init, Lapsing, Remembers, Resetting, Idle, LifecycleInv, LifecycleTables, LifecycleRemembers,
         Lifecycle!EndsAsItWent, CycleStatus, PromoStatus
<1>2. LifecycleInv => Lifecycle!EndsAsItWent
  BY DEF LifecycleInv
<1>3. QED
  BY <1>1, <1>2, LifecycleIsFollowed, LifecycleStep, PTL
  DEF SerialSpec, FollowsLifecycle, Lifecycle!Spec

=============================================================================
