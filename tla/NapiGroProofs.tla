---------------------------- MODULE NapiGroProofs ----------------------------
(* Theorems about NapiGro: NAPI_STATE_SCHED is a lock, the timer is quiet  *)
(* while the context is disabled, the scheduling drives the engine only by *)
(* the engine's own steps, and held packets always have a wake-up coming.  *)
EXTENDS NapiGro, GroEngineProofs

-----------------------------------------------------------------------------
(* The control state: who owns the context.                                *)

Down == {"cancel", "down", "deleted"}

(* Ownership, owner by owner.                                              *)
OwnInv ==
  /\ sched <=> \/ poll_list # {}
               \/ \E c \in Cpus : pc[c] # "idle"
               \/ ctl \in Down
  /\ \A a, b \in poll_list : a = b
  /\ \A a, b \in Cpus : pc[a] # "idle" /\ pc[b] # "idle" => a = b
  /\ poll_list # {} => \A c \in Cpus : pc[c] = "idle"
  /\ ctl \in Down => poll_list = {} /\ \A c \in Cpus : pc[c] = "idle"

(* DISABLE is set only by napi_disable.                                    *)
DisableInv == disables = 0 => ~disable /\ ctl \in {"down", "up", "deleted"}

ControlInv == NapiTypeOK /\ OwnInv /\ QuietWhenDown /\ DisableInv

LEMMA InitControlInv == NapiInit => ControlInv
<1> SUFFICES ASSUME NapiInit PROVE ControlInv
  OBVIOUS
<1> USE DEF NapiInit
<1>1. \A c \in Cpus : pc[c] = "idle" /\ hardirq[c] = "none"
  OBVIOUS
<1>2. pc \in [Cpus -> PollPCs] /\ hardirq \in [Cpus -> HardirqPCs]
  <2>1. "idle" \in PollPCs /\ "none" \in HardirqPCs
    BY DEF PollPCs, HardirqPCs
  <2> QED
    BY <2>1
<1>3. NapiTypeOK
  <2>1. disables \in 0..MaxDisables
    BY MaxDisablesAssumption
  <2>2. /\ sched \in BOOLEAN /\ disable \in BOOLEAN /\ gro_flush_timeout \in BOOLEAN
        /\ poll_list = {} /\ timer = {} /\ ctl = "down"
    OBVIOUS
  <2> QED
    BY <1>2, <2>1, <2>2, Zenon DEF NapiTypeOK
<1>4. OwnInv
  BY <1>1 DEF OwnInv, Down
<1>5. QuietWhenDown
  BY <1>1 DEF QuietWhenDown, CallbackPCs
<1>6. DisableInv
  BY DEF DisableInv
<1> QED
  BY <1>3, <1>4, <1>5, <1>6 DEF ControlInv

LEMMA HardirqKeepsControl ==
  ASSUME ControlInv, NEW c \in Cpus, Interrupt(c) \/ TimerExpires(c) \/ HardirqStep(c)
  PROVE  ControlInv'
<1> USE DEF ControlInv, NapiTypeOK, HardirqPCs, CallbackPCs, GotoIrq
<1>1. CASE Interrupt(c)
  BY <1>1 DEF Interrupt, OwnInv, QuietWhenDown, DisableInv
<1>2. CASE TimerExpires(c)
  BY <1>2 DEF TimerExpires, OwnInv, QuietWhenDown, DisableInv
<1>3. CASE napi_watchdog(c)
  BY <1>3 DEF napi_watchdog, OwnInv, QuietWhenDown, DisableInv
<1>4. CASE TestDisable(c)
  BY <1>4 DEF TestDisable, OwnInv, QuietWhenDown, DisableInv
<1>5. CASE TestAndSetSched(c)
  BY <1>5 DEF TestAndSetSched, OwnInv, QuietWhenDown, DisableInv, Down
<1> QED
  BY <1>1, <1>2, <1>3, <1>4, <1>5 DEF HardirqStep

LEMMA SoftirqKeepsControl ==
  ASSUME ControlInv, NEW c \in Cpus, SoftirqStep(c) \/ Receive(c)
  PROVE  ControlInv'
<1> USE DEF ControlInv, NapiTypeOK, Softirq, PollPCs, Down
<1>1. CASE net_rx_action(c)
  BY <1>1 DEF net_rx_action, OwnInv, QuietWhenDown, DisableInv
<1>2. CASE PollReturns(c)
  BY <1>2 DEF PollReturns, OwnInv, QuietWhenDown, DisableInv
<1>3. CASE FlushStep(c)
  BY <1>3 DEF FlushStep, OwnInv, QuietWhenDown, DisableInv
<1>4. CASE BudgetUsed(c)
  <2>1. CASE disable
    BY <1>4, <2>1 DEF BudgetUsed, OwnInv, QuietWhenDown, DisableInv
  <2>2. CASE ~disable
    <3>1. /\ pc[c] = "full" /\ pc' = [pc EXCEPT ![c] = "repoll"]
          /\ UNCHANGED <<hardirq, gro_flush_timeout, ctl, disable, disables, sched, poll_list,
                         timer>>
      BY <1>4, <2>2 DEF BudgetUsed
    <3> QED
      BY <3>1 DEF OwnInv, QuietWhenDown, DisableInv
  <2> QED
    BY <2>1, <2>2
<1>5. CASE Repoll(c)
  BY <1>5 DEF Repoll, OwnInv, QuietWhenDown, DisableInv
<1>6. CASE CompleteDisabled(c)
  BY <1>6 DEF CompleteDisabled, OwnInv, QuietWhenDown, DisableInv
<1>7. CASE CompleteFlush(c)
  BY <1>7 DEF CompleteFlush, OwnInv, QuietWhenDown, DisableInv
<1>8. CASE StartTimer(c)
  BY <1>8 DEF StartTimer, OwnInv, QuietWhenDown, DisableInv
<1>9. CASE ClearSched(c)
  BY <1>9 DEF ClearSched, OwnInv, QuietWhenDown, DisableInv
<1>10. CASE Receive(c)
  BY <1>10 DEF Receive, OwnInv, QuietWhenDown, DisableInv
<1> QED
  BY <1>1, <1>2, <1>3, <1>4, <1>5, <1>6, <1>7, <1>8, <1>9, <1>10 DEF SoftirqStep

LEMMA ProcessKeepsControl ==
  ASSUME ControlInv,
         \/ napi_disable \/ DisableStep \/ napi_enable \/ Delete
         \/ change_gro_flush_timeout \/ ClockTick
  PROVE  ControlInv'
<1> USE MaxDisablesAssumption DEF ControlInv, NapiTypeOK, Down
<1>1. CASE napi_disable
  BY <1>1 DEF napi_disable, OwnInv, QuietWhenDown, DisableInv
<1>2. CASE DisableOwns
  BY <1>2 DEF DisableOwns, OwnInv, QuietWhenDown, DisableInv
<1>3. CASE DisableCancels
  BY <1>3 DEF DisableCancels, OwnInv, QuietWhenDown, DisableInv
<1>4. CASE napi_enable
  BY <1>4 DEF napi_enable, OwnInv, QuietWhenDown, DisableInv
<1>5. CASE Delete
  BY <1>5 DEF Delete, OwnInv, QuietWhenDown, DisableInv
<1>6. CASE change_gro_flush_timeout
  BY <1>6 DEF change_gro_flush_timeout, OwnInv, QuietWhenDown, DisableInv
<1>7. CASE ClockTick
  BY <1>7 DEF ClockTick, OwnInv, QuietWhenDown, DisableInv
<1> QED
  BY <1>1, <1>2, <1>3, <1>4, <1>5, <1>6, <1>7 DEF DisableStep

LEMMA NextKeepsControl ==
  ASSUME ControlInv, [NapiNext]_napi_vars
  PROVE  ControlInv'
<1>1. CASE NapiNext
  BY <1>1, HardirqKeepsControl, SoftirqKeepsControl, ProcessKeepsControl DEF NapiNext
<1>2. CASE UNCHANGED napi_vars
  BY <1>2 DEF napi_vars, ControlInv, NapiTypeOK, OwnInv, QuietWhenDown, DisableInv
<1> QED
  BY <1>1, <1>2

LEMMA ControlInvariance == NapiSpec => []ControlInv
BY InitControlInv, NextKeepsControl, PTL DEF NapiSpec

LEMMA OwnInvImplies == ASSUME NapiTypeOK, OwnInv PROVE Ownership
<1> DEFINE queued   == {"queued"} \X poll_list
           polling  == {"polling"} \X {c \in Cpus : pc[c] # "idle"}
           disabled == IF ctl \in {"cancel", "down", "deleted"}
                       THEN {<<"disabled", "ctl">>} ELSE {}
<1>1. Owners = queued \cup polling \cup disabled
  BY DEF Owners
<1>2. queued # {} <=> poll_list # {}
  <2>1. \A c \in poll_list : <<"queued", c>> \in queued
    OBVIOUS
  <2>2. \A t \in queued : t[2] \in poll_list
    OBVIOUS
  <2> HIDE DEF queued
  <2> QED
    BY <2>1, <2>2
<1>3. polling # {} <=> \E c \in Cpus : pc[c] # "idle"
  <2>1. \A c \in Cpus : pc[c] # "idle" => <<"polling", c>> \in polling
    OBVIOUS
  <2>2. \A t \in polling : t[2] \in Cpus /\ pc[t[2]] # "idle"
    OBVIOUS
  <2> HIDE DEF polling
  <2> QED
    BY <2>1, <2>2
<1>4. disabled # {} <=> ctl \in Down
  BY DEF Down
<1>5. sched <=> Owners # {}
  BY <1>1, <1>2, <1>3, <1>4 DEF OwnInv
<1>6. \A a, b \in queued : a = b
  BY DEF OwnInv
<1>7. \A a, b \in polling : a = b
  BY DEF OwnInv
<1>8. \A a, b \in disabled : a = b
  OBVIOUS
<1>9. (queued # {} => polling = {} /\ disabled = {}) /\ (disabled # {} => polling = {})
  BY <1>2, <1>3, <1>4 DEF OwnInv
<1>10. \A a, b \in Owners : a = b
  <2> HIDE DEF queued, polling, disabled
  <2> QED
    BY <1>1, <1>6, <1>7, <1>8, <1>9
<1> QED
  BY <1>5, <1>10 DEF Ownership

(* NAPI_STATE_SCHED is set exactly while someone owns the context, and     *)
(* there is only one owner, on any number of CPUs: the engine's operations *)
(* never run side by side, and none runs while the context is disabled.    *)
THEOREM OwnershipCorrect == NapiSpec => []Ownership
<1>1. ControlInv => Ownership
  BY OwnInvImplies DEF ControlInv
<1> QED
  BY <1>1, ControlInvariance, PTL

(* The state bits, the poll lists, the program counters and the timer keep *)
(* their types.                                                            *)
THEOREM NapiTypeCorrect == NapiSpec => []NapiTypeOK
<1>1. ControlInv => NapiTypeOK
  BY DEF ControlInv
<1> QED
  BY <1>1, ControlInvariance, PTL

(* Once napi_disable has returned, and so when netif_napi_del frees the    *)
(* context, its timer is not enqueued and the callback does not run.       *)
THEOREM QuietCorrect == NapiSpec => []QuietWhenDown
<1>1. ControlInv => QuietWhenDown
  BY DEF ControlInv
<1> QED
  BY <1>1, ControlInvariance, PTL

-----------------------------------------------------------------------------
(* Every step of NapiGro is a step of the engine, or leaves it alone.      *)

LEMMA StepIsEngineStep ==
  ASSUME NapiTypeOK, [NapiNext]_napi_vars
  PROVE  [Next]_vars
<1>1. ASSUME NEW c \in Cpus, Interrupt(c) \/ TimerExpires(c) \/ HardirqStep(c)
      PROVE  UNCHANGED vars
  BY <1>1 DEF Interrupt, TimerExpires, HardirqStep, napi_watchdog, TestDisable,
              TestAndSetSched
<1>2. ASSUME NEW c \in Cpus, SoftirqStep(c) \/ Receive(c)
      PROVE  [Next]_vars
  <2>1. CASE net_rx_action(c)
    BY <2>1 DEF net_rx_action, Next
  <2>2. CASE PollReturns(c) \/ Repoll(c) \/ StartTimer(c) \/ ClearSched(c)
    BY <2>2 DEF PollReturns, Repoll, StartTimer, ClearSched
  <2>3. CASE FlushStep(c)
    BY <2>3 DEF FlushStep, Next
  <2>4. ASSUME NEW old \in BOOLEAN, StartFlush(old)
        PROVE  [Next]_vars
    BY <2>4 DEF StartFlush, Next
  <2>5. CASE BudgetUsed(c)
    BY <2>4, <2>5 DEF BudgetUsed
  <2>6. CASE CompleteDisabled(c)
    BY <2>4, <2>6 DEF CompleteDisabled
  <2>7. CASE CompleteFlush(c)
    BY <2>4, <2>7 DEF CompleteFlush, NapiTypeOK
  <2>8. CASE Receive(c)
    BY <2>8 DEF Receive, Next
  <2> QED
    BY <1>2, <2>1, <2>2, <2>3, <2>5, <2>6, <2>7, <2>8 DEF SoftirqStep
<1>3. CASE napi_disable \/ DisableStep \/ napi_enable \/ change_gro_flush_timeout
  BY <1>3 DEF napi_disable, DisableStep, DisableOwns, DisableCancels, napi_enable,
              change_gro_flush_timeout
<1>4. CASE Delete \/ ClockTick
  BY <1>4 DEF Delete, ClockTick, Next
<1>5. CASE UNCHANGED napi_vars
  BY <1>5 DEF napi_vars
<1> QED
  BY <1>1, <1>2, <1>3, <1>4, <1>5 DEF NapiNext

(* The scheduling never makes the engine do anything but its operations,   *)
(* one after the other: what holds of GroEngine holds of the whole.        *)
THEOREM EngineImplemented == NapiSpec => Spec
<1>1. NapiInit => Init
  BY DEF NapiInit
<1>2. ControlInv /\ [NapiNext]_napi_vars => [Next]_vars
  BY StepIsEngineStep DEF ControlInv
<1> QED
  BY <1>1, <1>2, ControlInvariance, PTL DEF NapiSpec, Spec
-----------------------------------------------------------------------------
(* Held packets have a wake-up.  Nothing may disable the context, and the  *)
(* timer may not expire before the poll that started it is over.           *)

(* Entries are only left to napi_gro_flush while a poll is on its way;     *)
(* when that poll is about to give up SCHED, the timer runs or everything  *)
(* that is still held is about to be flushed; a context that was never     *)
(* enabled or that is deleted holds nothing.                               *)
FlushInsidePoll == cursor > 0 => \E c \in Cpus : pc[c] # "idle"

ClearIsSafe ==
  \A c \in Cpus : pc[c] = "clear" =>
    \/ c \in timer
    \/ cursor = Len(gro_list) /\ (cursor > 0 => flush_old = FALSE)

DownHoldsNothing == ctl \in {"down", "deleted"} => gro_list = <<>>

WakeInv == FlushInsidePoll /\ ClearIsSafe /\ DownHoldsNothing /\ HeldHasWakeup

(* What the cases below know of the state.                                 *)
Calm ==
  /\ TypeOK /\ ControlInv /\ ControlInv' /\ WakeInv
  /\ TimerRaces = FALSE /\ disables = 0 /\ disables' = 0

EngineQuiet == UNCHANGED <<freed, gro_list, cursor, flush_old>>

LEMMA FlushAllEntry ==
  ASSUME TypeOK, FlushEntry, cursor = Len(gro_list), flush_old = FALSE
  PROVE  cursor' = Len(gro_list') /\ flush_old' = FALSE
<1> DEFINE q == gro_list[cursor].q
           k == CompleteCount(ofo[q], flush_old)
<1>1. cursor \in 1..Len(gro_list) /\ gro_list \in Seq(EntryType) /\ Len(gro_list) \in Nat
  <2>1. gro_list \in Seq(EntryType) /\ cursor \in 0..Len(gro_list)
    BY DEF TypeOK
  <2>2. cursor > 0
    BY DEF FlushEntry
  <2> QED
    BY <2>1, <2>2, LenProperties
<1>2. q \in Queues
  <2>1. gro_list[cursor] \in EntryType
    BY <1>1, ElementOfSeq
  <2> QED
    BY <2>1 DEF EntryType
<1>3. ofo[q] \in QueueType
  BY <1>2 DEF TypeOK
<1>4. ofo[q].items \in Seq(SkbType) /\ Len(ofo[q].items) \in Nat
  <2>1. ofo[q].items \in Seq(SkbType)
    BY <1>3 DEF QueueType
  <2> QED
    BY <2>1, LenProperties
<1>5. k = Len(ofo[q].items)
  BY Zenon DEF CompleteCount
<1> DEFINE queue == Complete(ofo[q], k)
<1>6. queue.items = SubSeq(ofo[q].items, k + 1, Len(ofo[q].items))
  <2>1. k \in 0..Len(ofo[q].items)
    BY <1>4, <1>5
  <2> HIDE DEF k
  <2> QED
    BY <1>3, <2>1, CompleteType
<1>7. queue.items = <<>>
  <2> DEFINE items == ofo[q].items
             n == Len(items)
  <2>1. queue.items = SubSeq(items, n + 1, n)
    BY <1>5, <1>6
  <2>2. items \in Seq(SkbType) /\ n \in Nat
    BY <1>4
  <2> HIDE DEF items, n
  <2>3. SubSeq(items, n + 1, n) = <<>>
    BY <2>2
  <2> QED
    BY <2>1, <2>3
<1>8. gro_list' = RemoveAt(gro_list, cursor) /\ cursor' = cursor - 1 /\ flush_old' = flush_old
  BY <1>7 DEF FlushEntry
<1>9. Len(RemoveAt(gro_list, cursor)) = Len(gro_list) - 1
  BY <1>1, RemoveAtProperties
<1> QED
  BY <1>1, <1>8, <1>9

LEMMA InitWakeInv == NapiInit => WakeInv
BY DEF NapiInit, Init, WakeInv, FlushInsidePoll, ClearIsSafe, DownHoldsNothing, HeldHasWakeup

LEMMA HardirqKeepsWake ==
  ASSUME Calm, NEW c \in Cpus, Interrupt(c) \/ TimerExpires(c) \/ HardirqStep(c)
  PROVE  WakeInv'
<1>1. EngineQuiet /\ UNCHANGED <<pc, ctl>>
  BY DEF EngineQuiet, vars, engine_vars, Interrupt, TimerExpires, HardirqStep, napi_watchdog,
         TestDisable, TestAndSetSched
<1>2. FlushInsidePoll' /\ DownHoldsNothing'
  BY <1>1 DEF Calm, WakeInv, EngineQuiet, FlushInsidePoll, DownHoldsNothing
<1>3. ClearIsSafe'
  <2>1. CASE TimerExpires(c)
    BY <1>1, <2>1 DEF TimerExpires, Calm, WakeInv, EngineQuiet, ClearIsSafe, ControlInv,
                      NapiTypeOK
  <2>2. CASE Interrupt(c) \/ HardirqStep(c)
    <3>1. timer' = timer
      BY <2>2 DEF Interrupt, HardirqStep, napi_watchdog, TestDisable, TestAndSetSched
    <3> QED
      BY <1>1, <3>1 DEF Calm, WakeInv, EngineQuiet, ClearIsSafe
  <2> QED
    BY <2>1, <2>2
<1>4. HeldHasWakeup'
  <2> SUFFICES ASSUME gro_list # <<>>, freed = <<>>
               PROVE  sched' \/ timer' # {} \/ \E d \in Cpus : hardirq'[d] \in CallbackPCs
    BY <1>1 DEF HeldHasWakeup, EngineQuiet, Deleted
  <2>1. sched \/ timer # {} \/ \E d \in Cpus : hardirq[d] \in CallbackPCs
    BY DEF Calm, WakeInv, HeldHasWakeup, Deleted
  <2>2. hardirq \in [Cpus -> HardirqPCs]
    BY DEF Calm, ControlInv, NapiTypeOK
  <2>3. CASE Interrupt(c)
    BY <2>1, <2>2, <2>3 DEF Interrupt, GotoIrq, CallbackPCs
  <2>4. CASE TimerExpires(c)
    BY <2>2, <2>4 DEF TimerExpires, GotoIrq, CallbackPCs
  <2>5. CASE napi_watchdog(c)
    <3>1. CASE sched
      BY <2>5, <3>1 DEF napi_watchdog
    <3>2. CASE ~sched
      <4>1. ~(cursor > 0)
        BY <3>2 DEF Calm, WakeInv, FlushInsidePoll, ControlInv, OwnInv
      <4>2. hardirq' = [hardirq EXCEPT ![c] = "timer_test"]
        BY <2>5, <4>1 DEF napi_watchdog, SeenHeld, GotoIrq
      <4> QED
        BY <2>2, <4>2 DEF CallbackPCs
    <3> QED
      BY <3>1, <3>2
  <2>6. CASE TestDisable(c)
    <3>1. ~disable
      BY DEF Calm, ControlInv, DisableInv
    <3>2. CASE hardirq[c] = "irq_test"
      <4>1. hardirq' = [hardirq EXCEPT ![c] = "irq_set"] /\ sched' = sched /\ timer' = timer
        BY <2>6, <3>1, <3>2 DEF TestDisable, GotoIrq
      <4> QED
        BY <2>1, <2>2, <3>2, <4>1 DEF CallbackPCs
    <3>3. CASE hardirq[c] = "timer_test"
      <4>1. hardirq' = [hardirq EXCEPT ![c] = "timer_set"]
        BY <2>6, <3>1, <3>3 DEF TestDisable, GotoIrq
      <4> QED
        BY <2>2, <4>1 DEF CallbackPCs
    <3> QED
      BY <2>6, <3>2, <3>3 DEF TestDisable
  <2>7. CASE TestAndSetSched(c)
    BY <2>7 DEF TestAndSetSched
  <2> QED
    BY <2>3, <2>4, <2>5, <2>6, <2>7 DEF HardirqStep
<1> QED
  BY <1>2, <1>3, <1>4 DEF WakeInv

(* A step inside of the poll of c: no other CPU is polling, and SCHED is   *)
(* set before and after.                                                   *)
LEMMA PollKeepsWake ==
  ASSUME Calm, NEW c \in Cpus, pc[c] # "idle", pc'[c] # "idle", UNCHANGED ctl,
         pc'[c] = "clear" =>
           \/ c \in timer'
           \/ cursor' = Len(gro_list') /\ (cursor' > 0 => flush_old' = FALSE)
  PROVE  WakeInv'
<1>1. FlushInsidePoll'
  BY DEF FlushInsidePoll
<1>2. \A d \in Cpus : pc'[d] # "idle" => d = c
  BY DEF Calm, ControlInv, OwnInv
<1>3. ClearIsSafe'
  BY <1>2 DEF ClearIsSafe
<1>4. DownHoldsNothing'
  BY DEF DownHoldsNothing, Calm, ControlInv, OwnInv, Down
<1>5. sched'
  BY DEF Calm, ControlInv, OwnInv
<1>6. HeldHasWakeup'
  BY <1>5 DEF HeldHasWakeup
<1> QED
  BY <1>1, <1>3, <1>4, <1>6 DEF WakeInv

LEMMA SoftirqKeepsWake ==
  ASSUME Calm, NEW c \in Cpus, SoftirqStep(c) \/ Receive(c)
  PROVE  WakeInv'
<1>1. pc \in [Cpus -> PollPCs]
  BY DEF Calm, ControlInv, NapiTypeOK
<1>2. CASE net_rx_action(c)
  <2>1. sched /\ ctl \notin Down /\ \A d \in Cpus : pc[d] = "idle"
    BY <1>2 DEF net_rx_action, Calm, ControlInv, OwnInv
  <2>2. /\ pc' = [pc EXCEPT ![c] = "poll"] /\ UNCHANGED <<ctl, sched, timer>>
        /\ cursor = 0 /\ EngineQuiet
    BY <1>2, <2>1 DEF net_rx_action, Softirq, napi_clean_tcp_ofo_queue, EngineQuiet
  <2>3. pc'[c] = "poll" /\ \A d \in Cpus : pc'[d] # "clear"
    BY <1>1, <2>1, <2>2
  <2> QED
    BY <2>1, <2>2, <2>3 DEF WakeInv, FlushInsidePoll, ClearIsSafe, DownHoldsNothing,
                            HeldHasWakeup, EngineQuiet, Down
<1>3. CASE PollReturns(c)
  <2>1. pc[c] = "poll" /\ pc'[c] \in {"full", "complete"} /\ UNCHANGED ctl
    BY <1>1, <1>3 DEF PollReturns, Softirq
  <2> QED
    BY <2>1, PollKeepsWake
<1>4. CASE FlushStep(c)
  <2>1. pc[c] # "idle" /\ pc'[c] = pc[c] /\ UNCHANGED <<ctl, timer>> /\ FlushEntry
    BY <1>1, <1>4 DEF FlushStep, Softirq
  <2>2. cursor > 0
    BY <2>1 DEF FlushEntry
  <2>3. ASSUME pc'[c] = "clear"
        PROVE  \/ c \in timer'
               \/ cursor' = Len(gro_list') /\ (cursor' > 0 => flush_old' = FALSE)
    <3>1. c \in timer \/ (cursor = Len(gro_list) /\ flush_old = FALSE)
      <4>1. ClearIsSafe
        BY DEF Calm, WakeInv
      <4>2. pc[c] = "clear"
        BY <2>1, <2>3
      <4>3. \/ c \in timer
            \/ cursor = Len(gro_list) /\ (cursor > 0 => flush_old = FALSE)
        BY <4>1, <4>2, Zenon DEF ClearIsSafe
      <4> QED
        BY <2>2, <4>3, Zenon
    <3>2. cursor = Len(gro_list) /\ flush_old = FALSE
          => cursor' = Len(gro_list') /\ flush_old' = FALSE
      BY <2>1, FlushAllEntry DEF Calm
    <3> QED
      BY <2>1, <3>1, <3>2
  <2> QED
    BY <2>1, <2>3, PollKeepsWake
<1>5. CASE BudgetUsed(c)
  <2>1. pc[c] = "full" /\ pc'[c] \in {"complete", "repoll"} /\ UNCHANGED ctl
    BY <1>1, <1>5 DEF BudgetUsed, Softirq
  <2> QED
    BY <2>1, PollKeepsWake
<1>6. CASE Repoll(c)
  <2>1. /\ pc[c] = "repoll" /\ pc' = [pc EXCEPT ![c] = "idle"] /\ UNCHANGED <<ctl, sched, timer>>
        /\ cursor = 0 /\ EngineQuiet
    BY <1>6 DEF Repoll, Softirq, EngineQuiet, vars
  <2>2. sched /\ ctl \notin Down /\ \A d \in Cpus : pc[d] # "idle" => d = c
    BY <2>1 DEF Calm, ControlInv, OwnInv
  <2>3. \A d \in Cpus : pc'[d] = "idle"
    BY <1>1, <2>1, <2>2
  <2> QED
    BY <2>1, <2>2, <2>3 DEF WakeInv, FlushInsidePoll, ClearIsSafe, DownHoldsNothing,
                            HeldHasWakeup, EngineQuiet, Down
<1>7. CASE CompleteDisabled(c)
  <2>1. pc[c] = "complete" /\ pc'[c] = "timeout" /\ UNCHANGED ctl
    BY <1>1, <1>7 DEF CompleteDisabled, Softirq
  <2> QED
    BY <2>1, PollKeepsWake
<1>8. CASE CompleteFlush(c)
  <2>1. /\ pc[c] = "timeout" /\ UNCHANGED ctl /\ StartFlush(gro_flush_timeout)
        /\ pc'[c] = IF gro_flush_timeout THEN "arm" ELSE "clear"
    BY <1>1, <1>8 DEF CompleteFlush, Softirq
  <2>2. ASSUME pc'[c] = "clear"
        PROVE  cursor' = Len(gro_list') /\ (cursor' > 0 => flush_old' = FALSE)
    <3>1. ~gro_flush_timeout /\ gro_flush_timeout = FALSE
      BY <2>1, <2>2 DEF Calm, ControlInv, NapiTypeOK
    <3>2. CASE gro_list = <<>>
      BY <2>1, <3>2 DEF StartFlush, vars
    <3>3. CASE gro_list # <<>>
      BY <2>1, <3>1, <3>3 DEF StartFlush, FlushBegin, engine_vars
    <3> QED
      BY <3>2, <3>3
  <2> QED
    BY <2>1, <2>2, PollKeepsWake
<1>9. CASE StartTimer(c)
  <2>1. /\ pc[c] = "arm" /\ pc'[c] = "clear" /\ UNCHANGED ctl /\ cursor = 0 /\ EngineQuiet
        /\ timer' = IF gro_list # <<>> THEN {c} ELSE timer
    BY <1>1, <1>9 DEF StartTimer, Softirq, EngineQuiet, vars
  <2>2. c \in timer' \/ (cursor' = Len(gro_list') /\ (cursor' > 0 => flush_old' = FALSE))
    BY <2>1 DEF EngineQuiet
  <2> QED
    BY <2>1, <2>2, PollKeepsWake
<1>10. CASE ClearSched(c)
  <2>1. /\ pc[c] = "clear" /\ pc' = [pc EXCEPT ![c] = "idle"] /\ UNCHANGED <<ctl, timer>>
        /\ cursor = 0 /\ EngineQuiet
    BY <1>10 DEF ClearSched, Softirq, EngineQuiet, vars
  <2>2. ctl \notin Down /\ \A d \in Cpus : pc[d] # "idle" => d = c
    BY <2>1 DEF Calm, ControlInv, OwnInv
  <2>3. \A d \in Cpus : pc'[d] = "idle"
    BY <1>1, <2>1, <2>2
  <2>4. timer # {} \/ gro_list = <<>>
    <3>1. c \in timer \/ Len(gro_list) = 0
      BY <2>1 DEF Calm, WakeInv, ClearIsSafe
    <3>2. gro_list \in Seq(EntryType)
      BY DEF Calm, TypeOK
    <3> QED
      BY <3>1, <3>2, EmptySeq
  <2> QED
    BY <2>1, <2>2, <2>3, <2>4 DEF WakeInv, FlushInsidePoll, ClearIsSafe, DownHoldsNothing,
                                  HeldHasWakeup, EngineQuiet, Down
<1>11. CASE Receive(c)
  <2>1. pc[c] = "poll" /\ pc'[c] = "poll" /\ UNCHANGED ctl
    BY <1>1, <1>11 DEF Receive, Softirq
  <2> QED
    BY <2>1, PollKeepsWake
<1> QED
  BY <1>2, <1>3, <1>4, <1>5, <1>6, <1>7, <1>8, <1>9, <1>10, <1>11 DEF SoftirqStep

LEMMA ProcessKeepsWake ==
  ASSUME Calm,
         \/ napi_disable \/ DisableStep \/ napi_enable \/ Delete
         \/ change_gro_flush_timeout \/ ClockTick
  PROVE  WakeInv'
<1>1. ctl \in {"down", "up", "deleted"} /\ ctl' \in {"down", "up", "deleted"}
  BY DEF Calm, ControlInv, DisableInv
<1>2. ~napi_disable /\ ~DisableStep
  BY <1>1 DEF napi_disable, DisableStep, DisableOwns, DisableCancels
<1>3. CASE napi_enable
  <2>1. ctl = "down" /\ EngineQuiet /\ UNCHANGED <<pc, timer>>
    BY <1>3 DEF napi_enable, EngineQuiet, vars
  <2>2. gro_list = <<>>
    BY <2>1 DEF Calm, WakeInv, DownHoldsNothing
  <2> QED
    BY <2>1, <2>2 DEF Calm, WakeInv, FlushInsidePoll, ClearIsSafe, DownHoldsNothing,
                      HeldHasWakeup, EngineQuiet
<1>4. CASE Delete
  <2>1. ctl = "down" /\ gro_list' = <<>> /\ UNCHANGED <<pc, timer, cursor>>
    BY <1>4 DEF Delete, netif_napi_del
  <2>2. \A d \in Cpus : pc[d] = "idle"
    BY <2>1 DEF Calm, ControlInv, OwnInv, Down
  <2> QED
    BY <2>1, <2>2 DEF Calm, WakeInv, FlushInsidePoll, ClearIsSafe, DownHoldsNothing,
                      HeldHasWakeup
<1>5. CASE change_gro_flush_timeout \/ ClockTick
  <2>1. EngineQuiet /\ UNCHANGED <<pc, timer, ctl, sched, hardirq>>
    BY <1>5 DEF change_gro_flush_timeout, ClockTick, Tick, EngineQuiet, vars
  <2> QED
    BY <2>1 DEF Calm, WakeInv, FlushInsidePoll, ClearIsSafe, DownHoldsNothing,
                HeldHasWakeup, EngineQuiet, Deleted
<1> QED
  BY <1>2, <1>3, <1>4, <1>5

LEMMA NextKeepsWake ==
  ASSUME TimerRaces = FALSE, MaxDisables = 0, TypeOK, ControlInv, ControlInv', WakeInv,
         [NapiNext]_napi_vars
  PROVE  WakeInv'
<1>1. Calm
  BY DEF Calm, ControlInv, NapiTypeOK
<1>2. CASE NapiNext
  BY <1>1, <1>2, HardirqKeepsWake, SoftirqKeepsWake, ProcessKeepsWake DEF NapiNext
<1>3. CASE UNCHANGED napi_vars
  BY <1>3 DEF napi_vars, vars, WakeInv, FlushInsidePoll, ClearIsSafe, DownHoldsNothing,
              HeldHasWakeup, Deleted
<1> QED
  BY <1>2, <1>3

(* Where nothing disables the context and the flush timer does not expire  *)
(* before the poll that started it has released SCHED, whenever packets    *)
(* are held someone is going to flush them: without the timer the last     *)
(* flush of a poll leaves nothing behind, with it the timer is enqueued    *)
(* before SCHED is released.                                               *)
THEOREM WakeupCorrect ==
  ASSUME TimerRaces = FALSE, MaxDisables = 0
  PROVE  NapiSpec => []HeldHasWakeup
<1>1. NapiSpec => []TypeOK
  BY EngineImplemented, TypeCorrect, PTL
<1>2. TypeOK /\ ControlInv /\ ControlInv' /\ WakeInv /\ [NapiNext]_napi_vars => WakeInv'
  BY NextKeepsWake
<1>3. WakeInv => HeldHasWakeup
  BY DEF WakeInv
<1> QED
  BY <1>1, <1>2, <1>3, InitWakeInv, ControlInvariance, PTL DEF NapiSpec
=============================================================================
