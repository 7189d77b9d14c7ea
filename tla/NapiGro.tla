------------------------------- MODULE NapiGro -------------------------------
(***************************************************************************)
(* The NAPI scheduling around the GRO engine, on several CPUs: interrupts  *)
(* and the flush timer schedule the context (napi_schedule), the softirq   *)
(* polls it (net_rx_action, napi_poll, the driver's poll function,         *)
(* napi_complete_done), and process context disables, enables and deletes  *)
(* it.  NAPI_STATE_SCHED is the lock that makes one of them at a time the  *)
(* owner of the engine; every step of the engine happens inside of it.     *)
(*                                                                         *)
(* A softirq and the hard interrupts that interrupt it share a CPU: the    *)
(* softirq waits while hardirq[c] is busy.  Steps of different CPUs        *)
(* interleave.  The driver is external: it may hand over any packet while  *)
(* it polls, and may return with or without having used up its budget.     *)
(***************************************************************************)
EXTENDS GroEngine

CONSTANTS
  Cpus,
  TimerRaces,   \* may the flush timer expire before the poll that started
                \* it has released NAPI_STATE_SCHED?
  MaxDisables   \* bound on the calls of napi_disable

ASSUME TimerRacesAssumption == TimerRaces \in BOOLEAN
ASSUME MaxDisablesAssumption == MaxDisables \in Nat

VARIABLES
  sched, disable,      \* NAPI_STATE_SCHED, NAPI_STATE_DISABLE
  poll_list,           \* CPUs whose softnet_data.poll_list holds the context
  pc,                  \* where the softirq of each CPU is
  hardirq,             \* where the hard interrupt on each CPU is
  timer,               \* the CPU on which the flush timer is enqueued, if any
  gro_flush_timeout,   \* is the device's flush timeout other than 0?
  ctl,                 \* process context: down, up, disabling, cancel, deleted
  disables

napi_vars ==
  <<vars, sched, disable, poll_list, pc, hardirq, timer, gro_flush_timeout, ctl, disables>>

PollPCs == {"idle", "poll", "full", "repoll", "complete", "timeout", "arm", "clear"}

CallbackPCs == {"timer_read", "timer_test", "timer_set"}

HardirqPCs == {"none", "irq_test", "irq_set"} \cup CallbackPCs

(* netif_napi_add leaves SCHED set: the context starts disabled.           *)
NapiInit ==
  /\ Init
  /\ sched = TRUE /\ disable = FALSE /\ poll_list = {} /\ timer = {}
  /\ pc = [c \in Cpus |-> "idle"] /\ hardirq = [c \in Cpus |-> "none"]
  /\ gro_flush_timeout \in BOOLEAN
  /\ ctl = "down" /\ disables = 0

-----------------------------------------------------------------------------
(* Hard interrupts.                                                        *)

GotoIrq(c, to) == hardirq' = [hardirq EXCEPT ![c] = to]

Interrupt(c) ==
  /\ ctl # "deleted"
  /\ hardirq[c] = "none"
  /\ GotoIrq(c, "irq_test")
  /\ UNCHANGED <<vars, sched, disable, poll_list, pc, timer, gro_flush_timeout, ctl, disables>>

(* The flush timer expires on the CPU it was started on.                   *)
TimerExpires(c) ==
  /\ c \in timer
  /\ hardirq[c] = "none"
  /\ TimerRaces \/ pc[c] # "clear"
  /\ timer' = timer \ {c}
  /\ GotoIrq(c, "timer_read")
  /\ UNCHANGED <<vars, sched, disable, poll_list, pc, gro_flush_timeout, ctl, disables>>

(* napi_watchdog reads gro_list without being the owner; napi_gro_flush    *)
(* empties it first and relinks the entries it keeps.                      *)
SeenHeld == IF cursor > 0 THEN cursor < Len(gro_list) ELSE gro_list # <<>>

napi_watchdog(c) ==
  /\ hardirq[c] = "timer_read"
  /\ GotoIrq(c, IF SeenHeld THEN "timer_test" ELSE "none")
  /\ UNCHANGED <<vars, sched, disable, poll_list, pc, timer, gro_flush_timeout, ctl, disables>>

(* napi_schedule_prep tests DISABLE, then tests and sets SCHED.            *)
TestDisable(c) ==
  /\ hardirq[c] \in {"irq_test", "timer_test"}
  /\ GotoIrq(c, CASE disable -> "none"
                  [] ~disable /\ hardirq[c] = "irq_test" -> "irq_set"
                  [] OTHER -> "timer_set")
  /\ UNCHANGED <<vars, sched, disable, poll_list, pc, timer, gro_flush_timeout, ctl, disables>>

(* Mutant of TestAndSetSched: the old value of the bit is not looked at.   *)
TestAndSetSchedAlways(c) ==
  /\ hardirq[c] \in {"irq_set", "timer_set"}
  /\ GotoIrq(c, "none")
  /\ sched' = TRUE
  /\ poll_list' = poll_list \cup {c}
  /\ UNCHANGED <<vars, disable, pc, timer, gro_flush_timeout, ctl, disables>>

(* Whoever sets SCHED adds the context to the poll list of its CPU.        *)
TestAndSetSched(c) ==
  /\ hardirq[c] \in {"irq_set", "timer_set"}
  /\ GotoIrq(c, "none")
  /\ sched' = TRUE
  /\ poll_list' = IF sched THEN poll_list ELSE poll_list \cup {c}
  /\ UNCHANGED <<vars, disable, pc, timer, gro_flush_timeout, ctl, disables>>

-----------------------------------------------------------------------------
(* The softirq.                                                            *)

Softirq(c, from, to) ==
  /\ hardirq[c] = "none"
  /\ pc[c] = from
  /\ pc' = [pc EXCEPT ![c] = to]
  /\ UNCHANGED <<hardirq, gro_flush_timeout, ctl, disable, disables>>

(* napi_gro_flush(n, old), which does nothing for an empty gro_list.       *)
StartFlush(old) ==
  /\ cursor = 0
  /\ IF gro_list = <<>> THEN UNCHANGED vars ELSE FlushBegin(old)

(* net_rx_action takes the context off the list and calls napi_poll.       *)
net_rx_action(c) ==
  /\ c \in poll_list
  /\ Softirq(c, "idle", IF sched THEN "poll" ELSE "idle")
  /\ poll_list' = poll_list \ {c}
  /\ napi_clean_tcp_ofo_queue
  /\ UNCHANGED <<sched, timer>>

Receive(c) ==
  /\ Softirq(c, "poll", "poll")
  /\ \E p \in Packets : napi_gro_receive(p)
  /\ UNCHANGED <<sched, poll_list, timer>>

(* The driver's poll function returns with its budget used up, or calls    *)
(* napi_complete_done and returns with less.                               *)
PollReturns(c) ==
  /\ \E to \in {"full", "complete"} : Softirq(c, "poll", to)
  /\ UNCHANGED <<vars, sched, poll_list, timer>>

FlushStep(c) ==
  /\ pc[c] # "idle"
  /\ Softirq(c, pc[c], pc[c])
  /\ FlushEntry
  /\ UNCHANGED <<sched, poll_list, timer>>

(* Mutants of BudgetUsed: a pending napi_disable is not looked at; packets *)
(* that are too old are not flushed.                                       *)
BudgetUsedNoDisable(c) ==
  /\ Softirq(c, "full", "repoll")
  /\ StartFlush(TRUE)
  /\ UNCHANGED <<sched, poll_list, timer>>

BudgetUsedNoFlush(c) ==
  /\ Softirq(c, "full", IF disable THEN "complete" ELSE "repoll")
  /\ UNCHANGED <<vars, sched, poll_list, timer>>

(* napi_poll when the budget is used up.                                   *)
BudgetUsed(c) ==
  /\ \/ /\ disable
        /\ Softirq(c, "full", "complete")
        /\ UNCHANGED vars
     \/ /\ ~disable
        /\ Softirq(c, "full", "repoll")
        /\ StartFlush(TRUE)
  /\ UNCHANGED <<sched, poll_list, timer>>

Repoll(c) ==
  /\ cursor = 0
  /\ Softirq(c, "repoll", "idle")
  /\ poll_list' = IF poll_list = {} THEN {c} ELSE poll_list
  /\ UNCHANGED <<vars, sched, timer>>

(* napi_complete_done flushes everything for a pending napi_disable; then  *)
(* what is old enough, or everything if there is no flush timeout;         *)
CompleteDisabled(c) ==
  /\ Softirq(c, "complete", "timeout")
  /\ IF disable THEN StartFlush(FALSE) ELSE cursor = 0 /\ UNCHANGED vars
  /\ UNCHANGED <<sched, poll_list, timer>>

(* Mutant of CompleteFlush: only what is old enough is flushed.            *)
CompleteFlushOld(c) ==
  /\ Softirq(c, "timeout", IF gro_flush_timeout THEN "arm" ELSE "clear")
  /\ StartFlush(TRUE)
  /\ UNCHANGED <<sched, poll_list, timer>>

CompleteFlush(c) ==
  /\ Softirq(c, "timeout", IF gro_flush_timeout THEN "arm" ELSE "clear")
  /\ StartFlush(gro_flush_timeout)
  /\ UNCHANGED <<sched, poll_list, timer>>

(* Mutants of StartTimer: the timer is left enqueued where it was, too; it *)
(* is not started.                                                         *)
StartTimerTwice(c) ==
  /\ cursor = 0
  /\ Softirq(c, "arm", "clear")
  /\ timer' = IF gro_list # <<>> THEN timer \cup {c} ELSE timer
  /\ UNCHANGED <<vars, sched, poll_list>>

StartTimerNever(c) ==
  /\ cursor = 0
  /\ Softirq(c, "arm", "clear")
  /\ UNCHANGED <<vars, sched, poll_list, timer>>

(* then it starts the timer if packets are left,                           *)
StartTimer(c) ==
  /\ cursor = 0
  /\ Softirq(c, "arm", "clear")
  /\ timer' = IF gro_list # <<>> THEN {c} ELSE timer
  /\ UNCHANGED <<vars, sched, poll_list>>

(* and gives up the ownership.                                             *)
ClearSched(c) ==
  /\ cursor = 0
  /\ Softirq(c, "clear", "idle")
  /\ sched' = FALSE
  /\ poll_list' = {}
  /\ UNCHANGED <<vars, timer>>

-----------------------------------------------------------------------------
(* Process context.                                                        *)

napi_disable ==
  /\ ctl = "up" /\ disables < MaxDisables
  /\ ctl' = "disabling" /\ disable' = TRUE
  /\ disables' = disables + 1
  /\ UNCHANGED <<vars, sched, poll_list, pc, hardirq, timer, gro_flush_timeout>>

(* It takes SCHED once the owner has released it,                          *)
DisableOwns ==
  /\ ctl = "disabling" /\ ~sched
  /\ ctl' = "cancel" /\ sched' = TRUE
  /\ UNCHANGED <<vars, disable, poll_list, pc, hardirq, timer, gro_flush_timeout, disables>>

(* Mutant of DisableCancels: a callback that runs is not waited for.       *)
DisableCancelsNoWait ==
  /\ ctl = "cancel"
  /\ ctl' = "down" /\ disable' = FALSE
  /\ timer' = {}
  /\ UNCHANGED <<vars, sched, poll_list, pc, hardirq, gro_flush_timeout, disables>>

(* and hrtimer_cancel dequeues the timer once its callback does not run.   *)
DisableCancels ==
  /\ ctl = "cancel"
  /\ \A c \in Cpus : hardirq[c] \notin CallbackPCs
  /\ ctl' = "down" /\ disable' = FALSE
  /\ timer' = {}
  /\ UNCHANGED <<vars, sched, poll_list, pc, hardirq, gro_flush_timeout, disables>>

napi_enable ==
  /\ ctl = "down"
  /\ ctl' = "up" /\ sched' = FALSE
  /\ UNCHANGED <<vars, disable, poll_list, pc, hardirq, timer, gro_flush_timeout, disables>>

Delete ==
  /\ ctl = "down"
  /\ ctl' = "deleted"
  /\ netif_napi_del
  /\ UNCHANGED <<sched, disable, poll_list, pc, hardirq, timer, gro_flush_timeout, disables>>

change_gro_flush_timeout ==
  /\ gro_flush_timeout' \in BOOLEAN
  /\ UNCHANGED <<vars, sched, disable, poll_list, pc, hardirq, timer, ctl, disables>>

ClockTick ==
  /\ Tick
  /\ UNCHANGED <<sched, disable, poll_list, pc, hardirq, timer, gro_flush_timeout, ctl, disables>>

-----------------------------------------------------------------------------
HardirqStep(c) == napi_watchdog(c) \/ TestDisable(c) \/ TestAndSetSched(c)

SoftirqStep(c) ==
  \/ net_rx_action(c) \/ PollReturns(c) \/ FlushStep(c)
  \/ BudgetUsed(c) \/ Repoll(c)
  \/ CompleteDisabled(c) \/ CompleteFlush(c) \/ StartTimer(c) \/ ClearSched(c)

DisableStep == DisableOwns \/ DisableCancels

NapiNext ==
  \/ \E c \in Cpus : \/ Interrupt(c) \/ TimerExpires(c) \/ HardirqStep(c)
                     \/ SoftirqStep(c) \/ Receive(c)
  \/ napi_disable \/ DisableStep \/ napi_enable \/ Delete
  \/ change_gro_flush_timeout
  \/ ClockTick

NapiSpec == NapiInit /\ [][NapiNext]_napi_vars

(* Interrupt handlers run to their end; a softirq that is not interrupted  *)
(* for ever goes on; the clock advances and an enqueued timer expires; and *)
(* the loop of napi_disable tries again.  A call of the driver's poll      *)
(* function returns; nothing is assumed of how, nor of interrupts.         *)
Fairness ==
  /\ \A c \in Cpus : /\ WF_napi_vars(HardirqStep(c))
                     /\ SF_napi_vars(SoftirqStep(c))
                     /\ SF_napi_vars(TimerExpires(c))
  /\ WF_napi_vars(DisableStep)
  /\ WF_napi_vars(ClockTick)

FairNapiSpec == NapiSpec /\ Fairness

-----------------------------------------------------------------------------
(* Properties.                                                             *)

(* Every variable has its type; the timer is enqueued at most once.        *)
NapiTypeOK ==
  /\ sched \in BOOLEAN /\ disable \in BOOLEAN /\ gro_flush_timeout \in BOOLEAN
  /\ poll_list \subseteq Cpus /\ timer \subseteq Cpus
  /\ \A a, b \in timer : a = b
  /\ pc \in [Cpus -> PollPCs] /\ hardirq \in [Cpus -> HardirqPCs]
  /\ ctl \in {"down", "up", "disabling", "cancel", "deleted"}
  /\ disables \in 0..MaxDisables

(* Who may touch the engine: a CPU that has the context on its poll list,  *)
(* one that polls it, and process context once it has disabled it.         *)
Owners ==
  ({"queued"} \X poll_list)
    \cup ({"polling"} \X {c \in Cpus : pc[c] # "idle"})
    \cup (IF ctl \in {"cancel", "down", "deleted"} THEN {<<"disabled", "ctl">>} ELSE {})

(* NAPI_STATE_SCHED is a lock (netdevice.h:339-344): it is set exactly as  *)
(* long as there is an owner, and there is never more than one, so the     *)
(* context is on no two poll lists, no two CPUs are inside the engine, and *)
(* none is while it is disabled or deleted.                                *)
Ownership ==
  /\ sched <=> Owners # {}
  /\ \A a, b \in Owners : a = b

(* After napi_disable, and so when netif_napi_del frees the context, the   *)
(* timer is not enqueued and its callback, which reads gro_list, does not  *)
(* run.                                                                    *)
QuietWhenDown ==
  ctl \in {"down", "deleted"} =>
    /\ timer = {}
    /\ \A c \in Cpus : hardirq[c] \notin CallbackPCs

(* While packets are held, someone is going to flush them: the context is  *)
(* owned by a poll that is yet to complete, the timer is enqueued, or its  *)
(* callback is about to schedule the context.                              *)
HeldHasWakeup ==
  gro_list # <<>> /\ ~Deleted =>
    sched \/ timer # {} \/ \E c \in Cpus : hardirq[c] \in CallbackPCs

(* A packet that is held does not stay so for ever, even if no interrupt   *)
(* and no other packet arrives.                                            *)
IsHeld(id) ==
  \E i \in 1..Len(gro_list) : \E j \in 1..Len(HeldItems[i]) :
    \E k \in 1..Len(HeldItems[i][j].pkts) : HeldItems[i][j].pkts[k] = id

HeldEventuallyUp == \A id \in 1..MaxPackets : IsHeld(id) ~> ~IsHeld(id)

(* napi_disable returns although the driver's poll function uses up its    *)
(* budget every time.                                                      *)
DisableTerminates == ctl = "disabling" ~> ctl = "down"
=============================================================================
