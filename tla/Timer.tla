--------------------------------- MODULE Timer ---------------------------------
(* BMZ's timers (timer.c) driven by the heartbeat tick (tick.c) and the part   *)
(* of bmz_run that runs them.  The tick interrupt may come between any two     *)
(* steps.  timer_run walks the list one timer per step, then calls the         *)
(* timeout handlers, which start, stop and reset timers like every other task. *)
(*                                                                             *)
(* Ghost variables, which no step reads: age, asked and lag0 remember of each  *)
(* timer the ticks since it was started, the ticks it was started for, and the *)
(* ticks that were already waiting to be charged when it was started.  A timer *)
(* that is postponed is as good as started again, for one tick; and age counts *)
(* no further than to what is too late in any case.                            *)
EXTENDS Naturals, Sequences, FiniteSets

CONSTANTS Timer,        \* the TIMER objects
          Duration,     \* the tick counts timers are started with
          MaxExpired,   \* the length of expired_timers[] (10 in the source)
          TickMod,      \* tick counts are modulo TickMod (2^32 in the source)
          MaxLag        \* bound: ticks that pass between two timer_runs

ASSUME TimerAssumption == /\ Duration \subseteq Nat \ {0}
                          /\ MaxExpired \in Nat \ {0}
                          /\ TickMod \in Nat
                          /\ MaxLag \in Nat
                          /\ MaxLag < TickMod

VARIABLES tick_count,      \* counted by timer1_isr
          previous,        \* bmz_run: tick count of the last timer_run
          sampled,         \* bmz_run: now, the tick count of this timer_run
          pc,              \* what the main program is doing, see PC
          list,            \* z.list, the chain of running timers, head first
          pos,             \* timer_run: the timer of the chain it has come to
          expired_timers,  \* timer_run: timers expired and not yet notified
          running, remaining, expired,     \* of each TIMER
          age, asked, lag0 \* ghosts
ghosts == <<age, asked, lag0>>
vars == <<tick_count, previous, sampled, pc, list, pos, expired_timers,
          running, remaining, expired, ghosts>>

(* "tasks": in the task loop; "scan": timer_run is walking the list;           *)
(* "notify": it is about to call the next timeout handler; "handler": in one.  *)
PC == {"tasks", "scan", "notify", "handler"}

Linked(t) == \E i \in 1..Len(list) : list[i] = t
Remove(s, i) == SubSeq(s, 1, i - 1) \o SubSeq(s, i + 1, Len(s))
Place(t) == CHOOSE i \in 1..Len(list) : list[i] = t

(* u32 arithmetic: the difference of two tick counts.                          *)
Since(now, then) == IF now >= then THEN now - then ELSE now + TickMod - then

(* Ticks that have passed and are not charged to the timer t yet.              *)
Charged(t) == \/ pc \in {"notify", "handler"}
              \/ pc = "scan" /\ \A i \in pos..Len(list) : list[i] # t
Lag(t) == Since(tick_count, IF Charged(t) THEN sampled ELSE previous)

Init == /\ tick_count \in 0..TickMod-1
        /\ previous = tick_count
        /\ sampled = tick_count
        /\ pc = "tasks"
        /\ list = <<>>
        /\ pos = 1
        /\ expired_timers = <<>>
        /\ running = [t \in Timer |-> FALSE]
        /\ remaining = [t \in Timer |-> 0]
        /\ expired = [t \in Timer |-> FALSE]
        /\ age = [t \in Timer |-> 0]
        /\ asked = [t \in Timer |-> 0]
        /\ lag0 = [t \in Timer |-> 0]

-------------------------------------------------------------------------------
(* timer1_isr, at any moment.                                                  *)
Tick == /\ Since(tick_count, previous) < MaxLag
        /\ tick_count' = IF tick_count + 1 = TickMod THEN 0 ELSE tick_count + 1
        /\ age' = [t \in Timer |-> IF running[t] /\ age[t] <= asked[t] + MaxLag
                                     THEN age[t] + 1 ELSE age[t]]
        /\ UNCHANGED <<previous, sampled, pc, list, pos, expired_timers,
                       running, remaining, expired, asked, lag0>>

(* The timer functions, called by tasks and by timeout handlers.               *)
InTask == pc \in {"tasks", "handler"}

Timed(t, n, waiting) == /\ age' = [age EXCEPT ![t] = 0]
                        /\ asked' = [asked EXCEPT ![t] = n]
                        /\ lag0' = [lag0 EXCEPT ![t] = waiting]

timer_startAgain(t, n) ==
    /\ InTask
    /\ remaining' = [remaining EXCEPT ![t] = n]
    /\ running' = [running EXCEPT ![t] = TRUE]
    /\ list' = <<t>> \o list
    /\ Timed(t, n, Lag(t))
    /\ UNCHANGED <<tick_count, previous, sampled, pc, pos, expired_timers, expired>>

timer_start(t, n) ==
    /\ InTask
    /\ remaining' = [remaining EXCEPT ![t] = n]
    /\ \/ running[t] /\ UNCHANGED <<running, list>>
       \/ /\ ~running[t]
          /\ running' = [running EXCEPT ![t] = TRUE]
          /\ list' = <<t>> \o list
    /\ Timed(t, n, Lag(t))
    /\ UNCHANGED <<tick_count, previous, sampled, pc, pos, expired_timers, expired>>

Unlink(t) == IF Linked(t)
               THEN /\ list' = Remove(list, Place(t))
                    /\ running' = [running EXCEPT ![t] = FALSE]
               ELSE UNCHANGED <<list, running>>

timer_stop(t) ==
    /\ InTask
    /\ Unlink(t)
    /\ UNCHANGED <<tick_count, previous, sampled, pc, pos, expired_timers,
                   remaining, expired, ghosts>>

timer_reset(t) ==
    /\ InTask
    /\ Unlink(t)
    /\ remaining' = [remaining EXCEPT ![t] = 0]
    /\ expired' = [expired EXCEPT ![t] = FALSE]
    /\ UNCHANGED <<tick_count, previous, sampled, pc, pos, expired_timers, ghosts>>

-------------------------------------------------------------------------------
(* bmz_run, the task loop is over: if the heartbeat has ticked, run timers.    *)
StartRun == /\ pc = "tasks"
            /\ tick_count # previous
            /\ sampled' = tick_count
            /\ pc' = "scan"
            /\ pos' = 1
            /\ UNCHANGED <<tick_count, previous, list, expired_timers, running,
                           remaining, expired, ghosts>>

(* One turn of timer_run's first loop, at the timer t: not due, due but        *)
(* expired_timers is full, or due.                                             *)
NotDueExact(t, n) == n # remaining[t]
NotDueEarly(t, n) == n + 1 < remaining[t]
NotDue(t, n) == n < remaining[t]

Keep(t, n) == /\ NotDue(t, n)
              /\ remaining' = [remaining EXCEPT ![t] = @ - n]
              /\ pos' = pos + 1
              /\ UNCHANGED <<list, running, expired, expired_timers, ghosts>>

Postpone(t, n) == /\ ~NotDue(t, n)
                  /\ Len(expired_timers) >= MaxExpired
                  /\ remaining' = [remaining EXCEPT ![t] = 1]
                  /\ Timed(t, 1, Since(tick_count, sampled))
                  /\ pos' = pos + 1
                  /\ UNCHANGED <<list, running, expired, expired_timers>>

ExpireSkipping(t, n) == /\ ~NotDue(t, n)
                        /\ Len(expired_timers) < MaxExpired
                        /\ expired_timers' = Append(expired_timers, t)
                        /\ list' = Remove(list, pos)
                        /\ remaining' = [remaining EXCEPT ![t] = 0]
                        /\ running' = [running EXCEPT ![t] = FALSE]
                        /\ expired' = [expired EXCEPT ![t] = TRUE]
                        /\ pos' = pos + 1
                        /\ UNCHANGED ghosts
Expire(t, n) == /\ ~NotDue(t, n)
                /\ Len(expired_timers) < MaxExpired
                /\ expired_timers' = Append(expired_timers, t)
                /\ list' = Remove(list, pos)
                /\ remaining' = [remaining EXCEPT ![t] = 0]
                /\ running' = [running EXCEPT ![t] = FALSE]
                /\ expired' = [expired EXCEPT ![t] = TRUE]
                /\ UNCHANGED <<pos, ghosts>>

Scan == /\ pc = "scan"
        /\ pos <= Len(list)
        /\ LET t == list[pos]
               n == Since(sampled, previous)
           IN  Keep(t, n) \/ Postpone(t, n) \/ Expire(t, n)
        /\ UNCHANGED <<tick_count, previous, sampled, pc>>

ScanDone == /\ pc = "scan"
            /\ pos > Len(list)
            /\ pc' = "notify"
            /\ UNCHANGED <<tick_count, previous, sampled, list, pos, expired_timers,
                           running, remaining, expired, ghosts>>

(* Its second loop: bmz_timeout calls the handler of the next expired timer.   *)
Notify == /\ pc = "notify"
          /\ expired_timers # <<>>
          /\ expired_timers' = Tail(expired_timers)
          /\ pc' = "handler"
          /\ UNCHANGED <<tick_count, previous, sampled, list, pos, running,
                         remaining, expired, ghosts>>

Return == /\ pc = "handler"
          /\ pc' = "notify"
          /\ UNCHANGED <<tick_count, previous, sampled, list, pos, expired_timers,
                         running, remaining, expired, ghosts>>

(* timer_run returns to bmz_run.                                               *)
EndRunResampled == /\ pc = "notify"
                   /\ expired_timers = <<>>
                   /\ previous' = tick_count
                   /\ pc' = "tasks"
                   /\ UNCHANGED <<tick_count, sampled, list, pos, expired_timers,
                                  running, remaining, expired, ghosts>>
EndRunForgetful == /\ pc = "notify"
                   /\ expired_timers = <<>>
                   /\ pc' = "tasks"
                   /\ UNCHANGED <<tick_count, previous, sampled, list, pos,
                                  expired_timers, running, remaining, expired, ghosts>>
EndRun == /\ pc = "notify"
          /\ expired_timers = <<>>
          /\ previous' = sampled
          /\ pc' = "tasks"
          /\ UNCHANGED <<tick_count, sampled, list, pos, expired_timers, running,
                         remaining, expired, ghosts>>

Calls == \E t \in Timer : \/ \E n \in Duration : timer_start(t, n)
                          \/ timer_stop(t)
                          \/ timer_reset(t)

MainLoop == StartRun \/ Scan \/ ScanDone \/ Notify \/ Return \/ EndRun

Next == Tick \/ Calls \/ MainLoop

Spec == Init /\ [][Next]_vars

(* The interrupt keeps coming and every handler returns.                       *)
Fairness == WF_vars(Tick) /\ WF_vars(MainLoop)
FairSpec == Spec /\ Fairness

-------------------------------------------------------------------------------
TypeOK == /\ tick_count \in 0..TickMod-1
          /\ previous \in 0..TickMod-1
          /\ sampled \in 0..TickMod-1
          /\ pc \in PC
          /\ list \in Seq(Timer)
          /\ pos \in Nat \ {0}
          /\ expired_timers \in Seq(Timer)
          /\ running \in [Timer -> BOOLEAN]
          /\ remaining \in [Timer -> Nat]
          /\ expired \in [Timer -> BOOLEAN]
          /\ age \in [Timer -> Nat]
          /\ asked \in [Timer -> Nat]
          /\ lag0 \in [Timer -> Nat]

(* timer_start trusts the running flag, timer_stop and timer_run the chain:    *)
(* the chain holds each running timer exactly once and no other.  A timer      *)
(* flagged but not chained would never expire, one chained twice would make    *)
(* the chain a cycle that timer_run never leaves.                              *)
ListConsistent == /\ \A t \in Timer : running[t] <=> Linked(t)
                  /\ \A i, j \in 1..Len(list) : list[i] = list[j] => i = j

(* What is left of a timer accounts for every tick since it was started, those *)
(* that came while a timer_run was walking the chain or calling handlers       *)
(* included: none is charged twice, and none but the lag0 ticks that were      *)
(* already waiting is charged that came before the start.                      *)
Account == \A t \in Timer : running[t] =>
              remaining[t] + age[t] + lag0[t] >= asked[t] + Lag(t)

(* No tick is lost either: what is left of a running timer and the ticks since *)
(* it was started exceed what was asked by no more than the ticks that are     *)
(* still to be charged, so that it is late by no more than those.              *)
OnTime == \A t \in Timer : running[t] => remaining[t] + age[t] <= asked[t] + Lag(t)

(* A timer expires at most lag0 ticks early, the ticks that were waiting to be *)
(* charged when it was started.                                                *)
EarlyByLagOnly ==
  [][\A t \in Timer : pc = "scan" /\ running[t] /\ ~running'[t]
                        => age[t] + lag0[t] >= asked[t]]_vars

(* timer_run finds the timer t due when expired_timers is full.                *)
Postponed(t) == /\ pc = "scan"
                /\ pos <= Len(list) /\ list[pos] = t
                /\ ~NotDue(t, Since(sampled, previous))
                /\ Len(expired_timers) >= MaxExpired

(* A running timer that nobody starts again expires or is stopped, whatever    *)
(* the other timers do meanwhile: their handlers may put them back at the head *)
(* of the chain as often as they expire.  The exception is one that finds      *)
(* expired_timers full again and again, for which there have to be more timers *)
(* than places in it.                                                          *)
Started(t) == \E n \in Duration : timer_start(t, n)
EventuallyExpires ==
    \A t \in Timer : <>[][~Started(t)]_vars =>
        (running[t] ~> ~running[t]) \/ []<>Postponed(t)
===============================================================================
