---------------------------- MODULE SyncScheduler ----------------------------
(***************************************************************************)
(* The application (src/internal/application/cs/app.go): the loop that runs *)
(* a synchronization at every tick and SIGHUP, the gRPC handlers that run   *)
(* one or read its times, and the three atomics they share.                 *)
(*                                                                         *)
(* Every atomic operation is an action, so a goroutine can be overtaken     *)
(* between reading the clock, loading nextSyncAt and swapping it.  The      *)
(* synchronization itself is Synchronizer; here it only takes time.  Time   *)
(* is a counter; 0 stands for a nil pointer.                                *)
(***************************************************************************)
EXTENDS Integers, FiniteSets

CONSTANTS
    Callers,        \* gRPC handler goroutines
    Loop,           \* the goroutine of Run
    Interval,       \* RefreshInterval
    SighupBuf,      \* sighupBuf
    MaxTime,        \* bound on the clock
    MaxSignals      \* bound on the SIGHUPs sent

ASSUME ScheduleAssumption ==
    /\ Loop \notin Callers
    /\ Interval \in Nat \ {0}
    /\ SighupBuf \in Nat
    /\ MaxTime \in Nat
    /\ MaxSignals \in Nat

VARIABLES
    clock,
    nextTick,       \* when the ticker fires next, 0 before NewTicker
    tick,           \* ticker.C holds a tick
    sighups,        \* signals in sighupChannel
    sent,           \* SIGHUPs sent so far
    synchronizing,
    lastSyncAt,
    nextSyncAt,
    pc,
    local           \* goroutine -> its local variables

timers == <<clock, nextTick, tick, sighups, sent>>
atomics == <<synchronizing, lastSyncAt, nextSyncAt>>
vars == <<timers, atomics, pc, local>>

Goroutines == Callers \cup {Loop}

PC == {"boot", "now", "set_next", "stopped",    \* Run
       "ready",                         \* in select, or no request in hand
       "load", "swap",                  \* advanceNextSyncAt
       "try", "sync", "store", "release",   \* Sync
       "next", "reply"}                 \* GetInfo

\* last: the lastSyncAt loaded; now: the time last read; seen: the nextSyncAt
\* loaded or returned; then: where advanceNextSyncAt returns to.
Local == [last : Nat, now : Nat, seen : Nat,
          then : {"try", "store", "release", "reply"}]

NoLocal == [last |-> 0, now |-> 0, seen |-> 0, then |-> "try"]

\* The flag is set and this goroutine is the one to clear it.
Holds(g) ==
    \/ pc[g] \in {"sync", "store", "release"}
    \/ pc[g] \in {"load", "swap"} /\ local[g].then \in {"store", "release"}

Goto(g, place) == pc' = [pc EXCEPT ![g] = place]

\* The values that are not read any more are dropped.
Arrive(g, place) ==
    /\ Goto(g, place)
    /\ local' = [local EXCEPT ![g] = NoLocal]

\* time.Now(), then advanceNextSyncAt, then on to the next place.
ReadClock(g, place) ==
    /\ local' = [local EXCEPT ![g].now = clock, ![g].then = place]
    /\ Goto(g, "load")

-----------------------------------------------------------------------------
(* Time and signals.                                                         *)

\* A ticker drops ticks that its reader is too slow for.
PassTime ==
    /\ clock < MaxTime
    /\ clock' = clock + 1
    /\ IF nextTick = clock'
        THEN tick' = TRUE /\ nextTick' = nextTick + Interval
        ELSE UNCHANGED <<tick, nextTick>>
    /\ UNCHANGED <<sighups, sent, atomics, pc, local>>

\* Mutant of SendSighup: the buffer has no end.
SendSighupUnbounded ==
    /\ pc[Loop] \notin {"boot", "now", "set_next", "stopped"}
    /\ sent < MaxSignals
    /\ sent' = sent + 1
    /\ sighups' = sighups + 1
    /\ UNCHANGED <<clock, nextTick, tick, atomics, pc, local>>

\* signal.Notify does not block: a signal that finds the buffer full is lost.
SendSighup ==
    /\ pc[Loop] \notin {"boot", "now", "set_next", "stopped"}
    /\ sent < MaxSignals
    /\ sent' = sent + 1
    /\ sighups' = IF sighups < SighupBuf THEN sighups + 1 ELSE sighups
    /\ UNCHANGED <<clock, nextTick, tick, atomics, pc, local>>

-----------------------------------------------------------------------------
(* Run.                                                                      *)

NewTicker ==
    /\ pc[Loop] = "boot"
    /\ nextTick' = clock + Interval
    /\ Goto(Loop, "now")
    /\ UNCHANGED <<clock, tick, sighups, sent, atomics, local>>

\* The argument of setNextSyncAt.
ReadFirst ==
    /\ pc[Loop] = "now"
    /\ local' = [local EXCEPT ![Loop].now = clock]
    /\ Goto(Loop, "set_next")
    /\ UNCHANGED <<timers, atomics>>

SetNextSyncAt ==
    /\ pc[Loop] = "set_next"
    /\ nextSyncAt' = local[Loop].now + Interval
    /\ Arrive(Loop, "ready")
    /\ UNCHANGED <<timers, synchronizing, lastSyncAt>>

\* Mutant of ReceiveTick: the tick moves nextSyncAt on and runs nothing.
ReceiveTickOnly ==
    /\ pc[Loop] = "ready"
    /\ tick
    /\ tick' = FALSE
    /\ UNCHANGED <<clock, nextTick, sighups, sent, atomics, pc, local>>

ReceiveTick ==
    /\ pc[Loop] = "ready"
    /\ tick
    /\ tick' = FALSE
    /\ ReadClock(Loop, "try")
    /\ UNCHANGED <<clock, nextTick, sighups, sent, atomics>>

ReceiveSighup ==
    /\ pc[Loop] = "ready"
    /\ sighups > 0
    /\ sighups' = sighups - 1
    /\ Goto(Loop, "try")
    /\ UNCHANGED <<clock, nextTick, tick, sent, atomics, local>>

\* The context is done.
Stop ==
    /\ pc[Loop] = "ready"
    /\ Goto(Loop, "stopped")
    /\ UNCHANGED <<timers, atomics, local>>

-----------------------------------------------------------------------------
(* The gRPC handlers Sync and GetInfo.                                       *)

CallSync(c) ==
    /\ pc[c] = "ready"
    /\ Goto(c, "try")
    /\ UNCHANGED <<timers, atomics, local>>

\* LastSyncAt, then NextSyncAt.
CallGetInfo(c) ==
    /\ pc[c] = "ready"
    /\ local' = [local EXCEPT ![c].last = lastSyncAt]
    /\ Goto(c, "next")
    /\ UNCHANGED <<timers, atomics>>

NextSyncAt(c) ==
    /\ pc[c] = "next"
    /\ ReadClock(c, "reply")
    /\ UNCHANGED <<timers, atomics>>

ReplyInfo(c) ==
    /\ pc[c] = "reply"
    /\ Arrive(c, "ready")
    /\ UNCHANGED <<timers, atomics>>

-----------------------------------------------------------------------------
(* advanceNextSyncAt                                                         *)

\* advanceNextSyncAt returns; its caller goes on with the time it had read,
\* GetInfo also with the result.
ReturnNext(g, next) ==
    /\ Goto(g, local[g].then)
    /\ local' = [local EXCEPT ![g] =
                    CASE @.then = "reply" -> [@ EXCEPT !.seen = next]
                      [] @.then = "store" -> [@ EXCEPT !.seen = 0]
                      [] OTHER -> NoLocal]

\* Mutant of Load: a time that has passed is returned as it is.
LoadOnly(g) ==
    /\ pc[g] = "load"
    /\ ReturnNext(g, nextSyncAt)
    /\ UNCHANGED <<timers, atomics>>

Load(g) ==
    /\ pc[g] = "load"
    /\ IF nextSyncAt = 0 \/ nextSyncAt > local[g].now
        THEN ReturnNext(g, nextSyncAt)
        ELSE Goto(g, "swap") /\ local' = [local EXCEPT ![g].seen = nextSyncAt]
    /\ UNCHANGED <<timers, atomics>>

\* The next grid point after a time.
Advanced(from, time) == from + ((time - from) \div Interval + 1) * Interval

Swap(g) ==
    /\ pc[g] = "swap"
    /\ IF nextSyncAt = local[g].seen
        THEN /\ nextSyncAt' = Advanced(local[g].seen, local[g].now)
             /\ ReturnNext(g, nextSyncAt')
        ELSE /\ Goto(g, "load")
             /\ local' = [local EXCEPT ![g].seen = 0]
             /\ UNCHANGED nextSyncAt
    /\ UNCHANGED <<timers, synchronizing, lastSyncAt>>

-----------------------------------------------------------------------------
(* Sync                                                                      *)

\* Mutant of TryStart: the flag is stored, not swapped.
TryStartStoring(g) ==
    /\ pc[g] = "try"
    /\ Goto(g, "sync")
    /\ synchronizing' = TRUE
    /\ UNCHANGED <<timers, lastSyncAt, nextSyncAt, local>>

\* A caller that loses the race gets ErrSyncInProgress; the loop drops the
\* tick or signal.
TryStart(g) ==
    /\ pc[g] = "try"
    /\ IF synchronizing
        THEN Goto(g, "ready") /\ UNCHANGED synchronizing
        ELSE Goto(g, "sync") /\ synchronizing' = TRUE
    /\ UNCHANGED <<timers, lastSyncAt, nextSyncAt, local>>

\* Mutant of Complete: the flag is cleared before the times are stored.
CompleteReleasing(g) ==
    /\ pc[g] = "sync"
    /\ synchronizing' = FALSE
    /\ \E place \in {"store", "release"} : ReadClock(g, place)
    /\ UNCHANGED <<timers, lastSyncAt, nextSyncAt>>

\* Mutant of Complete: after an error the flag stays set.
CompleteLeaking(g) ==
    /\ pc[g] = "sync"
    /\ ReadClock(g, "store") \/ Arrive(g, "ready")
    /\ UNCHANGED <<timers, atomics>>

\* synchronizer.Sync returns, with or without an error.
Complete(g) ==
    /\ pc[g] = "sync"
    /\ \E place \in {"store", "release"} : ReadClock(g, place)
    /\ UNCHANGED <<timers, atomics>>

StoreLastSyncAt(g) ==
    /\ pc[g] = "store"
    /\ lastSyncAt' = local[g].now
    /\ Arrive(g, "release")
    /\ UNCHANGED <<timers, synchronizing, nextSyncAt>>

Release(g) ==
    /\ pc[g] = "release"
    /\ synchronizing' = FALSE
    /\ Goto(g, "ready")
    /\ UNCHANGED <<timers, lastSyncAt, nextSyncAt, local>>

-----------------------------------------------------------------------------

Init ==
    /\ clock = 1
    /\ nextTick = 0 /\ tick = FALSE
    /\ sighups = 0 /\ sent = 0
    /\ synchronizing = FALSE /\ lastSyncAt = 0 /\ nextSyncAt = 0
    /\ pc = [g \in Goroutines |-> IF g = Loop THEN "boot" ELSE "ready"]
    /\ local = [g \in Goroutines |-> NoLocal]

\* What a goroutine does by itself once it has something to do.
Work(g) ==
    \/ Load(g) \/ Swap(g)
    \/ TryStart(g) \/ Complete(g) \/ StoreLastSyncAt(g) \/ Release(g)

RunLoop == NewTicker \/ ReadFirst \/ SetNextSyncAt \/ ReceiveTick \/ ReceiveSighup

Next ==
    \/ PassTime \/ SendSighup
    \/ RunLoop \/ Stop
    \/ \E c \in Callers : 
        CallSync(c) \/ CallGetInfo(c) \/ NextSyncAt(c) \/ ReplyInfo(c)
    \/ \E g \in Goroutines : Work(g)

Spec == Init /\ [][Next]_vars

\* Every goroutine is scheduled and every synchronization returns.
FairSpec ==
    /\ Spec
    /\ WF_vars(RunLoop)
    /\ \A g \in Goroutines : WF_vars(Work(g))
    /\ \A c \in Callers : WF_vars(NextSyncAt(c) \/ ReplyInfo(c))

-----------------------------------------------------------------------------

TypeOK ==
    /\ clock \in Nat \ {0} /\ nextTick \in Nat /\ tick \in BOOLEAN
    /\ sighups \in 0 .. SighupBuf /\ sent \in Nat
    /\ synchronizing \in BOOLEAN
    /\ lastSyncAt \in Nat /\ nextSyncAt \in Nat
    /\ pc \in [Goroutines -> PC]
    /\ local \in [Goroutines -> Local]

\* At most one synchronization runs, whoever asked for it, and the flag is
\* never left set by a goroutine that is no longer in Sync.
SingleFlight ==
    /\ synchronizing <=> \E g \in Goroutines : Holds(g)
    /\ \A g, h \in Goroutines : Holds(g) /\ Holds(h) => g = h

\* Once the timer runs, what GetInfo reports is in order: the next
\* synchronization lies after the time of the request and after the last one,
\* however often the request was overtaken in the loop.
InfoIsInOrder ==
    \A c \in Callers :
        pc[c] = "reply" /\ local[c].seen # 0
            => local[c].seen > local[c].now /\ local[c].seen > local[c].last

\* The times only move forward.  No goroutine with an old reading of the clock
\* moves next_sync_at back, or off the interval's grid: manual runs do not reset
\* the timer.  Of two runs the later one stores last_sync_at last.
TimesMoveForward ==
    [][/\ nextSyncAt # 0 /\ nextSyncAt' # nextSyncAt =>
            /\ nextSyncAt' > nextSyncAt
            /\ (nextSyncAt' - nextSyncAt) % Interval = 0
       /\ lastSyncAt' >= lastSyncAt]_vars

\* The flag does not stay set, so triggers are not refused for ever.
FlagIsCleared == synchronizing ~> ~synchronizing

\* A SIGHUP that reached the channel, or a tick, ends in a synchronization: one
\* of its own or the one that makes the loop drop it, unless the context is
\* done first.
TriggersRunASync ==
    (sighups > 0 \/ tick) ~> (synchronizing \/ pc[Loop] = "stopped")

=============================================================================
