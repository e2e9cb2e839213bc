------------------------- MODULE SyncSchedulerProofs -------------------------
(***************************************************************************)
(* What the three atomics of the application give for any number of gRPC    *)
(* handlers, any refresh interval and any interleaving: one synchronization *)
(* at a time, and times that only move forward.                             *)
(*                                                                         *)
(* The invariant relates what a goroutine remembers between two atomic      *)
(* operations (a clock reading, a loaded nextSyncAt) to the shared times.   *)
(***************************************************************************)
EXTENDS SyncScheduler, TLAPS

\* A goroutine remembers no time that is still to come.  A nextSyncAt that it
\* is about to advance has passed by its clock reading.  GetInfo has loaded
\* lastSyncAt before it read the clock, and reports a later time.  The
\* completion time that is about to be stored is not older than lastSyncAt.
LocalInv(g) ==
    /\ local[g].now <= clock
    /\ local[g].last <= clock
    /\ pc[g] = "swap" => local[g].seen # 0 /\ local[g].seen <= local[g].now
    /\ pc[g] \in {"load", "swap", "reply"} /\ local[g].then = "reply"
            => local[g].last <= local[g].now
    /\ pc[g] = "reply" => /\ local[g].then = "reply"
                          /\ local[g].seen # 0 => local[g].seen > local[g].now
    /\ pc[g] = "store" => local[g].then = "store"
    /\ pc[g] \in {"load", "swap", "store"} /\ local[g].then = "store"
            => lastSyncAt <= local[g].now

\* Before Run has set the next time, there is none.
Booting == pc[Loop] \in {"boot", "now", "set_next"} => nextSyncAt = 0

SchedulerInv ==
    /\ TypeOK
    /\ SingleFlight
    /\ lastSyncAt <= clock
    /\ Booting
    /\ \A g \in Goroutines : LocalInv(g)

-----------------------------------------------------------------------------
(* Arithmetic of the grid.                                                   *)

\* The advanced time lies after the time it is advanced past.
LEMMA AdvancedIsLater ==
    ASSUME NEW from \in Nat, NEW time \in Nat, from <= time
    PROVE  /\ Advanced(from, time) \in Nat
           /\ Advanced(from, time) > time
<1> DEFINE q == (time - from) \div Interval
<1>1. /\ q \in Nat
      /\ time - from = Interval * q + ((time - from) % Interval)
      /\ (time - from) % Interval < Interval
    BY ScheduleAssumption, Z3
<1>2. (q + 1) * Interval = Interval * q + Interval
    BY <1>1, ScheduleAssumption
<1>3. QED
    BY <1>1, <1>2, ScheduleAssumption DEF Advanced

\* It is a whole number of intervals away.
LEMMA AdvancedOnGrid ==
    ASSUME NEW from \in Nat, NEW time \in Nat, from <= time
    PROVE  (Advanced(from, time) - from) % Interval = 0
<1> DEFINE k == (time - from) \div Interval + 1
<1>1. k \in Nat
    BY ScheduleAssumption, Z3
<1>2. Advanced(from, time) - from = k * Interval
    BY <1>1, ScheduleAssumption DEF Advanced
<1> HIDE DEF k
<1>3. (k * Interval) % Interval = 0
    BY <1>1, ScheduleAssumption, Z3
<1>4. QED
    BY <1>2, <1>3

-----------------------------------------------------------------------------

\* The initial state satisfies the invariant.
LEMMA InitInv == Init => SchedulerInv
<1> SUFFICES ASSUME Init PROVE SchedulerInv
    OBVIOUS
<1>1. TypeOK
    <2>1. NoLocal \in Local
        BY DEF NoLocal, Local
    <2>2. pc \in [Goroutines -> PC] /\ local \in [Goroutines -> Local]
        BY <2>1 DEF Init, PC
    <2>3. sighups \in 0 .. SighupBuf
        BY ScheduleAssumption DEF Init
    <2>4. tick \in BOOLEAN /\ synchronizing \in BOOLEAN
        BY DEF Init
    <2>5. /\ clock \in Nat \ {0} /\ nextTick \in Nat /\ sent \in Nat
          /\ lastSyncAt \in Nat /\ nextSyncAt \in Nat
        BY DEF Init
    <2>6. QED
        BY <2>2, <2>3, <2>4, <2>5 DEF TypeOK
<1>2. \A g \in Goroutines : ~Holds(g)
    BY DEF Init, Holds, Goroutines
<1>3. \A g \in Goroutines : LocalInv(g)
    BY DEF Init, LocalInv, NoLocal, Goroutines
<1>4. QED
    BY <1>1, <1>2, <1>3 DEF Init, SchedulerInv, SingleFlight, Booting

\* A goroutine takes a step that neither raises nor clears the flag, and that
\* does not store lastSyncAt.
LEMMA OneMoves ==
    ASSUME SchedulerInv, NEW g \in Goroutines, TypeOK',
           \A h \in Goroutines \ {g} : pc'[h] = pc[h] /\ local'[h] = local[h],
           UNCHANGED <<clock, synchronizing, lastSyncAt>>,
           LocalInv(g)', Holds(g)' <=> Holds(g), Booting'
    PROVE  SchedulerInv'
<1>1. \A h \in Goroutines : Holds(h)' <=> Holds(h)
    BY DEF Holds
<1>2. SingleFlight'
    BY <1>1 DEF SchedulerInv, SingleFlight
<1>3. \A h \in Goroutines : LocalInv(h)'
    BY DEF SchedulerInv, LocalInv
<1>4. QED
    BY <1>2, <1>3 DEF SchedulerInv

\* ... and one that only moves on between places outside Sync and forgets
\* nothing, or everything.
LEMMA OneArrives ==
    ASSUME SchedulerInv, NEW g \in Goroutines, NEW place \in PC,
           ~Holds(g), place \notin {"load", "swap", "reply", "sync", "store", "release"},
           Goto(g, place),
           local' = local \/ local' = [local EXCEPT ![g] = NoLocal],
           UNCHANGED <<clock, synchronizing, lastSyncAt, nextSyncAt>>,
           tick' \in BOOLEAN, nextTick' \in Nat, sighups' \in 0 .. SighupBuf, sent' \in Nat,
           g = Loop => place \notin {"boot", "now", "set_next"} \/ nextSyncAt = 0
    PROVE  SchedulerInv'
<1>1. /\ pc' = [pc EXCEPT ![g] = place] /\ pc'[g] = place
      /\ local'[g] \in {local[g], NoLocal} /\ local' \in [Goroutines -> Local]
    BY DEF Goto, SchedulerInv, TypeOK, NoLocal, Local
<1>2. TypeOK'
    BY <1>1 DEF SchedulerInv, TypeOK
<1>3. ~Holds(g)'
    BY <1>1 DEF Holds
<1>4. LocalInv(g)'
    BY <1>1 DEF SchedulerInv, TypeOK, LocalInv, NoLocal
<1>5. Booting'
    BY <1>1 DEF SchedulerInv, Booting
<1>6. \A h \in Goroutines \ {g} : pc'[h] = pc[h] /\ local'[h] = local[h]
    BY <1>1 DEF SchedulerInv, TypeOK
<1>7. QED
    BY <1>2, <1>3, <1>4, <1>5, <1>6, OneMoves

\* Reading the clock before advanceNextSyncAt.
LEMMA ReadClockStep ==
    ASSUME SchedulerInv, NEW g \in Goroutines,
           NEW place \in {"try", "store", "release", "reply"},
           pc[g] \notin {"load", "swap"},
           Holds(g) <=> place \in {"store", "release"},
           ReadClock(g, place),
           UNCHANGED <<clock, synchronizing, lastSyncAt, nextSyncAt>>,
           tick' \in BOOLEAN, UNCHANGED <<nextTick, sighups, sent>>
    PROVE  SchedulerInv'
<1>1. /\ pc' = [pc EXCEPT ![g] = "load"]
      /\ local' = [local EXCEPT ![g].now = clock, ![g].then = place]
    BY DEF ReadClock, Goto
<1>2. /\ local[g] \in Local /\ clock \in Nat /\ local \in [Goroutines -> Local]
      /\ pc \in [Goroutines -> PC]
    BY DEF SchedulerInv, TypeOK
<1>3. /\ local'[g] \in Local /\ local'[g].now = clock /\ local'[g].then = place
      /\ local'[g].last = local[g].last /\ pc'[g] = "load"
    BY <1>1, <1>2 DEF Local
<1>4. TypeOK'
    BY <1>1, <1>2, <1>3 DEF SchedulerInv, TypeOK, PC
<1>5. LocalInv(g)'
    BY <1>2, <1>3 DEF SchedulerInv, LocalInv
<1>6. Holds(g)' <=> Holds(g)
    BY <1>3 DEF Holds
<1>7. Booting'
    BY <1>1, <1>2 DEF SchedulerInv, Booting
<1>8. QED
    BY <1>1, <1>2, <1>4, <1>5, <1>6, <1>7, OneMoves

\* advanceNextSyncAt returns a time that is 0 or later than the one it was
\* given; nextSyncAt has not been touched before Run has set it.
LEMMA ReturnNextStep ==
    ASSUME SchedulerInv, NEW g \in Goroutines, pc[g] \in {"load", "swap"},
           NEW next \in Nat, next = 0 \/ next > local[g].now,
           ReturnNext(g, next), nextSyncAt' \in Nat,
           nextSyncAt = 0 => nextSyncAt' = 0,
           UNCHANGED <<timers, synchronizing, lastSyncAt>>
    PROVE  SchedulerInv'
<1>1. /\ local[g] \in Local /\ local \in [Goroutines -> Local]
      /\ pc \in [Goroutines -> PC]
    BY DEF SchedulerInv, TypeOK
<1> DEFINE after == CASE local[g].then = "reply" -> [local[g] EXCEPT !.seen = next]
                      [] local[g].then = "store" -> [local[g] EXCEPT !.seen = 0]
                      [] OTHER -> NoLocal
<1>2. /\ pc' = [pc EXCEPT ![g] = local[g].then]
      /\ local' = [local EXCEPT ![g] = after]
    BY DEF ReturnNext, Goto
<1>3. after \in Local
    BY <1>1 DEF Local, NoLocal
<1>4. pc'[g] = local[g].then /\ local'[g] = after
    BY <1>1, <1>2
<1>5. /\ local[g].then \in {"try", "store", "release", "reply"}
      /\ local[g].then = "reply" =>
            /\ after.then = "reply" /\ after.now = local[g].now
            /\ after.last = local[g].last /\ after.seen = next
      /\ local[g].then = "store" =>
            /\ after.then = "store" /\ after.now = local[g].now
            /\ after.last = local[g].last
      /\ local[g].then \in {"try", "release"} => after = NoLocal
    BY <1>1 DEF Local
<1> HIDE DEF after
<1>6. TypeOK'
    BY <1>1, <1>2, <1>3, <1>5 DEF SchedulerInv, TypeOK, timers, PC
<1>7. LocalInv(g)'
    BY <1>4, <1>5 DEF SchedulerInv, TypeOK, LocalInv, NoLocal, timers
<1>8. Holds(g)' <=> Holds(g)
    BY <1>4, <1>5 DEF Holds
<1>9. Booting'
    BY <1>1, <1>2, <1>5 DEF SchedulerInv, Booting
<1>10. QED
    BY <1>1, <1>2, <1>6, <1>7, <1>8, <1>9, OneMoves DEF timers

-----------------------------------------------------------------------------
(* The actions.                                                              *)

\* Time passes: the goroutines' readings become older, which the invariant allows.
LEMMA PassTimeStep == SchedulerInv /\ PassTime => SchedulerInv'
<1> SUFFICES ASSUME SchedulerInv, PassTime PROVE SchedulerInv'
    OBVIOUS
<1>1. /\ clock' = clock + 1
      /\ UNCHANGED <<sighups, sent, atomics, pc, local>>
    BY DEF PassTime
<1>2. tick' \in BOOLEAN /\ nextTick' \in Nat
    <2>1. \/ tick' = TRUE /\ nextTick' = nextTick + Interval
          \/ tick' = tick /\ nextTick' = nextTick
        BY DEF PassTime
    <2>2. tick \in BOOLEAN /\ nextTick \in Nat /\ nextTick + Interval \in Nat
        BY ScheduleAssumption DEF SchedulerInv, TypeOK
    <2>3. QED
        BY <2>1, <2>2
<1>3. TypeOK'
    BY <1>1, <1>2 DEF SchedulerInv, TypeOK, atomics
<1>4. SingleFlight'
    BY <1>1 DEF SchedulerInv, SingleFlight, Holds, atomics
<1>5. lastSyncAt' <= clock' /\ Booting'
    BY <1>1 DEF SchedulerInv, TypeOK, Booting, atomics
<1>6. ASSUME NEW g \in Goroutines PROVE LocalInv(g)'
    <2>1. local[g] \in Local /\ LocalInv(g) /\ clock \in Nat
        BY DEF SchedulerInv, TypeOK
    <2>2. local[g].now \in Nat /\ local[g].last \in Nat
        BY <2>1 DEF Local
    <2>3. QED
        BY <1>1, <2>1, <2>2 DEF LocalInv, atomics
<1>7. QED
    BY <1>3, <1>4, <1>5, <1>6 DEF SchedulerInv

\* A signal touches the channel only.
LEMMA SendSighupStep == SchedulerInv /\ SendSighup => SchedulerInv'
<1> SUFFICES ASSUME SchedulerInv, SendSighup PROVE SchedulerInv'
    OBVIOUS
<1>1. sighups' \in 0 .. SighupBuf /\ sent' \in Nat
    BY ScheduleAssumption DEF SendSighup, SchedulerInv, TypeOK
<1>2. UNCHANGED <<clock, nextTick, tick, atomics, pc, local>>
    BY DEF SendSighup
<1>3. TypeOK'
    BY <1>1, <1>2 DEF SchedulerInv, TypeOK, atomics
<1>4. SingleFlight'
    BY <1>2 DEF SchedulerInv, SingleFlight, Holds, atomics
<1>5. QED
    BY <1>2, <1>3, <1>4 DEF SchedulerInv, Booting, LocalInv, atomics

\* The loop between two synchronizations; SetNextSyncAt is the only step that may
\* set nextSyncAt for the first time.
LEMMA RunStep ==
    ASSUME SchedulerInv, RunLoop \/ Stop
    PROVE  SchedulerInv'
<1>1. /\ Loop \in Goroutines /\ clock \in Nat
      /\ pc \in [Goroutines -> PC] /\ local \in [Goroutines -> Local]
    BY DEF Goroutines, SchedulerInv, TypeOK
<1>2. /\ clock + Interval \in Nat
      /\ sighups > 0 => sighups - 1 \in 0 .. SighupBuf
    BY ScheduleAssumption DEF SchedulerInv, TypeOK
<1>3. CASE NewTicker
    <2>1. ~Holds(Loop)
        BY <1>3 DEF NewTicker, Holds
    <2>2. nextSyncAt = 0
        BY <1>3 DEF NewTicker, SchedulerInv, Booting
    <2>3. QED
        BY <1>1, <1>2, <1>3, <2>1, <2>2, OneArrives
            DEF NewTicker, PC, atomics, SchedulerInv, TypeOK
<1>4. CASE ReadFirst
    <2>1. /\ pc[Loop] = "now" /\ pc' = [pc EXCEPT ![Loop] = "set_next"]
          /\ local' = [local EXCEPT ![Loop].now = clock]
          /\ UNCHANGED <<timers, atomics>>
        BY <1>4 DEF ReadFirst, Goto
    <2>2. /\ local'[Loop] \in Local /\ local'[Loop].now = clock
          /\ local'[Loop].last = local[Loop].last /\ pc'[Loop] = "set_next"
        BY <1>1, <2>1 DEF Local
    <2>3. TypeOK'
        BY <1>1, <2>1, <2>2 DEF SchedulerInv, TypeOK, PC, timers, atomics
    <2>4. LocalInv(Loop)'
        BY <1>1, <2>1, <2>2 DEF SchedulerInv, LocalInv, timers
    <2>5. ~Holds(Loop) /\ ~Holds(Loop)'
        BY <2>1, <2>2 DEF Holds
    <2>6. Booting'
        BY <2>1 DEF SchedulerInv, Booting, atomics
    <2>7. QED
        BY <1>1, <2>1, <2>3, <2>4, <2>5, <2>6, OneMoves DEF timers, atomics
<1>5. CASE SetNextSyncAt
    <2>1. /\ pc[Loop] = "set_next" /\ pc' = [pc EXCEPT ![Loop] = "ready"]
          /\ local' = [local EXCEPT ![Loop] = NoLocal]
          /\ nextSyncAt' = local[Loop].now + Interval
          /\ UNCHANGED <<timers, synchronizing, lastSyncAt>>
        BY <1>5 DEF SetNextSyncAt, Arrive, Goto
    <2>2. /\ nextSyncAt' \in Nat /\ NoLocal \in Local
          /\ local'[Loop] = NoLocal /\ pc'[Loop] = "ready"
        BY <1>1, <2>1, ScheduleAssumption DEF Local, NoLocal
    <2>3. TypeOK'
        BY <1>1, <2>1, <2>2 DEF SchedulerInv, TypeOK, PC, timers
    <2>4. LocalInv(Loop)'
        BY <1>1, <2>1, <2>2 DEF LocalInv, NoLocal, timers
    <2>5. ~Holds(Loop) /\ ~Holds(Loop)'
        BY <2>1, <2>2 DEF Holds
    <2>6. Booting'
        BY <2>2 DEF Booting
    <2>7. QED
        BY <1>1, <2>1, <2>3, <2>4, <2>5, <2>6, OneMoves DEF timers
<1>6. CASE ReceiveTick
    <2>1. ~Holds(Loop) /\ pc[Loop] \notin {"load", "swap"}
        BY <1>6 DEF ReceiveTick, Holds
    <2>2. QED
        BY <1>1, <1>6, <2>1, ReadClockStep DEF ReceiveTick, atomics
<1>7. CASE ReceiveSighup
    <2>1. ~Holds(Loop)
        BY <1>7 DEF ReceiveSighup, Holds
    <2>2. QED
        BY <1>1, <1>2, <1>7, <2>1, OneArrives
            DEF ReceiveSighup, PC, atomics, SchedulerInv, TypeOK
<1>8. CASE Stop
    <2>1. ~Holds(Loop)
        BY <1>8 DEF Stop, Holds
    <2>2. QED
        BY <1>1, <1>8, <2>1, OneArrives
            DEF Stop, PC, atomics, timers, SchedulerInv, TypeOK
<1>9. QED
    BY <1>3, <1>4, <1>5, <1>6, <1>7, <1>8 DEF RunLoop

\* The handlers between their calls of the application.
LEMMA HandlerStep ==
    ASSUME SchedulerInv, NEW c \in Callers,
           CallSync(c) \/ CallGetInfo(c) \/ NextSyncAt(c) \/ ReplyInfo(c)
    PROVE  SchedulerInv'
<1>1. /\ c \in Goroutines /\ c # Loop /\ clock \in Nat
      /\ pc \in [Goroutines -> PC] /\ local \in [Goroutines -> Local]
    BY ScheduleAssumption DEF Goroutines, SchedulerInv, TypeOK
<1>2. CASE CallSync(c)
    <2>1. ~Holds(c)
        BY <1>2 DEF CallSync, Holds
    <2>2. QED
        BY <1>1, <1>2, <2>1, OneArrives
            DEF CallSync, PC, atomics, timers, SchedulerInv, TypeOK
<1>3. CASE CallGetInfo(c)
    <2>1. /\ pc[c] = "ready" /\ pc' = [pc EXCEPT ![c] = "next"]
          /\ local' = [local EXCEPT ![c].last = lastSyncAt]
          /\ UNCHANGED <<timers, atomics>>
        BY <1>3 DEF CallGetInfo, Goto
    <2>2. lastSyncAt \in Nat /\ lastSyncAt <= clock
        BY DEF SchedulerInv, TypeOK
    <2>3. /\ local'[c] \in Local /\ local'[c].now = local[c].now
          /\ local'[c].last = lastSyncAt /\ pc'[c] = "next"
        BY <1>1, <2>1, <2>2 DEF Local
    <2>4. TypeOK'
        BY <1>1, <2>1, <2>3 DEF SchedulerInv, TypeOK, PC, timers, atomics
    <2>5. LocalInv(c)'
        BY <1>1, <2>1, <2>2, <2>3 DEF SchedulerInv, LocalInv, timers
    <2>6. ~Holds(c) /\ ~Holds(c)' /\ Booting'
        BY <1>1, <2>1, <2>3 DEF Holds, SchedulerInv, Booting, atomics
    <2>7. QED
        BY <1>1, <2>1, <2>4, <2>5, <2>6, OneMoves DEF timers, atomics
<1>4. CASE NextSyncAt(c)
    <2>1. ~Holds(c) /\ pc[c] \notin {"load", "swap"}
        BY <1>4 DEF NextSyncAt, Holds
    <2>2. tick \in BOOLEAN
        BY DEF SchedulerInv, TypeOK
    <2>3. QED
        BY <1>1, <1>4, <2>1, <2>2, ReadClockStep DEF NextSyncAt, atomics, timers
<1>5. CASE ReplyInfo(c)
    <2>1. ~Holds(c)
        BY <1>5 DEF ReplyInfo, Holds
    <2>2. QED
        BY <1>1, <1>5, <2>1, OneArrives
            DEF ReplyInfo, Arrive, PC, atomics, timers, SchedulerInv, TypeOK
<1>6. QED
    BY <1>2, <1>3, <1>4, <1>5

\* advanceNextSyncAt: the loaded time has passed when it is swapped, so the
\* advanced one lies after the reading.
LEMMA AdvanceStep ==
    ASSUME SchedulerInv, NEW g \in Goroutines, Load(g) \/ Swap(g)
    PROVE  SchedulerInv'
<1>1. /\ clock \in Nat /\ nextSyncAt \in Nat /\ local[g] \in Local
      /\ pc \in [Goroutines -> PC] /\ local \in [Goroutines -> Local]
      /\ LocalInv(g)
    BY DEF SchedulerInv, TypeOK
<1>2. CASE Load(g) /\ (nextSyncAt = 0 \/ nextSyncAt > local[g].now)
    BY <1>1, <1>2, ReturnNextStep DEF Load, atomics
<1>3. CASE Load(g) /\ ~(nextSyncAt = 0 \/ nextSyncAt > local[g].now)
    <2>1. /\ pc[g] = "load" /\ pc' = [pc EXCEPT ![g] = "swap"]
          /\ local' = [local EXCEPT ![g].seen = nextSyncAt]
          /\ UNCHANGED <<timers, atomics>>
        BY <1>3 DEF Load, Goto
    <2>2. /\ local'[g] \in Local /\ local'[g].now = local[g].now
          /\ local'[g].last = local[g].last /\ local'[g].then = local[g].then
          /\ local'[g].seen = nextSyncAt /\ pc'[g] = "swap"
        BY <1>1, <2>1 DEF Local
    <2>3. nextSyncAt # 0 /\ nextSyncAt <= local[g].now
        BY <1>1, <1>3 DEF Local
    <2>4. TypeOK'
        BY <1>1, <2>1, <2>2 DEF SchedulerInv, TypeOK, PC, timers, atomics
    <2>5. LocalInv(g)'
        BY <1>1, <2>1, <2>2, <2>3 DEF LocalInv, timers, atomics
    <2>6. (Holds(g)' <=> Holds(g)) /\ Booting'
        BY <1>1, <2>1, <2>2 DEF Holds, SchedulerInv, Booting, atomics
    <2>7. QED
        BY <1>1, <2>1, <2>4, <2>5, <2>6, OneMoves DEF timers, atomics
<1>4. CASE Swap(g) /\ nextSyncAt = local[g].seen
    <2>1. /\ pc[g] = "swap"
          /\ nextSyncAt' = Advanced(local[g].seen, local[g].now)
          /\ ReturnNext(g, nextSyncAt')
          /\ UNCHANGED <<timers, synchronizing, lastSyncAt>>
        BY <1>4 DEF Swap
    <2>2. /\ local[g].seen \in Nat /\ local[g].now \in Nat
          /\ local[g].seen <= local[g].now /\ nextSyncAt # 0
        BY <1>1, <1>4, <2>1 DEF Local, LocalInv
    <2>3. nextSyncAt' \in Nat /\ nextSyncAt' > local[g].now
        BY <2>1, <2>2, AdvancedIsLater
    <2>4. QED
        BY <2>1, <2>2, <2>3, ReturnNextStep
<1>5. CASE Swap(g) /\ nextSyncAt # local[g].seen
    <2>1. /\ pc[g] = "swap" /\ pc' = [pc EXCEPT ![g] = "load"]
          /\ local' = [local EXCEPT ![g].seen = 0]
          /\ UNCHANGED <<timers, atomics>>
        BY <1>5 DEF Swap, Goto, atomics
    <2>2. /\ local'[g] \in Local /\ local'[g].now = local[g].now
          /\ local'[g].last = local[g].last /\ local'[g].then = local[g].then
          /\ pc'[g] = "load"
        BY <1>1, <2>1 DEF Local
    <2>3. TypeOK'
        BY <1>1, <2>1, <2>2 DEF SchedulerInv, TypeOK, PC, timers, atomics
    <2>4. LocalInv(g)'
        BY <1>1, <2>1, <2>2 DEF LocalInv, timers, atomics
    <2>5. (Holds(g)' <=> Holds(g)) /\ Booting'
        BY <1>1, <2>1, <2>2 DEF Holds, SchedulerInv, Booting, atomics
    <2>6. QED
        BY <1>1, <2>1, <2>3, <2>4, <2>5, OneMoves DEF timers, atomics
<1>6. QED
    BY <1>2, <1>3, <1>4, <1>5

\* The flag is set by one goroutine at a time, which is then its holder.
LEMMA TryStartStep ==
    ASSUME SchedulerInv, NEW g \in Goroutines, TryStart(g)
    PROVE  SchedulerInv'
<1>1. /\ pc[g] = "try" /\ ~Holds(g)
      /\ pc \in [Goroutines -> PC] /\ local \in [Goroutines -> Local]
    BY DEF TryStart, Holds, SchedulerInv, TypeOK
<1>2. CASE synchronizing
    BY <1>1, <1>2, OneArrives
        DEF TryStart, PC, timers, SchedulerInv, TypeOK
<1>3. CASE ~synchronizing
    <2>1. /\ pc' = [pc EXCEPT ![g] = "sync"] /\ synchronizing' = TRUE
          /\ UNCHANGED <<timers, lastSyncAt, nextSyncAt, local>>
        BY <1>3 DEF TryStart, Goto
    <2>2. TypeOK'
        BY <1>1, <2>1 DEF SchedulerInv, TypeOK, PC, timers
    <2>3. \A h \in Goroutines : ~Holds(h)
        BY <1>3 DEF SchedulerInv, SingleFlight
    <2>4. \A h \in Goroutines : Holds(h)' <=> h = g
        BY <1>1, <2>1, <2>3 DEF Holds
    <2>5. SingleFlight'
        BY <2>1, <2>4 DEF SingleFlight
    <2>6. \A h \in Goroutines : LocalInv(h)'
        BY <1>1, <2>1 DEF SchedulerInv, LocalInv, timers
    <2>7. lastSyncAt' <= clock' /\ Booting'
        BY <1>1, <2>1 DEF SchedulerInv, Booting, timers
    <2>8. QED
        BY <2>2, <2>5, <2>6, <2>7 DEF SchedulerInv
<1>4. QED
    BY <1>2, <1>3

\* The completion time is the newest reading there is.
LEMMA CompleteStep ==
    ASSUME SchedulerInv, NEW g \in Goroutines, Complete(g)
    PROVE  SchedulerInv'
<1>1. Holds(g) /\ pc[g] = "sync"
    BY DEF Complete, Holds
<1>2. PICK place \in {"store", "release"} : ReadClock(g, place)
    BY DEF Complete
<1>3. tick \in BOOLEAN /\ UNCHANGED <<timers, atomics>>
    BY DEF Complete, SchedulerInv, TypeOK
<1>4. QED
    BY <1>1, <1>2, <1>3, ReadClockStep DEF timers, atomics

\* Only the holder of the flag stores lastSyncAt, so no other completion time
\* waits to be stored.
LEMMA StoreStep ==
    ASSUME SchedulerInv, NEW g \in Goroutines, StoreLastSyncAt(g)
    PROVE  SchedulerInv'
<1>1. /\ pc[g] = "store" /\ pc' = [pc EXCEPT ![g] = "release"]
      /\ local' = [local EXCEPT ![g] = NoLocal] /\ lastSyncAt' = local[g].now
      /\ UNCHANGED <<timers, synchronizing, nextSyncAt>>
    BY DEF StoreLastSyncAt, Arrive, Goto
<1>2. /\ pc \in [Goroutines -> PC] /\ local \in [Goroutines -> Local]
      /\ LocalInv(g) /\ NoLocal \in Local
    BY DEF SchedulerInv, TypeOK, NoLocal, Local
<1>3. /\ pc'[g] = "release" /\ local'[g] = NoLocal
      /\ local[g].now \in Nat /\ local[g].now <= clock
    BY <1>1, <1>2 DEF Local, LocalInv
<1>4. TypeOK'
    BY <1>1, <1>2, <1>3 DEF SchedulerInv, TypeOK, PC, timers
<1>5. \A h \in Goroutines : Holds(h)' <=> Holds(h)
    BY <1>1, <1>2, <1>3 DEF Holds
<1>6. SingleFlight'
    BY <1>1, <1>5 DEF SchedulerInv, SingleFlight
<1>7. ASSUME NEW h \in Goroutines, h # g PROVE LocalInv(h)'
    <2>1. ~Holds(h)
        BY <1>1, <1>7 DEF SchedulerInv, SingleFlight, Holds
    <2>2. pc'[h] = pc[h] /\ local'[h] = local[h] /\ LocalInv(h)
        BY <1>1, <1>2, <1>7 DEF SchedulerInv
    <2>3. QED
        BY <1>1, <2>1, <2>2 DEF LocalInv, Holds, timers
<1>8. LocalInv(g)'
    BY <1>1, <1>3, <1>4 DEF LocalInv, NoLocal, TypeOK
<1>9. lastSyncAt' <= clock' /\ Booting'
    BY <1>1, <1>2, <1>3 DEF SchedulerInv, Booting, timers
<1>10. QED
    BY <1>4, <1>6, <1>7, <1>8, <1>9 DEF SchedulerInv

\* Only the holder clears the flag, so nobody holds it afterwards.
LEMMA ReleaseStep ==
    ASSUME SchedulerInv, NEW g \in Goroutines, Release(g)
    PROVE  SchedulerInv'
<1>1. /\ pc[g] = "release" /\ pc' = [pc EXCEPT ![g] = "ready"]
      /\ synchronizing' = FALSE
      /\ UNCHANGED <<timers, lastSyncAt, nextSyncAt, local>>
    BY DEF Release, Goto
<1>2. pc \in [Goroutines -> PC]
    BY DEF SchedulerInv, TypeOK
<1>3. TypeOK'
    BY <1>1, <1>2 DEF SchedulerInv, TypeOK, PC, timers
<1>4. \A h \in Goroutines : h # g => ~Holds(h)
    BY <1>1 DEF SchedulerInv, SingleFlight, Holds
<1>5. \A h \in Goroutines : ~Holds(h)'
    BY <1>1, <1>2, <1>4 DEF Holds
<1>6. SingleFlight'
    BY <1>1, <1>5 DEF SingleFlight
<1>7. \A h \in Goroutines : LocalInv(h)'
    BY <1>1, <1>2 DEF SchedulerInv, LocalInv, timers
<1>8. lastSyncAt' <= clock' /\ Booting'
    BY <1>1, <1>2 DEF SchedulerInv, Booting, timers
<1>9. QED
    BY <1>3, <1>6, <1>7, <1>8 DEF SchedulerInv

-----------------------------------------------------------------------------
(* The theorems.                                                             *)

\* Whatever the loop, a handler, the clock or a signal does next, the atomics
\* and the goroutines' local times stay related as SchedulerInv says.
LEMMA StepInv == SchedulerInv /\ [Next]_vars => SchedulerInv'
<1> SUFFICES ASSUME SchedulerInv, [Next]_vars PROVE SchedulerInv'
    OBVIOUS
<1>1. CASE PassTime
    BY <1>1, PassTimeStep
<1>2. CASE SendSighup
    BY <1>2, SendSighupStep
<1>3. CASE RunLoop \/ Stop
    BY <1>3, RunStep
<1>4. ASSUME NEW c \in Callers,
             CallSync(c) \/ CallGetInfo(c) \/ NextSyncAt(c) \/ ReplyInfo(c)
      PROVE  SchedulerInv'
    BY <1>4, HandlerStep
<1>5. ASSUME NEW g \in Goroutines, Work(g) PROVE SchedulerInv'
    BY <1>5, AdvanceStep, TryStartStep, CompleteStep, StoreStep, ReleaseStep
        DEF Work
<1>6. CASE UNCHANGED vars
    BY <1>6 DEF vars, timers, atomics, SchedulerInv, TypeOK, SingleFlight,
        Holds, Booting, LocalInv
<1>7. QED
    BY <1>1, <1>2, <1>3, <1>4, <1>5, <1>6 DEF Next

\* The inductive invariant holds of the running application.
THEOREM SchedulerInvariant == Spec => []SchedulerInv
    BY InitInv, StepInv, PTL DEF Spec

\* The application's state has its type, however many handlers run: the SIGHUP
\* channel never holds more than its buffer.
THEOREM SchedulerTypeCorrect == Spec => []TypeOK
<1>1. SchedulerInv => TypeOK
    BY DEF SchedulerInv
<1>2. QED
    BY <1>1, SchedulerInvariant, PTL

\* The flag admits one synchronization at a time, for any number of handlers,
\* and is set exactly while its holder is in Sync.
THEOREM OneSyncAtATime == Spec => []SingleFlight
<1>1. SchedulerInv => SingleFlight
    BY DEF SchedulerInv
<1>2. QED
    BY <1>1, SchedulerInvariant, PTL

\* GetInfo never reports a next synchronization that lies before its clock
\* reading or before the last synchronization it reports.
THEOREM InfoInOrder == Spec => []InfoIsInOrder
<1>1. SchedulerInv => InfoIsInOrder
    <2> SUFFICES ASSUME SchedulerInv, NEW c \in Callers,
                        pc[c] = "reply", local[c].seen # 0
                 PROVE  local[c].seen > local[c].now /\ local[c].seen > local[c].last
        BY DEF InfoIsInOrder
    <2>1. c \in Goroutines /\ local[c] \in Local /\ LocalInv(c)
        BY DEF Goroutines, SchedulerInv, TypeOK
    <2>2. /\ local[c].seen \in Nat /\ local[c].now \in Nat
          /\ local[c].last \in Nat
        BY <2>1 DEF Local
    <2>3. local[c].seen > local[c].now /\ local[c].last <= local[c].now
        BY <2>1 DEF LocalInv
    <2>4. QED
        BY <2>2, <2>3
<1>2. QED
    BY <1>1, SchedulerInvariant, PTL

\* The times only move forward: no goroutine moves next_sync_at back or off the
\* grid that Run set up, however old its clock reading is when it swaps; and a
\* completion time is stored before the flag is released, so an older one cannot
\* be waiting.
THEOREM TimesForward == Spec => TimesMoveForward
<1> DEFINE Moves == nextSyncAt # 0 /\ nextSyncAt' # nextSyncAt =>
                        /\ nextSyncAt' > nextSyncAt
                        /\ (nextSyncAt' - nextSyncAt) % Interval = 0
<1>1. SchedulerInv /\ [Next]_vars => [Moves]_vars
    <2> SUFFICES ASSUME SchedulerInv, Next, nextSyncAt # 0,
                        nextSyncAt' # nextSyncAt
                 PROVE  /\ nextSyncAt' > nextSyncAt
                        /\ (nextSyncAt' - nextSyncAt) % Interval = 0
        OBVIOUS
    <2>1. ~SetNextSyncAt
        BY DEF SetNextSyncAt, SchedulerInv, Booting
    <2>2. PICK g \in Goroutines : Swap(g)
        BY <2>1 DEF Next, PassTime, SendSighup, RunLoop, NewTicker, ReadFirst,
            ReceiveTick, ReceiveSighup, Stop, CallSync, CallGetInfo, NextSyncAt,
            ReplyInfo, Work, Load, TryStart, Complete, StoreLastSyncAt, Release,
            atomics
    <2>3. /\ nextSyncAt = local[g].seen /\ pc[g] = "swap"
          /\ nextSyncAt' = Advanced(nextSyncAt, local[g].now)
        BY <2>2 DEF Swap
    <2>4. /\ nextSyncAt \in Nat /\ local[g].now \in Nat
          /\ nextSyncAt <= local[g].now
        BY <2>3 DEF SchedulerInv, TypeOK, Local, LocalInv
    <2>5. nextSyncAt' \in Nat /\ nextSyncAt' > local[g].now
        BY <2>3, <2>4, AdvancedIsLater
    <2>6. (nextSyncAt' - nextSyncAt) % Interval = 0
        BY <2>3, <2>4, AdvancedOnGrid
    <2>7. QED
        BY <2>4, <2>5, <2>6
<1>2. SchedulerInv /\ [Next]_vars => [lastSyncAt' >= lastSyncAt]_vars
    <2> SUFFICES ASSUME SchedulerInv, Next PROVE lastSyncAt' >= lastSyncAt
        OBVIOUS
    <2>1. lastSyncAt \in Nat
        BY DEF SchedulerInv, TypeOK
    <2>2. CASE \E g \in Goroutines : StoreLastSyncAt(g)
        <3>1. PICK g \in Goroutines : StoreLastSyncAt(g)
            BY <2>2
        <3>2. LocalInv(g) /\ pc[g] = "store" /\ lastSyncAt' = local[g].now
            BY <3>1 DEF StoreLastSyncAt, SchedulerInv
        <3>3. lastSyncAt <= local[g].now
            BY <3>2 DEF LocalInv
        <3>4. local[g].now \in Nat
            BY DEF SchedulerInv, TypeOK, Local
        <3>5. QED
            BY <2>1, <3>2, <3>3, <3>4
    <2>3. CASE ~ \E g \in Goroutines : StoreLastSyncAt(g)
        <3>1. UNCHANGED lastSyncAt
            BY <2>3 DEF Next, PassTime, SendSighup, RunLoop, NewTicker, ReadFirst,
                SetNextSyncAt, ReceiveTick, ReceiveSighup, Stop, CallSync,
                CallGetInfo, NextSyncAt, ReplyInfo, Work, Load, Swap, TryStart,
                Complete, Release, atomics
        <3>2. QED
            BY <2>1, <3>1
    <2>4. QED
        BY <2>2, <2>3
<1>3. [Moves]_vars /\ [lastSyncAt' >= lastSyncAt]_vars
        => [/\ nextSyncAt # 0 /\ nextSyncAt' # nextSyncAt =>
                /\ nextSyncAt' > nextSyncAt
                /\ (nextSyncAt' - nextSyncAt) % Interval = 0
            /\ lastSyncAt' >= lastSyncAt]_vars
    OBVIOUS
<1>4. QED
    BY <1>1, <1>2, <1>3, SchedulerInvariant, PTL DEF Spec, TimesMoveForward

=============================================================================
