---------------------------- MODULE Parts_proofs ----------------------------
(***************************************************************************)
(* The parts of the program that stand by themselves.                      *)
(*                                                                         *)
(* The timer wheel: for every set of keys and delays and every bound, a    *)
(* task is called once or withdrawn, and not before its deadline.          *)
(*                                                                         *)
(* The deadline of a datagram: for every width of the clocks, every        *)
(* deadline and every difference between the clocks, what elapsedMillis32  *)
(* returns, and what becomes of a datagram.                                *)
(*                                                                         *)
(* The addresses of SOCKS: for all addresses, payloads and sizes of the    *)
(* buffer, what is read back is what was written.                          *)
(*                                                                         *)
(* The reassembly: for all IDs, sizes and chunks, every order of arrival   *)
(* and every loss, an ID used again in time yields its datagrams.          *)
(***************************************************************************)
EXTENDS TimerWheel, Expiry, SocksAddress, Reassembly, SequenceTheorems,
        WellFoundedInduction, TLAPS

-----------------------------------------------------------------------------
(* The timer wheel *)

WheelSpec == WheelInit /\ [][WheelNext]_wheelVars

WheelTypes ==
    /\ clock \in Nat /\ asOf \in 0 .. clock
    /\ tasks \in [Key -> Nat] /\ deadline \in Seq(Nat)
    /\ due \subseteq Nat /\ withdrawn \subseteq Nat
    /\ called \in Seq(Nat)
    /\ wheel \in {"select", "lock", "call", "returned"}

\* A task is in the map once.
OneKeyEach ==
    \A k, l \in Key : tasks[k] = tasks[l] /\ tasks[k] # NoTask => k = l

\* Only while Run calls has it tasks to call.
DueWhileCalling == wheel # "call" => due = {}

WheelInv == WheelTypes /\ OneKeyEach /\ DueWhileCalling /\ TasksAccounted

-----------------------------------------------------------------------------
\* What appending to called does to the set of tasks called (timerwheel.go:69-71).
LEMMA CallsAdd ==
    ASSUME NEW s \in Seq(Nat), NEW t \in Nat
    PROVE  LET s2 == Append(s, t) IN
           /\ s2 \in Seq(Nat)
           /\ {s2[i] : i \in 1 .. Len(s2)} = {s[i] : i \in 1 .. Len(s)} \cup {t}
           /\ (\A i, j \in 1 .. Len(s) : s[i] = s[j] => i = j)
                /\ t \notin {s[i] : i \in 1 .. Len(s)}
              => \A i, j \in 1 .. Len(s2) : s2[i] = s2[j] => i = j
<1> DEFINE s2 == Append(s, t)
<1>1. /\ s2 \in Seq(Nat) /\ Len(s2) = Len(s) + 1 /\ Len(s) \in Nat
      /\ \A i \in 1 .. Len(s) : s2[i] = s[i]
      /\ s2[Len(s) + 1] = t
  OBVIOUS
<1> HIDE DEF s2
<1>2. {s2[i] : i \in 1 .. Len(s2)} = {s[i] : i \in 1 .. Len(s)} \cup {t}
  <2>1. ASSUME NEW i \in 1 .. Len(s2)
        PROVE  s2[i] \in {s[j] : j \in 1 .. Len(s)} \cup {t}
    <3>1. i \in 1 .. Len(s) \/ i = Len(s) + 1
      BY <1>1
    <3> QED BY <1>1, <3>1
  <2>2. ASSUME NEW i \in 1 .. Len(s)
        PROVE  s[i] \in {s2[j] : j \in 1 .. Len(s2)}
    <3>1. i \in 1 .. Len(s2) /\ s2[i] = s[i]
      BY <1>1
    <3> QED BY <3>1
  <2>3. t \in {s2[j] : j \in 1 .. Len(s2)}
    <3>1. Len(s) + 1 \in 1 .. Len(s2)
      BY <1>1
    <3> QED BY <1>1, <3>1
  <2> QED BY <2>1, <2>2, <2>3
<1>3. ASSUME \A i, j \in 1 .. Len(s) : s[i] = s[j] => i = j,
             t \notin {s[i] : i \in 1 .. Len(s)},
             NEW i \in 1 .. Len(s2), NEW j \in 1 .. Len(s2), s2[i] = s2[j]
      PROVE  i = j
  <2>1. /\ i \in 1 .. Len(s) \/ i = Len(s) + 1
        /\ j \in 1 .. Len(s) \/ j = Len(s) + 1
    BY <1>1
  <2> QED BY <1>1, <1>3, <2>1
<1> QED BY <1>1, <1>2, <1>3 DEF s2

-----------------------------------------------------------------------------
\* The wheel begins with no task (timerwheel.go:21-27).
LEMMA WheelInitially == WheelInit => WheelInv
  BY DEF WheelInit, WheelInv, WheelTypes, OneKeyEach, DueWhileCalling, TasksAccounted,
         Task, Held, Called, NoTask

\* Every step of the callers, of Run and of the clock keeps the tasks accounted for.
LEMMA WheelStep == WheelInv /\ [WheelNext]_wheelVars => WheelInv'
<1> SUFFICES ASSUME WheelInv, [WheelNext]_wheelVars PROVE WheelInv'
  OBVIOUS
<1> USE WheelAssumption DEF WheelInv, WheelTypes, NoTask
<1>1. CASE Schedule
  <2>1. PICK k \in Key, d \in Delay :
          /\ deadline' = Append(deadline, clock + d)
          /\ tasks' = [tasks EXCEPT ![k] = Len(deadline) + 1]
          /\ withdrawn' = withdrawn \cup ({tasks[k]} \ {NoTask})
    BY <1>1 DEF Schedule
  <2>2. UNCHANGED <<clock, tick, wheel, asOf, due, stopCh, called>>
    BY <1>1 DEF Schedule
  <2> DEFINE n == Len(deadline) + 1
  <2>3. /\ clock + d \in Nat /\ n \in Nat \ {0}
        /\ deadline' \in Seq(Nat) /\ Len(deadline') = n
        /\ \A t \in 1 .. Len(deadline) : deadline'[t] = deadline[t]
    BY <2>1
  <2>4. Task' = Task \cup {n} /\ n \notin Task
    BY <2>3 DEF Task
  <2>5. Called' = Called
    BY <2>2 DEF Called
  <2>6. Held \subseteq Task /\ due \subseteq Task /\ Called \subseteq Task /\ withdrawn \subseteq Task
    BY DEF TasksAccounted
  <2>7. \A l \in Key : tasks'[l] = IF l = k THEN n ELSE tasks[l]
    BY <2>1
  <2>8. n \notin {tasks[l] : l \in Key}
    BY <2>3, <2>4, <2>6 DEF Held
  <2>9. WheelTypes'
    BY <2>1, <2>2, <2>3
  <2>10. OneKeyEach'
    BY <2>7, <2>8 DEF OneKeyEach
  <2>11. DueWhileCalling'
    BY <2>2 DEF DueWhileCalling
  <2> HIDE DEF n
  <2>12. Held' = (Held \ {tasks[k]}) \cup {n}
    <3>1. ASSUME NEW l \in Key, tasks'[l] # 0 PROVE tasks'[l] \in (Held \ {tasks[k]}) \cup {n}
      <4>1. CASE l = k
        BY <2>7, <4>1
      <4>2. CASE l # k
        <5>1. tasks'[l] = tasks[l] /\ tasks[l] # tasks[k]
          BY <2>7, <3>1, <4>2 DEF OneKeyEach
        <5> QED BY <3>1, <5>1 DEF Held
      <4> QED BY <4>1, <4>2
    <3>2. ASSUME NEW l \in Key, tasks[l] # 0, tasks[l] # tasks[k] PROVE tasks[l] \in Held'
      <4>1. tasks'[l] = tasks[l]
        BY <2>7, <3>2
      <4> QED BY <3>2, <4>1 DEF Held
    <3>3. n \in Held'
      BY <2>3, <2>7 DEF Held
    <3> QED BY <3>1, <3>2, <3>3 DEF Held
  <2>13. {tasks[k]} \ {NoTask} \subseteq Held
    BY DEF Held
  <2>14. TasksAccounted'
    <3> DEFINE old == {tasks[k]} \ {0}
    <3>0. /\ withdrawn' = withdrawn \cup old /\ due' = due
          /\ Held' = (Held \ old) \cup {n} /\ old \subseteq Held
      BY <2>1, <2>2, <2>12, <2>13 DEF Held
    <3> HIDE DEF old
    <3>1. /\ (Held \cup due \cup Called \cup withdrawn = Task)'
          /\ (Held \cap (due \cup Called \cup withdrawn) = {})'
          /\ (due \cap (Called \cup withdrawn) = {})'
          /\ (Called \cap withdrawn = {})'
      <4>1. /\ Held \cup due \cup Called \cup withdrawn = Task
            /\ Held \cap (due \cup Called \cup withdrawn) = {}
            /\ due \cap (Called \cup withdrawn) = {}
            /\ Called \cap withdrawn = {}
        BY DEF TasksAccounted
      <4>2. (Held \cup due \cup Called \cup withdrawn = Task)'
        BY <2>4, <2>5, <3>0, <4>1
      <4>3. (Held \cap (due \cup Called \cup withdrawn) = {})'
        <5> SUFFICES ASSUME NEW t \in Held', t \in due \/ t \in Called \/ t \in withdrawn \/ t \in old
                     PROVE  FALSE
          BY <2>5, <3>0
        <5>1. CASE t = n
          BY <2>4, <2>6, <3>0, <5>1
        <5>2. CASE t # n
          <6>1. t \in Held /\ t \notin old
            BY <3>0, <5>2
          <6> QED BY <4>1, <6>1
        <5> QED BY <5>1, <5>2
      <4>4. (due \cap (Called \cup withdrawn) = {})'
        BY <2>5, <3>0, <4>1
      <4>5. (Called \cap withdrawn = {})'
        BY <2>5, <3>0, <4>1
      <4> QED BY <4>2, <4>3, <4>4, <4>5
    <3>2. (\A i, j \in 1 .. Len(called) : called[i] = called[j] => i = j)'
      BY <2>2 DEF TasksAccounted
    <3>3. (\A t \in due \cup Called : deadline[t] <= clock)'
      BY <2>2, <2>3, <2>5, <2>6 DEF TasksAccounted, Task
    <3> QED BY <3>1, <3>2, <3>3 DEF TasksAccounted
  <2> QED BY <2>9, <2>10, <2>11, <2>14
<1>2. CASE Cancel
  <2>1. PICK k \in Key :
          /\ tasks[k] # NoTask
          /\ tasks' = [tasks EXCEPT ![k] = NoTask]
          /\ withdrawn' = withdrawn \cup {tasks[k]}
    BY <1>2 DEF Cancel
  <2>2. UNCHANGED <<clock, deadline, tick, wheel, asOf, due, stopCh, called>>
    BY <1>2 DEF Cancel
  <2>3. \A l \in Key : tasks'[l] = IF l = k THEN 0 ELSE tasks[l]
    BY <2>1
  <2>4. WheelTypes' /\ OneKeyEach' /\ DueWhileCalling'
    <3>1. WheelTypes'
      BY <2>1, <2>2
    <3>2. OneKeyEach'
      BY <2>3 DEF OneKeyEach
    <3>3. DueWhileCalling'
      BY <2>2 DEF DueWhileCalling
    <3> QED BY <3>1, <3>2, <3>3
  <2>5. Held' = Held \ {tasks[k]} /\ tasks[k] \in Held
    BY <2>1, <2>3 DEF Held, OneKeyEach
  <2>6. Task' = Task /\ Called' = Called
    BY <2>2 DEF Task, Called
  <2>7. TasksAccounted'
    <3>1. /\ (Held \cup due \cup Called \cup withdrawn = Task)'
          /\ (Held \cap (due \cup Called \cup withdrawn) = {})'
          /\ (due \cap (Called \cup withdrawn) = {})'
          /\ (Called \cap withdrawn = {})'
      BY <2>1, <2>2, <2>5, <2>6 DEF TasksAccounted
    <3> QED BY <2>2, <2>6, <3>1 DEF TasksAccounted
  <2> QED BY <2>4, <2>7
<1>3. CASE CollectsDue
  <2>1. /\ wheel = "lock" /\ due = {}
        /\ due' = {tasks[k] : k \in DueKeys}
        /\ tasks' = [k \in Key |-> IF k \in DueKeys THEN NoTask ELSE tasks[k]]
        /\ wheel' = "call"
        /\ UNCHANGED <<clock, deadline, asOf, called, withdrawn>>
    BY <1>3 DEF CollectsDue, DueWhileCalling
  <2>2. Held' = Held \ due' /\ due' \subseteq Held
    BY <2>1 DEF Held, DueKeys, OneKeyEach
  <2>3. Task' = Task /\ Called' = Called
    BY <2>1 DEF Task, Called
  <2>4. WheelTypes' /\ OneKeyEach' /\ DueWhileCalling'
    BY <2>1 DEF OneKeyEach, DueWhileCalling, DueKeys
  <2>5. \A t \in due' : deadline[t] <= clock
    <3>1. ASSUME NEW k \in DueKeys PROVE deadline[tasks[k]] <= clock
      <4>1. k \in Key /\ tasks[k] # 0 /\ deadline[tasks[k]] <= asOf
        BY <3>1 DEF DueKeys
      <4>2. tasks[k] \in 1 .. Len(deadline)
        BY <4>1 DEF TasksAccounted, Held, Task
      <4>3. deadline[tasks[k]] \in Nat
        BY <4>2
      <4> QED BY <4>1, <4>3
    <3> QED BY <2>1, <3>1
  <2>6. TasksAccounted'
    <3>1. /\ (Held \cup due \cup Called \cup withdrawn = Task)'
          /\ (Held \cap (due \cup Called \cup withdrawn) = {})'
          /\ (due \cap (Called \cup withdrawn) = {})'
          /\ (Called \cap withdrawn = {})'
      BY <2>1, <2>2, <2>3 DEF TasksAccounted
    <3> QED BY <2>1, <2>3, <2>5, <3>1 DEF TasksAccounted
  <2> QED BY <2>4, <2>6
<1>4. CASE CallsOne
  <2>1. PICK t \in due : called' = Append(called, t) /\ due' = due \ {t}
    BY <1>4 DEF CallsOne
  <2>2. wheel = "call" /\ UNCHANGED <<clock, tasks, deadline, tick, wheel, asOf, stopCh, withdrawn>>
    BY <1>4 DEF CallsOne
  <2>3. t \in Nat /\ t \notin Called
    BY DEF TasksAccounted
  <2>4. /\ called' \in Seq(Nat) /\ Called' = Called \cup {t}
        /\ \A i, j \in 1 .. Len(called') : called'[i] = called'[j] => i = j
    <3>1. called \in Seq(Nat) /\ \A i, j \in 1 .. Len(called) : called[i] = called[j] => i = j
      BY DEF TasksAccounted
    <3>2. t \notin {called[i] : i \in 1 .. Len(called)}
      BY <2>3 DEF Called
    <3>3. called' = Append(called, t) /\ t \in Nat
      BY <2>1, <2>3
    <3>4. /\ called' \in Seq(Nat)
          /\ {called'[i] : i \in 1 .. Len(called')} = {called[i] : i \in 1 .. Len(called)} \cup {t}
          /\ \A i, j \in 1 .. Len(called') : called'[i] = called'[j] => i = j
      BY <3>1, <3>2, <3>3, CallsAdd
    <3> QED BY <3>4 DEF Called
  <2>5. Task' = Task /\ Held' = Held
    BY <2>2 DEF Task, Held
  <2>6. WheelTypes' /\ OneKeyEach' /\ DueWhileCalling'
    BY <2>1, <2>2, <2>4 DEF OneKeyEach, DueWhileCalling
  <2>7. TasksAccounted'
    <3>1. /\ (Held \cup due \cup Called \cup withdrawn = Task)'
          /\ (Held \cap (due \cup Called \cup withdrawn) = {})'
          /\ (due \cap (Called \cup withdrawn) = {})'
          /\ (Called \cap withdrawn = {})'
      BY <2>1, <2>2, <2>4, <2>5 DEF TasksAccounted
    <3>2. (\A u \in due \cup Called : deadline[u] <= clock)'
      BY <2>1, <2>2, <2>4 DEF TasksAccounted
    <3> QED BY <2>4, <3>1, <3>2 DEF TasksAccounted
  <2> QED BY <2>6, <2>7
<1>5. ASSUME Stop \/ RunTakesTick \/ RunStops \/ CallsNoMore \/ ClockAdvances \/ Ticks
             \/ UNCHANGED wheelVars
      PROVE  WheelInv'
  <2>1. UNCHANGED <<tasks, deadline, due, called, withdrawn>>
    BY <1>5 DEF Stop, RunTakesTick, RunStops, CallsNoMore, ClockAdvances, Ticks, wheelVars
  <2>2. clock' \in {clock, clock + 1} /\ asOf' \in {asOf, clock} /\ (asOf' = asOf \/ clock' = clock)
    BY <1>5 DEF Stop, RunTakesTick, RunStops, CallsNoMore, ClockAdvances, Ticks, wheelVars
  <2>3. WheelTypes' /\ OneKeyEach' /\ DueWhileCalling'
    <3>1. WheelTypes'
      BY <1>5, <2>1, <2>2
         DEF Stop, RunTakesTick, RunStops, CallsNoMore, ClockAdvances, Ticks, wheelVars
    <3>2. DueWhileCalling'
      BY <1>5 DEF Stop, RunTakesTick, RunStops, CallsNoMore, ClockAdvances, Ticks, wheelVars,
                  DueWhileCalling
    <3> QED BY <2>1, <3>1, <3>2 DEF OneKeyEach
  <2>4. Task' = Task /\ Held' = Held /\ Called' = Called
    BY <2>1 DEF Task, Held, Called
  <2>5. (\A t \in due \cup Called : deadline[t] <= clock)'
    <3>1. ASSUME NEW t \in due \cup Called PROVE deadline[t] <= clock'
      <4>1. deadline[t] <= clock /\ t \in 1 .. Len(deadline)
        BY DEF TasksAccounted, Task
      <4>2. deadline[t] \in Nat
        BY <4>1
      <4> QED BY <2>2, <4>1, <4>2
    <3> QED BY <2>1, <2>4, <3>1
  <2> QED BY <2>1, <2>3, <2>4, <2>5 DEF TasksAccounted
<1> QED
  BY <1>1, <1>2, <1>3, <1>4, <1>5 DEF WheelNext, RunSteps

-----------------------------------------------------------------------------
\* Every task scheduled is in the map, collected, called or withdrawn, in one of
\* these, called once at most and not before its deadline (timerwheel.go:29-72).
\* Inductive with OneKeyEach, without which to cancel or to collect one key could
\* leave a task behind under another, and with DueWhileCalling, without which
\* a round could overwrite tasks that the last one has not called.
THEOREM TasksAreAccounted == WheelSpec => []TasksAccounted
<1>1. WheelInv => TasksAccounted
  BY DEF WheelInv
<1> QED
  BY WheelInitially, WheelStep, <1>1, PTL DEF WheelSpec

-----------------------------------------------------------------------------
(* The deadline of a datagram *)

ExpirySpec == ExpiryInit /\ [][ExpiryNext]_expiryVars

LEMMA WrapIsPositive == Wrap \in Nat \ {0}
BY ExpiryAssumption

\* A time is whole laps of the clock and what the clock shows.
LEMMA LapsAndRest ==
    ASSUME NEW ms \in Int
    PROVE  \E laps \in Int : ms = Wrap * laps + Low(ms) /\ Low(ms) \in 0 .. Wrap - 1
<1>1. ms = Wrap * (ms \div Wrap) + (ms % Wrap)
  BY WrapIsPositive, SMTT(20)
<1>2. ms \div Wrap \in Int /\ ms % Wrap \in 0 .. Wrap - 1
  BY WrapIsPositive
<1> QED BY <1>1, <1>2 DEF Low

LEMMA RestOfLaps ==
    ASSUME NEW laps \in Int, NEW rest \in 0 .. Wrap - 1
    PROVE  Low(Wrap * laps + rest) = rest
BY WrapIsPositive, SMTT(30) DEF Low

\* The clock less than a lap later (main.go:412, server.go:128).
LEMMA LowLater ==
    ASSUME NEW ms \in Int, NEW age \in 0 .. Wrap - 1
    PROVE  /\ Low(ms) \in 0 .. Wrap - 1
           /\ Low(ms + age) = IF Low(ms) + age < Wrap THEN Low(ms) + age
                              ELSE Low(ms) + age - Wrap
<1> USE WrapIsPositive
<1> DEFINE r == Low(ms)
<1>1. PICK laps \in Int : ms = Wrap * laps + r /\ r \in 0 .. Wrap - 1
  BY LapsAndRest
<1> HIDE DEF r
<1>2. CASE r + age < Wrap
  <2>1. ms + age = Wrap * laps + (r + age) /\ r + age \in 0 .. Wrap - 1
    BY <1>1, <1>2
  <2> QED BY <1>1, <1>2, <2>1, RestOfLaps DEF r
<1>3. CASE ~(r + age < Wrap)
  <2>1. r + age - Wrap \in 0 .. Wrap - 1 /\ laps + 1 \in Int
    BY <1>1, <1>3
  <2>2. Wrap * (laps + 1) = Wrap * laps + Wrap /\ Wrap * laps \in Int
    OBVIOUS
  <2>3. ms + age = Wrap * (laps + 1) + (r + age - Wrap)
    BY <1>1, <2>2
  <2>4. Low(ms + age) = r + age - Wrap
    BY <2>1, <2>3, RestOfLaps
  <2> QED BY <1>1, <1>3, <2>4 DEF r
<1> QED BY <1>2, <1>3

\* A whole lap later the clock shows the same.
LEMMA LowLap ==
    ASSUME NEW ms \in Int
    PROVE  Low(ms + Wrap) = Low(ms)
<1> USE WrapIsPositive
<1> DEFINE r == Low(ms)
<1>1. PICK laps \in Int : ms = Wrap * laps + r /\ r \in 0 .. Wrap - 1
  BY LapsAndRest
<1> HIDE DEF r
<1>2. Wrap * (laps + 1) = Wrap * laps + Wrap /\ Wrap * laps \in Int /\ laps + 1 \in Int
  OBVIOUS
<1>3. ms + Wrap = Wrap * (laps + 1) + r
  BY <1>1, <1>2
<1> QED BY <1>1, <1>2, <1>3, RestOfLaps DEF r

-----------------------------------------------------------------------------
\* elapsedMillis32 returns the time between two readings of a clock that are less
\* than a lap apart, whether or not it has wrapped between them
\* (server.go:143-148).
THEOREM ElapsedIsTheDifference ==
    ASSUME NEW ms \in Int, NEW age \in 0 .. Wrap - 1
    PROVE  Elapsed(Low(ms + age), Low(ms)) = age
<1> DEFINE r == Low(ms)
           s == Low(ms + age)
<1>1. /\ r \in 0 .. Wrap - 1 /\ Wrap \in Nat
      /\ s = IF r + age < Wrap THEN r + age ELSE r + age - Wrap
  BY LowLater, WrapIsPositive
<1> HIDE DEF r, s
<1>2. Elapsed(s, r) = age
  BY <1>1 DEF Elapsed
<1> QED BY <1>2 DEF r, s

-----------------------------------------------------------------------------
\* The stamps of the datagrams on their way are the client's clock as it was.
Stamped ==
    /\ now \in Nat /\ skew \in Int
    /\ \A d \in flying : d.at \in Int /\ d.sentMS = Low(d.at)

ExpiryInv == Stamped /\ ExpiryIsAge

LEMMA ExpiryStep == ExpiryInv /\ [ExpiryNext]_expiryVars => ExpiryInv'
<1> SUFFICES ASSUME ExpiryInv, [ExpiryNext]_expiryVars PROVE ExpiryInv'
  OBVIOUS
<1> USE DEF ExpiryInv, Stamped
<1>1. CASE SendsStamped
  BY <1>1 DEF SendsStamped, ExpiryIsAge
<1>2. CASE ServerJudges
  <2>1. PICK d \in flying :
          /\ flying' = flying \ {d}
          /\ verdict' = [given |-> TRUE, age |-> now - d.at,
                         dropped |-> Elapsed(Low(now + skew), d.sentMS) > DeadlineMS]
    BY <1>2 DEF ServerJudges
  <2>2. now' = now /\ skew' = skew
    BY <1>2 DEF ServerJudges
  <2> DEFINE apparent == now - d.at + skew
  <2>3. /\ d.at \in Int /\ apparent \in Int /\ d.sentMS = Low(d.at)
        /\ now + skew = d.at + apparent
        /\ Wrap \in Nat \ {0} /\ DeadlineMS \in 0 .. Wrap - 1
    BY ExpiryAssumption
  <2>4. verdict'.age + skew' = apparent
    BY <2>1, <2>2
  <2>5. verdict'.dropped <=> Elapsed(Low(now + skew), d.sentMS) > DeadlineMS
    BY <2>1
  <2> HIDE DEF apparent
  <2>6. ASSUME apparent \in 0 .. Wrap - 1
        PROVE  verdict'.dropped <=> apparent > DeadlineMS
    <3>1. Elapsed(Low(now + skew), d.sentMS) = apparent
      BY <2>3, <2>6, ElapsedIsTheDifference
    <3> QED BY <2>5, <3>1
  <2>7. ASSUME apparent \in -Wrap .. -1
        PROVE  verdict'.dropped <=> apparent > DeadlineMS - Wrap
    <3>1. apparent + Wrap \in 0 .. Wrap - 1
      BY <2>3, <2>7
    <3>2. Low(d.at + (apparent + Wrap)) = Low(now + skew)
      <4>1. d.at + (apparent + Wrap) = (d.at + apparent) + Wrap /\ d.at + apparent \in Int
        BY <2>3
      <4> QED BY <2>3, <4>1, LowLap
    <3>3. Elapsed(Low(now + skew), d.sentMS) = apparent + Wrap
      BY <2>3, <3>1, <3>2, ElapsedIsTheDifference
    <3>4. apparent + Wrap > DeadlineMS <=> apparent > DeadlineMS - Wrap
      BY <2>3
    <3> QED BY <2>5, <3>3, <3>4
  <2>8. ExpiryIsAge'
    BY <2>4, <2>6, <2>7 DEF ExpiryIsAge
  <2> QED BY <2>1, <2>2, <2>8
<1>3. CASE TimePasses
  BY <1>3 DEF TimePasses, ExpiryIsAge
<1>4. CASE UNCHANGED expiryVars
  BY <1>4 DEF expiryVars, ExpiryIsAge
<1> QED BY <1>1, <1>2, <1>3, <1>4 DEF ExpiryNext

\* A datagram is dropped by its age on the server's clock, wrapped or not
\* (server.go:127-130).  The verdict is about the stamp, so the invariant adds what
\* the stamps on their way are.
THEOREM VerdictIsByAge == ExpirySpec => []ExpiryIsAge
<1>1. ExpiryInit => ExpiryInv
  BY ExpiryAssumption DEF ExpiryInit, ExpiryInv, Stamped, ExpiryIsAge
<1>2. ExpiryInv => ExpiryIsAge
  BY DEF ExpiryInv
<1> QED BY <1>1, <1>2, ExpiryStep, PTL DEF ExpirySpec

-----------------------------------------------------------------------------
(* The addresses of SOCKS *)

\* An address as RFC 1928 allows it.
IsAddress(t) ==
    /\ t.atyp \in {IPv4, Name, IPv6} /\ t.host \in Octets /\ t.port \in Octets
    /\ t.atyp = IPv4 => Len(t.host) = 4
    /\ t.atyp = Name => Len(t.host) \in 0 .. 255
    /\ t.atyp = IPv6 => Len(t.host) = 16
    /\ Len(t.port) = 2

\* Bytes one after the other, as append makes them (main.go:479-501).
LEMMA OctetsJoined ==
    ASSUME NEW s \in Octets, NEW t \in Octets
    PROVE  /\ s \o t \in Octets
           /\ Len(s) \in Nat /\ Len(t) \in Nat /\ Len(s \o t) = Len(s) + Len(t)
           /\ \A i \in 1 .. Len(s) : (s \o t)[i] = s[i]
           /\ \A i \in 1 .. Len(t) : (s \o t)[Len(s) + i] = t[i]
<1>1. s \in Seq(0 .. 255) /\ t \in Seq(0 .. 255)
  BY DEF Octets
<1>2. /\ s \o t \in Octets /\ Len(s \o t) = Len(s) + Len(t)
      /\ \A i \in 1 .. Len(s) + Len(t) : (s \o t)[i] = IF i <= Len(s) THEN s[i] ELSE t[i - Len(s)]
  BY <1>1, ConcatProperties DEF Octets
<1>3. Len(s) \in Nat /\ Len(t) \in Nat
  BY <1>1, LenProperties
<1>4. \A i \in 1 .. Len(s) : (s \o t)[i] = s[i]
  BY <1>2, <1>3
<1>5. ASSUME NEW i \in 1 .. Len(t) PROVE (s \o t)[Len(s) + i] = t[i]
  <2>1. Len(s) + i \in 1 .. Len(s) + Len(t) /\ ~(Len(s) + i <= Len(s)) /\ (Len(s) + i) - Len(s) = i
    BY <1>3
  <2> QED BY <1>2, <2>1
<1> QED BY <1>2, <1>3, <1>4, <1>5

\* Bytes cut out of others, as a slice expression does (main.go:392, 397, 439).
LEMMA OctetsCut ==
    ASSUME NEW s \in Octets, NEW m \in Nat \ {0}, NEW n \in Nat, n <= Len(s)
    PROVE  /\ SubSeq(s, m, n) \in Octets
           /\ Len(SubSeq(s, m, n)) = IF m <= n THEN n - m + 1 ELSE 0
           /\ \A i \in 1 .. n - m + 1 : SubSeq(s, m, n)[i] = s[m + i - 1]
<1>1. s \in Seq(0 .. 255) /\ Len(s) \in Nat
  BY LenProperties DEF Octets
<1>2. \A i \in m .. n : s[i] \in 0 .. 255
  <2>1. \A i \in m .. n : i \in 1 .. Len(s)
    BY <1>1
  <2> QED BY <1>1, <2>1, ElementOfSeq
<1> QED BY <1>2, SubSeqProperties DEF Octets

\* Bytes are the same when they are the same one by one.
LEMMA OctetsEqual ==
    ASSUME NEW s \in Octets, NEW t \in Octets,
           Len(s) = Len(t), \A i \in 1 .. Len(s) : s[i] = t[i]
    PROVE  s = t
  BY SeqEqual DEF Octets

\* One byte.
LEMMA OneOctet ==
    ASSUME NEW x \in 0 .. 255
    PROVE  <<x>> \in Octets /\ Len(<<x>>) = 1 /\ <<x>>[1] = x
<1>1. <<x>> \in Seq(0 .. 255) /\ Len(<<x>>) = 1 /\ <<x>>[1] = x
  OBVIOUS
<1> QED BY <1>1 DEF Octets

\* The first bytes of others.
LEMMA OctetsBegin ==
    ASSUME NEW s \in Octets, NEW n \in Nat, n <= Len(s)
    PROVE  /\ SubSeq(s, 1, n) \in Octets /\ Len(SubSeq(s, 1, n)) = n
           /\ \A i \in 1 .. n : SubSeq(s, 1, n)[i] = s[i]
<1> DEFINE p == SubSeq(s, 1, n)
<1>1. /\ p \in Octets /\ Len(p) = IF 1 <= n THEN n - 1 + 1 ELSE 0
      /\ \A i \in 1 .. n - 1 + 1 : p[i] = s[1 + i - 1]
  <2>1. 1 \in Nat \ {0}
    OBVIOUS
  <2> QED BY <2>1, OctetsCut
<1> HIDE DEF p
<1>2. \A i \in 1 .. n : i \in 1 .. n - 1 + 1 /\ 1 + i - 1 = i
  OBVIOUS
<1>3. p \in Octets /\ Len(p) = n /\ \A i \in 1 .. n : p[i] = s[i]
  BY <1>1, <1>2
<1> QED BY <1>3 DEF p

\* Where Written puts the parts of an address, and that they are all there is
\* (RFC 1928; main.go:481-499).
LEMMA WrittenParts ==
    ASSUME NEW t, IsAddress(t)
    PROVE  LET w == Written(t) IN
           /\ w \in Octets /\ Len(t.host) \in Nat
           /\ Len(w) = HostAt(t.atyp) + Len(t.host) + 1
           /\ w[1] = t.atyp /\ (t.atyp = Name => w[2] = Len(t.host))
           /\ \A i \in 1 .. Len(t.host) : w[HostAt(t.atyp) + i - 1] = t.host[i]
           /\ \A i \in 1 .. 2 : w[HostAt(t.atyp) + Len(t.host) + i - 1] = t.port[i]
<1> DEFINE w == Written(t)
<1>1. /\ t.atyp \in {1, 3, 4} /\ t.host \in Octets /\ t.port \in Octets
      /\ Len(t.port) = 2 /\ Len(t.host) \in Nat /\ (t.atyp = Name => Len(t.host) \in 0 .. 255)
  <2>1. t.host \in Seq(0 .. 255)
    BY DEF IsAddress, Octets
  <2>2. Len(t.host) \in Nat
    BY <2>1, LenProperties
  <2>3. t.atyp = Name => Len(t.host) \in 0 .. 255
    BY DEF IsAddress
  <2>4. t.atyp \in {1, 3, 4}
    BY DEF IsAddress, IPv4, Name, IPv6
  <2> QED BY <2>2, <2>3, <2>4 DEF IsAddress
<1> DEFINE size == IF t.atyp = Name THEN <<Len(t.host)>> ELSE << >>
           front == <<t.atyp>> \o size
           body == front \o t.host
<1>2. /\ <<t.atyp>> \in Octets /\ Len(<<t.atyp>>) = 1 /\ <<t.atyp>>[1] = t.atyp
      /\ size \in Octets /\ Len(size) = HostAt(t.atyp) - 2
      /\ (t.atyp = Name => Len(size) = 1 /\ size[1] = Len(t.host))
  <2>0. <<t.atyp>> \in Octets /\ Len(<<t.atyp>>) = 1 /\ <<t.atyp>>[1] = t.atyp
    <3>1. t.atyp \in 0 .. 255
      <4>1. t.atyp \in {1, 3, 4}
        BY <1>1
      <4> QED BY <4>1
    <3> QED BY <3>1, OneOctet
  <2>1. CASE t.atyp = Name
    <3>1. size = <<Len(t.host)>> /\ HostAt(t.atyp) = 3
      BY <2>1 DEF HostAt
    <3>2. Len(t.host) \in 0 .. 255
      BY <1>1, <2>1
    <3>3. size \in Octets /\ Len(size) = 1 /\ size[1] = Len(t.host)
      <4> HIDE DEF size
      <4> QED BY <3>1, <3>2, OneOctet
    <3> QED BY <2>0, <3>1, <3>3
  <2>2. CASE t.atyp # Name
    <3>1. size = << >> /\ HostAt(t.atyp) = 2
      BY <2>2 DEF HostAt
    <3>3. size \in Seq(0 .. 255) /\ Len(size) = 0
      <4> HIDE DEF size
      <4> QED BY <3>1
    <3> QED BY <2>0, <2>2, <3>1, <3>3 DEF Octets
  <2> QED BY <2>1, <2>2
<1>3. w = body \o t.port
  BY DEF Written
<1>4. HostAt(t.atyp) \in {2, 3}
  BY DEF HostAt
<1> HIDE DEF size, w
<1>5. /\ front \in Octets /\ Len(front) = HostAt(t.atyp) - 1
      /\ front[1] = t.atyp /\ (t.atyp = Name => front[2] = Len(t.host))
  <2>1. /\ front \in Octets /\ Len(front) = 1 + Len(size) /\ front[1] = <<t.atyp>>[1]
        /\ \A i \in 1 .. Len(size) : front[1 + i] = size[i]
    <3>1. 1 \in 1 .. Len(<<t.atyp>>)
      BY <1>2
    <3> QED BY <1>2, <3>1, OctetsJoined
  <2>2. t.atyp = Name => 1 \in 1 .. Len(size) /\ 1 + 1 = 2
    BY <1>2
  <2> QED BY <1>2, <1>4, <2>1, <2>2
<1> HIDE DEF front
<1>6. /\ body \in Octets /\ Len(body) = HostAt(t.atyp) - 1 + Len(t.host)
      /\ body[1] = t.atyp /\ (t.atyp = Name => body[2] = Len(t.host))
      /\ \A i \in 1 .. Len(t.host) : body[HostAt(t.atyp) + i - 1] = t.host[i]
  <2>1. /\ body \in Octets /\ Len(body) = Len(front) + Len(t.host)
        /\ \A i \in 1 .. Len(front) : body[i] = front[i]
        /\ \A i \in 1 .. Len(t.host) : body[Len(front) + i] = t.host[i]
    BY <1>1, <1>5, OctetsJoined
  <2>2. 1 \in 1 .. Len(front) /\ (t.atyp = Name => 2 \in 1 .. Len(front))
    BY <1>4, <1>5 DEF HostAt
  <2>3. \A i \in 1 .. Len(t.host) : Len(front) + i = HostAt(t.atyp) + i - 1
    BY <1>4, <1>5
  <2> QED BY <1>5, <2>1, <2>2, <2>3
<1> HIDE DEF body
<1>7. /\ w \in Octets /\ Len(w) = Len(body) + 2
      /\ \A i \in 1 .. Len(body) : w[i] = body[i]
      /\ \A i \in 1 .. 2 : w[Len(body) + i] = t.port[i]
  <2>1. /\ w \in Octets /\ Len(w) = Len(body) + Len(t.port)
        /\ \A i \in 1 .. Len(body) : w[i] = body[i]
        /\ \A i \in 1 .. Len(t.port) : w[Len(body) + i] = t.port[i]
    BY <1>1, <1>3, <1>6, OctetsJoined, ZenonT(40)
  <2> QED BY <1>1, <2>1
<1>8. /\ 1 \in 1 .. Len(body) /\ (t.atyp = Name => 2 \in 1 .. Len(body))
      /\ \A i \in 1 .. Len(t.host) : HostAt(t.atyp) + i - 1 \in 1 .. Len(body)
      /\ \A i \in 1 .. 2 : Len(body) + i = HostAt(t.atyp) + Len(t.host) + i - 1
  <2>1. PICK h \in {2, 3}, k \in Nat, b \in Nat :
            h = HostAt(t.atyp) /\ k = Len(t.host) /\ b = Len(body) /\ b = h - 1 + k
    <3>1. Len(t.host) \in Nat /\ HostAt(t.atyp) \in {2, 3} /\ Len(body) = HostAt(t.atyp) - 1 + Len(t.host)
      BY <1>1, <1>4, <1>6
    <3>2. Len(body) \in Nat
      BY <3>1
    <3> QED BY <3>1, <3>2
  <2>2. t.atyp = Name => h = 3
    BY <2>1 DEF HostAt
  <2>3. 1 \in 1 .. b /\ (h = 3 => 2 \in 1 .. b)
    BY <2>1
  <2>4. \A i \in 1 .. k : h + i - 1 \in 1 .. b
    BY <2>1
  <2>5. \A i \in 1 .. 2 : b + i = h + k + i - 1
    <3>1. b = h - 1 + k
      BY <2>1
    <3> QED BY <3>1
  <2> QED BY <2>1, <2>2, <2>3, <2>4, <2>5
<1>9. /\ w \in Octets /\ Len(t.host) \in Nat
      /\ Len(w) = HostAt(t.atyp) + Len(t.host) + 1
      /\ w[1] = t.atyp /\ (t.atyp = Name => w[2] = Len(t.host))
  <2>1. Len(w) = HostAt(t.atyp) - 1 + Len(t.host) + 2 /\ Len(t.host) \in Nat /\ HostAt(t.atyp) \in {2, 3}
    BY <1>1, <1>4, <1>6, <1>7
  <2>2. Len(w) = HostAt(t.atyp) + Len(t.host) + 1
    BY <2>1
  <2>3. w[1] = t.atyp /\ (t.atyp = Name => w[2] = Len(t.host))
    BY <1>6, <1>7, <1>8
  <2> QED BY <1>7, <2>1, <2>2, <2>3
<1>10. \A i \in 1 .. Len(t.host) : w[HostAt(t.atyp) + i - 1] = t.host[i]
  BY <1>6, <1>7, <1>8
<1>11. \A i \in 1 .. 2 : w[HostAt(t.atyp) + Len(t.host) + i - 1] = t.port[i]
  BY <1>7, <1>8
<1> QED BY <1>9, <1>10, <1>11 DEF w

\* Text is a form of an address, and the text of that form is the same: an IPv4
\* address that comes as an IPv6 address or a name is IPv4 from then on
\* (main.go:482-487).
LEMMA TextIsAddress ==
    ASSUME NEW t, IsAddress(t)
    PROVE  LET text == Text(t.atyp, t.host)
               u == [atyp |-> text.kind, host |-> text.host, port |-> t.port]
           IN IsAddress(u) /\ Meant(u) = Meant(t)
<1> DEFINE text == Text(t.atyp, t.host)
           u == [atyp |-> text.kind, host |-> text.host, port |-> t.port]
<1>1. /\ t.atyp \in {IPv4, Name, IPv6} /\ t.host \in Octets /\ t.port \in Octets /\ Len(t.port) = 2
      /\ IPv4 # IPv6 /\ IPv4 # Name /\ Name # IPv6
  <2>1. IPv4 # IPv6 /\ IPv4 # Name /\ Name # IPv6
    BY DEF IPv4, Name, IPv6
  <2> QED BY <2>1 DEF IsAddress
<1>2. CASE t.atyp = IPv6 /\ Mapped(t.host)
  <2>1. text = [kind |-> IPv4, host |-> SubSeq(t.host, 13, 16)]
    BY <1>1, <1>2 DEF Text
  <2>2. Len(t.host) = 16
    BY <1>2 DEF IsAddress
  <2>3. SubSeq(t.host, 13, 16) \in Octets /\ Len(SubSeq(t.host, 13, 16)) = 4
    <3>1. 13 \in Nat \ {0} /\ 16 \in Nat /\ 16 <= Len(t.host)
      BY <2>2
    <3>2. /\ SubSeq(t.host, 13, 16) \in Octets
          /\ Len(SubSeq(t.host, 13, 16)) = IF 13 <= 16 THEN 16 - 13 + 1 ELSE 0
      BY <1>1, <3>1, OctetsCut
    <3> QED BY <3>2
  <2> QED BY <1>1, <2>1, <2>3 DEF IsAddress, Meant, Text
<1>3. CASE t.atyp = Name /\ t.host \in DOMAIN Dotted
  <2>1. text = [kind |-> IPv4, host |-> Dotted[t.host]]
    BY <1>1, <1>3 DEF Text
  <2>2. Dotted[t.host] \in Octets /\ Len(Dotted[t.host]) = 4
    BY <1>3, SocksAssumption
  <2> QED BY <1>1, <2>1, <2>2 DEF IsAddress, Meant, Text
<1>4. CASE ~(t.atyp = IPv6 /\ Mapped(t.host)) /\ ~(t.atyp = Name /\ t.host \in DOMAIN Dotted)
  <2>1. text = [kind |-> t.atyp, host |-> t.host]
    BY <1>4 DEF Text
  <2>2. u.atyp = t.atyp /\ u.host = t.host /\ u.port = t.port
    BY <2>1
  <2> QED BY <2>1, <2>2 DEF IsAddress, Meant
<1> QED BY <1>2, <1>3, <1>4

\* What readPacketAddr makes of a packet that begins as the encoding of t does,
\* as far as it goes: t, when all of it is there, and nothing before.  In
\* particular it never reads past the address (main.go:428-466).
LEMMA ReadsWhatWasWritten ==
    ASSUME NEW t, IsAddress(t), NEW q \in Octets,
           \A i \in 1 .. Len(q) : i <= Len(Written(t)) => q[i] = Written(t)[i]
    PROVE  /\ Len(Written(t)) <= Len(q) =>
                ReadPacketAddr(q) = [n |-> Len(Written(t)), addr |-> Meant(t)]
           /\ Len(q) < Len(Written(t)) => ReadPacketAddr(q) = Nothing
<1> DEFINE w == Written(t)
           from == HostAt(t.atyp)
<1>1. /\ w \in Octets /\ Len(w) \in Nat /\ Len(t.host) \in Nat
      /\ Len(w) = from + Len(t.host) + 1
      /\ w[1] = t.atyp /\ (t.atyp = Name => w[2] = Len(t.host))
      /\ \A i \in 1 .. Len(t.host) : w[from + i - 1] = t.host[i]
      /\ \A i \in 1 .. 2 : w[from + Len(t.host) + i - 1] = t.port[i]
  <2>1. Len(w) \in Nat
    BY WrittenParts, LenProperties DEF Octets
  <2> QED BY <2>1, WrittenParts
<1>2. /\ t.atyp \in {IPv4, Name, IPv6} /\ t.host \in Octets /\ t.port \in Octets /\ Len(t.port) = 2
      /\ from \in {2, 3} /\ (t.atyp = Name => from = 3)
  BY DEF IsAddress, HostAt
<1>3. Len(q) \in Nat /\ \A i \in 1 .. Len(q) : i <= Len(w) => q[i] = w[i]
  BY LenProperties DEF Octets
<1>4. PICK h \in {2, 3}, k \in Nat, l \in Nat, m \in Nat :
          h = from /\ k = Len(t.host) /\ l = Len(w) /\ m = Len(q) /\ l = h + k + 1
  BY <1>1, <1>2, <1>3
<1> HIDE DEF w, from
<1>5. CASE m = 0
  <2>1. q = << >>
    BY <1>4, <1>5, EmptySeq DEF Octets
  <2>2. m < l
    BY <1>4, <1>5
  <2> QED BY <1>4, <2>1, <2>2 DEF ReadPacketAddr, w
<1>6. ASSUME m # 0 PROVE q # << >> /\ q[1] = t.atyp
  <2>1. 1 \in 1 .. m /\ 1 <= l
    BY <1>2, <1>4, <1>6
  <2>2. q[1] = w[1]
    BY <1>3, <1>4, <2>1
  <2> QED BY <1>1, <1>4, <1>6, <2>2
<1>7. CASE m # 0 /\ t.atyp = Name /\ m < 2
  <2>1. ReadPacketAddr(q) = Nothing
    BY <1>4, <1>6, <1>7 DEF ReadPacketAddr
  <2>2. m < l
    BY <1>2, <1>4, <1>7
  <2> QED BY <1>4, <2>1, <2>2 DEF w
<1>8. CASE m # 0 /\ ~(t.atyp = Name /\ m < 2)
  <2>1. HostLen(q) = k
    <3>1. CASE t.atyp = Name
      <4>1. 2 \in 1 .. m /\ 2 <= l
        BY <1>2, <1>4, <1>8, <3>1
      <4>2. q[2] = Len(t.host)
        BY <1>1, <1>3, <1>4, <3>1, <4>1
      <4> QED BY <1>4, <1>6, <1>8, <3>1, <4>2 DEF HostLen, IPv4, IPv6, Name
    <3>2. CASE t.atyp = IPv4
      <4>1. k = 4
        BY <1>4, <3>2 DEF IsAddress
      <4> QED BY <1>6, <1>8, <3>2, <4>1 DEF HostLen, IPv4, IPv6, Name
    <3>3. CASE t.atyp = IPv6
      <4>1. k = 16
        BY <1>4, <3>3 DEF IsAddress
      <4> QED BY <1>6, <1>8, <3>3, <4>1 DEF HostLen, IPv4, IPv6, Name
    <3> QED BY <1>2, <3>1, <3>2, <3>3
  <2> DEFINE end == h + k - 1
  <2>2. ReadPacketAddr(q) =
            IF m < end + 2 THEN Nothing
            ELSE [n |-> end + 2,
                  addr |-> [text |-> Text(t.atyp, SubSeq(q, h, end)), port |-> SubSeq(q, end + 1, end + 2)]]
    BY <1>2, <1>4, <1>6, <1>8, <2>1 DEF ReadPacketAddr, from
  <2>3. end + 2 = l /\ end \in Nat /\ end + 1 \in Nat /\ end + 2 \in Nat
    <3>1. l = h + k + 1
      BY <1>4
    <3> QED BY <3>1
  <2>4. CASE m < l
    BY <1>4, <2>2, <2>3, <2>4 DEF w
  <2>5. CASE l <= m
    <3>1. SubSeq(q, h, end) = t.host
      <4>1. /\ SubSeq(q, h, end) \in Octets
            /\ Len(SubSeq(q, h, end)) = IF h <= end THEN end - h + 1 ELSE 0
            /\ \A i \in 1 .. end - h + 1 : SubSeq(q, h, end)[i] = q[h + i - 1]
        <5>1. h \in Nat \ {0} /\ end \in Nat /\ end <= m
          BY <1>2, <1>4, <2>3, <2>5
        <5> HIDE DEF end
        <5> QED BY <1>4, <5>1, OctetsCut
      <4>2. Len(SubSeq(q, h, end)) = k /\ end - h + 1 = k
        BY <1>2, <1>4, <4>1
      <4>3. ASSUME NEW i \in 1 .. k PROVE SubSeq(q, h, end)[i] = t.host[i]
        <5>1. h + i - 1 \in 1 .. m /\ h + i - 1 <= l
          <6>1. l = h + k + 1 /\ l <= m
            BY <1>4, <2>5
          <6> QED BY <6>1
        <5>2. q[h + i - 1] = w[h + i - 1]
          BY <1>3, <1>4, <5>1
        <5> QED BY <1>1, <1>4, <4>1, <4>2, <5>2
      <4> QED BY <1>2, <1>4, <4>1, <4>2, <4>3, OctetsEqual
    <3>2. SubSeq(q, end + 1, end + 2) = t.port
      <4>1. /\ SubSeq(q, end + 1, end + 2) \in Octets /\ Len(SubSeq(q, end + 1, end + 2)) = 2
            /\ \A i \in 1 .. 2 : SubSeq(q, end + 1, end + 2)[i] = q[end + i]
        <5>1. end + 1 \in Nat \ {0} /\ end + 2 \in Nat /\ end + 2 <= m /\ end + 1 <= end + 2
              /\ (end + 2) - (end + 1) + 1 = 2 /\ (\A i \in 1 .. 2 : (end + 1) + i - 1 = end + i)
          BY <1>4, <2>3, <2>5
        <5>2. /\ SubSeq(q, end + 1, end + 2) \in Octets
              /\ Len(SubSeq(q, end + 1, end + 2)) =
                    IF end + 1 <= end + 2 THEN (end + 2) - (end + 1) + 1 ELSE 0
              /\ \A i \in 1 .. (end + 2) - (end + 1) + 1 :
                    SubSeq(q, end + 1, end + 2)[i] = q[(end + 1) + i - 1]
          <6> HIDE DEF end
          <6> QED BY <1>4, <5>1, OctetsCut
        <5> HIDE DEF end
        <5> QED BY <5>1, <5>2
      <4>2. ASSUME NEW i \in 1 .. 2 PROVE q[end + i] = t.port[i]
        <5>1. end + i \in 1 .. m /\ end + i <= l /\ end + i = h + k + i - 1
          BY <1>2, <1>4, <2>5
        <5>2. q[end + i] = w[h + k + i - 1]
          BY <1>3, <1>4, <5>1
        <5> QED BY <1>1, <1>4, <5>2
      <4> HIDE DEF end
      <4> DEFINE p == SubSeq(q, end + 1, end + 2)
      <4>3. p \in Octets /\ Len(p) = Len(t.port) /\ \A i \in 1 .. Len(p) : p[i] = t.port[i]
        BY <1>2, <4>1, <4>2
      <4> HIDE DEF p
      <4>4. p = t.port
        BY <1>2, <4>3, OctetsEqual
      <4> QED BY <4>4 DEF p
    <3> HIDE DEF end
    <3>3. ~(m < end + 2) /\ ~(m < l)
      BY <2>3, <2>5
    <3>4. ReadPacketAddr(q) = [n |-> l, addr |-> Meant(t)]
      BY <2>2, <2>3, <3>1, <3>2, <3>3 DEF Meant
    <3> QED BY <1>4, <3>3, <3>4 DEF w
  <2> QED BY <1>4, <2>4, <2>5
<1> QED BY <1>5, <1>7, <1>8

\* The parts of a datagram, of an application or of the client
\* (main.go:479-501).
LEMMA PacketParts ==
    ASSUME NEW t, IsAddress(t), NEW d \in Octets
    PROVE  LET packet == <<0, 0, 0>> \o Written(t) \o d IN
           /\ packet \in Octets /\ Len(Written(t)) \in Nat /\ Len(d) \in Nat
           /\ Len(packet) = 3 + Len(Written(t)) + Len(d)
           /\ \A i \in 1 .. Len(Written(t)) : packet[3 + i] = Written(t)[i]
           /\ \A i \in 1 .. Len(d) : packet[3 + Len(Written(t)) + i] = d[i]
<1> DEFINE z == <<0, 0, 0>>
           w == Written(t)
           zw == z \o w
<1>1. w \in Octets
  BY WrittenParts
<1>2. z \in Octets /\ Len(z) = 3
  BY DEF Octets
<1> HIDE DEF w, z
<1>3. /\ zw \in Octets /\ Len(w) \in Nat /\ Len(zw) = 3 + Len(w)
      /\ \A i \in 1 .. Len(w) : zw[3 + i] = w[i]
  <2>1. /\ z \o w \in Octets /\ Len(w) \in Nat /\ Len(z \o w) = Len(z) + Len(w)
        /\ \A i \in 1 .. Len(w) : (z \o w)[Len(z) + i] = w[i]
    BY <1>1, <1>2, OctetsJoined
  <2> QED BY <1>2, <2>1
<1> HIDE DEF zw
<1>4. /\ zw \o d \in Octets /\ Len(d) \in Nat /\ Len(zw \o d) = Len(zw) + Len(d)
      /\ \A i \in 1 .. Len(zw) : (zw \o d)[i] = zw[i]
      /\ \A i \in 1 .. Len(d) : (zw \o d)[Len(zw) + i] = d[i]
  BY <1>3, OctetsJoined
<1>5. \A i \in 1 .. Len(w) : 3 + i \in 1 .. Len(zw)
  BY <1>3
<1>6. /\ zw \o d \in Octets /\ Len(w) \in Nat /\ Len(d) \in Nat
      /\ Len(zw \o d) = 3 + Len(w) + Len(d)
      /\ \A i \in 1 .. Len(w) : (zw \o d)[3 + i] = w[i]
      /\ \A i \in 1 .. Len(d) : (zw \o d)[3 + Len(w) + i] = d[i]
  BY <1>3, <1>4, <1>5
<1> QED BY <1>6 DEF zw, z, w

\* The addresses applications ask for are addresses.
LEMMA TargetsAreAddresses ==
    ASSUME NEW t \in Target
    PROVE  IsAddress(t)
<1>1. /\ t.atyp \in {1, 3, 4} /\ t.host \in Octets /\ t.port \in Octets /\ Len(t.port) = 2
      /\ t.atyp = 1 => Len(t.host) = 4
      /\ t.atyp = 3 => Len(t.host) \in 0 .. 255
      /\ t.atyp = 4 => Len(t.host) = 16
  BY SocksAssumption
<1> QED BY <1>1 DEF IsAddress, IPv4, Name, IPv6

\* What the buffer holds after a datagram of n bytes: these n, and behind them
\* what was there (main.go:378-380).
LEMMA BufferHolds ==
    ASSUME NEW packet \in Octets, NEW b \in Octets, NEW n \in Nat, n <= Len(packet)
    PROVE  LET whole == SubSeq(packet, 1, n) \o SubSeq(b, n + 1, Len(b)) IN
           /\ whole \in Octets /\ Len(whole) \in Nat /\ n <= Len(whole)
           /\ \A i \in 1 .. n : whole[i] = packet[i]
<1> DEFINE new == SubSeq(packet, 1, n)
           old == SubSeq(b, n + 1, Len(b))
<1>1. new \in Octets /\ Len(new) = n /\ \A i \in 1 .. n : new[i] = packet[i]
  BY OctetsBegin
<1>2. old \in Octets
  <2>1. Len(b) \in Nat /\ n + 1 \in Nat \ {0} /\ Len(b) <= Len(b)
    BY LenProperties DEF Octets
  <2> QED BY <2>1, OctetsCut
<1> HIDE DEF new, old
<1>3. /\ new \o old \in Octets /\ Len(old) \in Nat /\ Len(new \o old) = n + Len(old)
      /\ \A i \in 1 .. n : (new \o old)[i] = new[i]
  BY <1>1, <1>2, OctetsJoined
<1>4. /\ new \o old \in Octets /\ Len(new \o old) \in Nat /\ n <= Len(new \o old)
      /\ \A i \in 1 .. n : (new \o old)[i] = packet[i]
  BY <1>1, <1>3
<1> QED BY <1>4 DEF new, old

\* What is behind the address is the payload, as far as it came and the limit
\* goes (main.go:397-400).
LEMMA PayloadIsCut ==
    ASSUME NEW b \in Octets, NEW d \in Octets, NEW start \in Nat, NEW n \in Nat,
           start <= n, n <= Len(b), n - start <= Len(d),
           \A i \in 1 .. n - start : b[start + i] = d[i]
    PROVE  SubSeq(b, start + 1, n) = SubSeq(d, 1, n - start)
<1> DEFINE m == n - start
           p == SubSeq(b, start + 1, n)
           q == SubSeq(d, 1, m)
<1>1. m \in Nat /\ start + 1 \in Nat \ {0} /\ 1 \in Nat \ {0} /\ n - (start + 1) + 1 = m
  OBVIOUS
<1>2. /\ p \in Octets /\ Len(p) = IF start + 1 <= n THEN n - (start + 1) + 1 ELSE 0
      /\ \A i \in 1 .. n - (start + 1) + 1 : p[i] = b[start + 1 + i - 1]
  BY <1>1, OctetsCut
<1>3. /\ q \in Octets /\ Len(q) = IF 1 <= m THEN m - 1 + 1 ELSE 0
      /\ \A i \in 1 .. m - 1 + 1 : q[i] = d[1 + i - 1]
  <2> HIDE DEF m
  <2>1. m <= Len(d)
    BY DEF m
  <2> QED BY <1>1, <2>1, OctetsCut
<1> HIDE DEF p, q
<1>4. Len(p) = m /\ Len(q) = m
  BY <1>1, <1>2, <1>3
<1>5. ASSUME NEW i \in 1 .. m PROVE p[i] = q[i]
  <2>1. /\ i \in 1 .. n - (start + 1) + 1 /\ start + 1 + i - 1 = start + i
        /\ i \in 1 .. m - 1 + 1 /\ 1 + i - 1 = i /\ i \in 1 .. n - start
    BY <1>1
  <2>2. p[i] = b[start + i] /\ q[i] = d[i]
    BY <1>2, <1>3, <2>1
  <2> QED BY <2>1, <2>2
<1>6. p = q
  <2> HIDE DEF m
  <2> QED BY <1>2, <1>3, <1>4, <1>5, OctetsEqual
<1> QED BY <1>6 DEF p, q

\* What the loop body makes of the first n bytes of a datagram, whatever is behind
\* them in the buffer: the address and the payload, or nothing, when the address
\* is not all there (main.go:381-400).
LEMMA DatagramIsRead ==
    ASSUME NEW t, IsAddress(t), NEW d \in Octets, NEW b \in Octets, NEW n \in Nat,
           n <= 3 + Len(Written(t)) + Len(d), n <= Len(b), Len(b) \in Nat,
           \A i \in 1 .. n : b[i] = (<<0, 0, 0>> \o Written(t) \o d)[i]
    PROVE  LET start == 3 + Len(Written(t)) IN
           ReadDatagram(b, n) =
               IF n >= start /\ n >= 10
               THEN [addr |-> Meant(t), payload |-> Prefix(SubSeq(d, 1, n - start), MaxLocal)]
               ELSE Dropped
<1> DEFINE packet == <<0, 0, 0>> \o Written(t) \o d
           q == SubSeq(b, 4, n)
<1>1. /\ packet \in Octets /\ Len(Written(t)) \in Nat /\ Len(d) \in Nat
      /\ Len(packet) = 3 + Len(Written(t)) + Len(d)
      /\ \A i \in 1 .. Len(Written(t)) : packet[3 + i] = Written(t)[i]
      /\ \A i \in 1 .. Len(d) : packet[3 + Len(Written(t)) + i] = d[i]
  BY PacketParts
<1> HIDE DEF packet
<1>2. PICK l \in Nat : l = Len(Written(t))
  BY <1>1
<1>3. CASE n < 10
  BY <1>3 DEF ReadDatagram
<1>4. CASE n >= 10
  <2>1. /\ q \in Octets /\ Len(q) = n - 3
        /\ \A i \in 1 .. n - 3 : q[i] = b[3 + i]
    <3>1. 4 \in Nat \ {0} /\ 4 <= n /\ n - 4 + 1 = n - 3
      BY <1>4
    <3>2. /\ q \in Octets /\ Len(q) = IF 4 <= n THEN n - 4 + 1 ELSE 0
          /\ \A i \in 1 .. n - 4 + 1 : q[i] = b[4 + i - 1]
      BY <3>1, OctetsCut
    <3>3. \A i \in 1 .. n - 3 : 4 + i - 1 = 3 + i
      OBVIOUS
    <3> HIDE DEF q
    <3> QED BY <3>1, <3>2, <3>3
  <2> HIDE DEF q
  <2>2. ASSUME NEW i \in 1 .. Len(q), i <= Len(Written(t)) PROVE q[i] = Written(t)[i]
    <3>1. i \in 1 .. n - 3 /\ 3 + i \in 1 .. n /\ i \in 1 .. Len(Written(t))
      BY <1>1, <1>4, <2>1, <2>2
    <3>2. q[i] = b[3 + i] /\ b[3 + i] = packet[3 + i]
      BY <2>1, <3>1 DEF packet
    <3> QED BY <1>1, <3>1, <3>2
  <2>3. /\ l <= n - 3 => ReadPacketAddr(q) = [n |-> l, addr |-> Meant(t)]
        /\ n - 3 < l => ReadPacketAddr(q) = Nothing
    BY <1>2, <2>1, <2>2, ReadsWhatWasWritten
  <2>4. CASE 3 + l <= n
    <3>1. ReadPacketAddr(q).n = l /\ ReadPacketAddr(q).addr = Meant(t)
      BY <2>3, <2>4
    <3>2. l # 0
      <4>1. PICK h \in {2, 3}, k \in Nat : l = h + k + 1
        <5>1. l = HostAt(t.atyp) + Len(t.host) + 1 /\ Len(t.host) \in Nat
          BY <1>2, WrittenParts
        <5>2. HostAt(t.atyp) \in {2, 3}
          BY DEF HostAt
        <5> QED BY <5>1, <5>2
      <4> QED BY <4>1
    <3>3. ReadDatagram(b, n) =
              [addr |-> Meant(t), payload |-> Prefix(SubSeq(b, 3 + l + 1, n), MaxLocal)]
      BY <1>4, <2>4, <3>1, <3>2 DEF ReadDatagram, q
    <3>4. SubSeq(b, 3 + l + 1, n) = SubSeq(d, 1, n - (3 + l))
      <4>1. PICK s \in Nat : s = 3 + l
        OBVIOUS
      <4>2. s <= n /\ n - s <= Len(d)
        BY <1>1, <1>2, <2>4, <4>1
      <4>3. ASSUME NEW i \in 1 .. n - s PROVE b[s + i] = d[i]
        <5>1. s + i \in 1 .. n /\ i \in 1 .. Len(d)
          BY <1>1, <4>2
        <5>2. b[s + i] = packet[s + i]
          BY <5>1 DEF packet
        <5>3. packet[s + i] = d[i]
          BY <1>1, <1>2, <4>1, <5>1
        <5> QED BY <5>2, <5>3
      <4>4. SubSeq(b, s + 1, n) = SubSeq(d, 1, n - s)
        BY <4>2, <4>3, PayloadIsCut
      <4> QED BY <4>1, <4>4
    <3> QED BY <1>2, <1>4, <2>4, <3>3, <3>4
  <2>5. CASE n < 3 + l
    <3>1. ReadPacketAddr(q).n = 0
      BY <2>3, <2>5 DEF Nothing
    <3>2. ReadDatagram(b, n) = Dropped
      BY <3>1 DEF ReadDatagram, q
    <3> QED BY <1>2, <2>5, <3>2
  <2> QED BY <2>4, <2>5
<1> QED BY <1>3, <1>4

\* The header of an answer means the address it was made from
\* (main.go:428-501).
LEMMA HeaderReadsBack ==
    ASSUME NEW t, IsAddress(t), NEW d \in Octets
    PROVE  LET answer == EncodeSocksUDPDatagram(Meant(t), d) IN
           ReadPacketAddr(SubSeq(answer, 4, Len(answer))).addr = Meant(t)
<1> DEFINE text == Text(t.atyp, t.host)
           u == [atyp |-> text.kind, host |-> text.host, port |-> t.port]
           answer == <<0, 0, 0>> \o Written(u) \o d
           q == SubSeq(answer, 4, Len(answer))
<1>1. IsAddress(u) /\ Meant(u) = Meant(t)
  BY TextIsAddress
<1>2. EncodeSocksUDPDatagram(Meant(t), d) = answer
  BY DEF EncodeSocksUDPDatagram, Meant
<1> HIDE DEF u
<1>3. /\ answer \in Octets /\ Len(Written(u)) \in Nat /\ Len(d) \in Nat
      /\ Len(answer) = 3 + Len(Written(u)) + Len(d)
      /\ \A i \in 1 .. Len(Written(u)) : answer[3 + i] = Written(u)[i]
  BY <1>1, PacketParts
<1> HIDE DEF answer
<1>4. PICK a \in Nat : a = Len(answer) /\ a = 3 + Len(Written(u)) + Len(d)
  BY <1>3
<1>5. q \in Octets /\ Len(q) = a - 3 /\ \A i \in 1 .. a - 3 : q[i] = answer[3 + i]
  <2>1. 4 \in Nat \ {0} /\ a <= Len(answer) /\ (IF 4 <= a THEN a - 4 + 1 ELSE 0) = a - 3
    BY <1>3, <1>4
  <2>2. /\ q \in Octets /\ Len(q) = IF 4 <= a THEN a - 4 + 1 ELSE 0
        /\ \A i \in 1 .. a - 4 + 1 : q[i] = answer[4 + i - 1]
    BY <1>3, <1>4, <2>1, OctetsCut
  <2>3. \A i \in 1 .. a - 3 : i \in 1 .. a - 4 + 1 /\ 4 + i - 1 = 3 + i
    OBVIOUS
  <2> HIDE DEF q
  <2> QED BY <2>1, <2>2, <2>3
<1> HIDE DEF q
<1>6. \A i \in 1 .. Len(q) : i <= Len(Written(u)) => q[i] = Written(u)[i]
  BY <1>3, <1>4, <1>5
<1>7. Len(Written(u)) <= Len(q)
  BY <1>3, <1>4, <1>5
<1>8. ReadPacketAddr(q) = [n |-> Len(Written(u)), addr |-> Meant(u)]
  BY <1>1, <1>5, <1>6, <1>7, ReadsWhatWasWritten
<1> QED BY <1>1, <1>2, <1>8 DEF q

\* What readSocksAddr takes off a connection: the address, and nothing else
\* (main.go:314-350).
LEMMA RequestIsRead ==
    ASSUME NEW t, IsAddress(t), NEW d \in Octets
    PROVE  ReadSocksAddr(Written(t) \o d) = [addr |-> Meant(t), raw |-> Written(t), left |-> d]
<1> DEFINE w == Written(t)
           s == w \o d
<1>1. w \in Octets
  BY WrittenParts
<1> HIDE DEF w
<1>2. /\ s \in Octets /\ Len(w) \in Nat /\ Len(d) \in Nat /\ Len(s) = Len(w) + Len(d)
      /\ \A i \in 1 .. Len(w) : s[i] = w[i]
      /\ \A i \in 1 .. Len(d) : s[Len(w) + i] = d[i]
  BY <1>1, OctetsJoined
<1> HIDE DEF s
<1>3. PICK l \in Nat, k \in Nat : l = Len(w) /\ k = Len(d) /\ Len(s) = l + k /\ l <= l + k
  BY <1>2
<1>4. ReadPacketAddr(s) = [n |-> l, addr |-> Meant(t)]
  <2>1. \A i \in 1 .. Len(s) : i <= Len(w) => s[i] = w[i]
    BY <1>2
  <2>2. Len(w) <= Len(s)
    BY <1>3
  <2> QED BY <1>2, <1>3, <2>1, <2>2, ReadsWhatWasWritten DEF w
<1>5. SubSeq(s, 1, l) = w
  <2> DEFINE p == SubSeq(s, 1, l)
  <2>1. p \in Octets /\ Len(p) = l /\ \A i \in 1 .. l : p[i] = s[i]
    <3>1. l <= Len(s)
      BY <1>3
    <3> QED BY <1>2, <3>1, OctetsBegin
  <2> HIDE DEF p
  <2>3. Len(p) = Len(w) /\ \A i \in 1 .. Len(p) : p[i] = w[i]
    BY <1>2, <1>3, <2>1
  <2>4. p = w
    BY <1>1, <2>1, <2>3, OctetsEqual
  <2> QED BY <2>4 DEF p
<1>6. SubSeq(s, l + 1, Len(s)) = d
  <2> DEFINE p == SubSeq(s, l + 1, l + k)
  <2>1. /\ p \in Octets /\ Len(p) = IF l + 1 <= l + k THEN (l + k) - (l + 1) + 1 ELSE 0
        /\ \A i \in 1 .. (l + k) - (l + 1) + 1 : p[i] = s[(l + 1) + i - 1]
    <3>1. l + 1 \in Nat \ {0} /\ l + k \in Nat /\ l + k <= Len(s)
      BY <1>3
    <3> QED BY <1>2, <3>1, OctetsCut, SMTT(30)
  <2> HIDE DEF p
  <2>2. \A i \in 1 .. k : i \in 1 .. (l + k) - (l + 1) + 1 /\ (l + 1) + i - 1 = l + i
    OBVIOUS
  <2>3. Len(p) = k
    BY <2>1
  <2>4. \A i \in 1 .. k : p[i] = d[i]
    BY <1>2, <1>3, <2>1, <2>2
  <2>5. p = d
    BY <1>3, <2>1, <2>3, <2>4, OctetsEqual
  <2> QED BY <1>3, <2>5 DEF p
<1>7. ReadSocksAddr(s) = [addr |-> Meant(t), raw |-> w, left |-> d]
  <2>1. ReadPacketAddr(s).n = l /\ ReadPacketAddr(s).addr = Meant(t)
    BY <1>4
  <2> QED BY <1>5, <1>6, <2>1 DEF ReadSocksAddr
<1> QED BY <1>7 DEF s, w

\* The buffer may hold anything: what is read depends on what came last alone.
SocksInv ==
    /\ buf \in Octets /\ received \in Nat
    /\ AddressesAreKept

\* What AddressesAreKept needs holds at the start, when nothing has come
\* (main.go:372-376).
LEMMA SocksStarts == SocksInit => SocksInv
<1> SUFFICES ASSUME SocksInit PROVE SocksInv
  OBVIOUS
<1>1. buf \in Octets /\ received \in Nat /\ ~(received > 0) /\ request = << >>
  BY EmptySeq DEF SocksInit, Octets
<1> QED BY <1>1 DEF SocksInv, AddressesAreKept

\* What AddressesAreKept needs is kept when a datagram comes, of whatever length
\* and whatever is in the buffer (main.go:377-400).
LEMMA DatagramKeepsSocks == SocksInv /\ ReceivesDatagram => SocksInv'
<1> SUFFICES ASSUME SocksInv, ReceivesDatagram PROVE SocksInv'
  OBVIOUS
<1>1. received' = received + 1 /\ request = << >> /\ request' = request /\ received \in Nat
  BY DEF ReceivesDatagram, SocksInv
<1>2. PICK t \in Target, d \in Data :
          \E n \in 0 .. Len(<<0, 0, 0>> \o Written(t) \o d) :
              /\ buf' = SubSeq(<<0, 0, 0>> \o Written(t) \o d, 1, n) \o SubSeq(buf, n + 1, Len(buf))
              /\ given' = [target |-> t, data |-> d, bytes |-> n]
              /\ read' = ReadDatagram(buf', n)
  BY DEF ReceivesDatagram
<1>3. IsAddress(t) /\ d \in Octets
  BY TargetsAreAddresses, SocksAssumption
<1>4. /\ <<0, 0, 0>> \o Written(t) \o d \in Octets
      /\ Len(Written(t)) \in Nat /\ Len(d) \in Nat
      /\ Len(<<0, 0, 0>> \o Written(t) \o d) = 3 + Len(Written(t)) + Len(d)
  BY <1>3, PacketParts
<1>5. PICK n \in 0 .. Len(<<0, 0, 0>> \o Written(t) \o d) :
          /\ buf' = SubSeq(<<0, 0, 0>> \o Written(t) \o d, 1, n) \o SubSeq(buf, n + 1, Len(buf))
          /\ given' = [target |-> t, data |-> d, bytes |-> n]
          /\ read' = ReadDatagram(buf', n)
  BY <1>2
<1>6. /\ n \in Nat /\ n <= Len(<<0, 0, 0>> \o Written(t) \o d)
      /\ n <= 3 + Len(Written(t)) + Len(d)
  BY <1>4
<1>7. /\ buf' \in Octets /\ Len(buf') \in Nat /\ n <= Len(buf')
      /\ \A i \in 1 .. n : buf'[i] = (<<0, 0, 0>> \o Written(t) \o d)[i]
  BY <1>4, <1>5, <1>6, BufferHolds, ZenonT(40) DEF SocksInv
<1>8. read' = IF n >= 3 + Len(Written(t)) /\ n >= 10
              THEN [addr |-> Meant(t),
                    payload |-> Prefix(SubSeq(d, 1, n - (3 + Len(Written(t)))), MaxLocal)]
              ELSE Dropped
  BY <1>3, <1>5, <1>6, <1>7, DatagramIsRead, ZenonT(40)
<1>9. LET answer == EncodeSocksUDPDatagram(Meant(t), d) IN
      ReadPacketAddr(SubSeq(answer, 4, Len(answer))).addr = Meant(t)
  BY <1>3, HeaderReadsBack
<1>10. given'.target = t /\ given'.data = d /\ given'.bytes = n
  BY <1>5
<1>11. AddressesAreKept'
  BY <1>1, <1>8, <1>9, <1>10 DEF AddressesAreKept
<1>12. received' \in Nat
  BY <1>1
<1> QED BY <1>7, <1>11, <1>12 DEF SocksInv

\* What AddressesAreKept needs is kept when a request comes (main.go:255-262).
LEMMA RequestKeepsSocks == SocksInv /\ ReceivesRequest => SocksInv'
<1> SUFFICES ASSUME SocksInv, ReceivesRequest PROVE SocksInv'
  OBVIOUS
<1>1. PICK t \in Target, d \in Data :
          request' = [target |-> t, data |-> d, taken |-> ReadSocksAddr(Written(t) \o d)]
  BY DEF ReceivesRequest
<1>2. received' = 0 /\ buf' \in Octets
  BY DEF ReceivesRequest, SocksInv
<1>3. request'.taken = [addr |-> Meant(t), raw |-> Written(t), left |-> d]
  <2>1. IsAddress(t) /\ d \in Octets
    BY TargetsAreAddresses, SocksAssumption
  <2> QED BY <1>1, <2>1, RequestIsRead
<1>4. request'.target = t /\ request'.data = d
  BY <1>1
<1>5. AddressesAreKept'
  BY <1>2, <1>3, <1>4 DEF AddressesAreKept
<1> QED BY <1>2, <1>5 DEF SocksInv

\* For all addresses and data and every limit on the payload: a datagram goes
\* where the application says, with its own bytes, or is dropped when its address
\* is cut short; an answer's header reads back as the address asked for; and a
\* request's address is all that is taken off the connection
\* (main.go:314-350, 372-400, 428-501).
THEOREM SocksKeepsAddresses == SocksSpec => []AddressesAreKept
<1>1. SocksInv /\ [SocksNext]_socksVars => SocksInv'
  <2> SUFFICES ASSUME SocksInv, [SocksNext]_socksVars PROVE SocksInv'
    OBVIOUS
  <2>1. CASE UNCHANGED socksVars
    BY <2>1 DEF SocksInv, AddressesAreKept, socksVars
  <2> QED BY <2>1, DatagramKeepsSocks, RequestKeepsSocks DEF SocksNext
<1>2. SocksInv => AddressesAreKept
  BY DEF SocksInv
<1> QED BY SocksStarts, <1>1, <1>2, PTL DEF SocksSpec

-----------------------------------------------------------------------------
(* Chunks, and what joining them gives *)

\* Two cuts next to each other join to one (messages.go:130-132).
LEMMA PiecesJoin ==
    ASSUME NEW B, NEW c \in Seq(B), NEW a \in 0 .. Len(c), NEW b \in 0 .. Len(c), a <= b
    PROVE  SubSeq(c, 1, a) \o SubSeq(c, a + 1, b) = SubSeq(c, 1, b)
<1> DEFINE p == SubSeq(c, 1, a)
           q == SubSeq(c, a + 1, b)
           r == SubSeq(c, 1, b)
<1>1. Len(c) \in Nat /\ \A i \in 1 .. Len(c) : c[i] \in B
  BY LenProperties, ElementOfSeq
<1>2. /\ p \in Seq(B) /\ Len(p) = IF 1 <= a THEN a - 1 + 1 ELSE 0
      /\ \A i \in 1 .. a - 1 + 1 : p[i] = c[1 + i - 1]
  <2>1. 1 \in Int /\ a \in Int /\ \A i \in 1 .. a : c[i] \in B
    BY <1>1
  <2> QED BY <2>1, SubSeqProperties
<1>3. /\ q \in Seq(B) /\ Len(q) = IF a + 1 <= b THEN b - (a + 1) + 1 ELSE 0
      /\ \A i \in 1 .. b - (a + 1) + 1 : q[i] = c[(a + 1) + i - 1]
  <2>1. a + 1 \in Int /\ b \in Int /\ \A i \in a + 1 .. b : c[i] \in B
    BY <1>1
  <2> QED BY <2>1, SubSeqProperties
<1>4. /\ r \in Seq(B) /\ Len(r) = IF 1 <= b THEN b - 1 + 1 ELSE 0
      /\ \A i \in 1 .. b - 1 + 1 : r[i] = c[1 + i - 1]
  <2>1. 1 \in Int /\ b \in Int /\ \A i \in 1 .. b : c[i] \in B
    BY <1>1
  <2> QED BY <2>1, SubSeqProperties
<1> HIDE DEF p, q, r
<1>5. Len(p) = a /\ Len(q) = b - a /\ Len(r) = b
  BY <1>1, <1>2, <1>3, <1>4
<1>6. /\ p \o q \in Seq(B) /\ Len(p \o q) = Len(p) + Len(q)
      /\ \A i \in 1 .. Len(p) + Len(q) : (p \o q)[i] = IF i <= Len(p) THEN p[i] ELSE q[i - Len(p)]
  BY <1>2, <1>3, ConcatProperties
<1>7. Len(p \o q) = b
  BY <1>1, <1>5, <1>6
<1>8. ASSUME NEW i \in 1 .. b PROVE (p \o q)[i] = r[i]
  <2>1. i \in 1 .. Len(p) + Len(q) /\ i \in 1 .. b - 1 + 1 /\ 1 + i - 1 = i
    BY <1>1, <1>5
  <2>2. r[i] = c[i]
    BY <1>4, <2>1
  <2>3. CASE i <= a
    <3>1. i \in 1 .. a - 1 + 1
      BY <1>1, <2>3
    <3>2. p[i] = c[i]
      BY <1>2, <2>1, <3>1
    <3> QED BY <1>5, <1>6, <2>1, <2>2, <2>3, <3>2
  <2>4. CASE ~(i <= a)
    <3>1. PICK j \in Int : j = i - a
      BY <1>1
    <3>2. j \in 1 .. b - (a + 1) + 1 /\ (a + 1) + j - 1 = i /\ ~(i <= a)
      BY <1>1, <2>4, <3>1
    <3>3. q[j] = c[i]
      BY <1>3, <3>2
    <3>4. (p \o q)[i] = IF i <= a THEN p[i] ELSE q[j]
      BY <1>5, <1>6, <2>1, <3>1
    <3>5. (p \o q)[i] = q[j]
      BY <3>2, <3>4
    <3> QED BY <2>2, <3>3, <3>5
  <2> QED BY <2>3, <2>4
<1>9. p \o q = r
  BY <1>4, <1>5, <1>6, <1>7, <1>8, SeqEqual
<1> QED BY <1>9 DEF p, q, r

\* All of a sequence is the sequence (messages.go:130-132).
LEMMA WholeSubSeq ==
    ASSUME NEW B, NEW c \in Seq(B)
    PROVE  SubSeq(c, 1, Len(c)) = c
<1> DEFINE r == SubSeq(c, 1, Len(c))
<1>1. Len(c) \in Nat /\ \A i \in 1 .. Len(c) : c[i] \in B
  BY LenProperties, ElementOfSeq
<1>2. /\ r \in Seq(B) /\ Len(r) = IF 1 <= Len(c) THEN Len(c) - 1 + 1 ELSE 0
      /\ \A i \in 1 .. Len(c) - 1 + 1 : r[i] = c[1 + i - 1]
  BY <1>1, SubSeqProperties
<1> HIDE DEF r
<1>3. Len(r) = Len(c) /\ \A i \in 1 .. Len(r) : r[i] = c[i]
  <2>1. Len(r) = Len(c)
    BY <1>1, <1>2
  <2>2. ASSUME NEW i \in 1 .. Len(c) PROVE r[i] = c[i]
    <3>1. i \in 1 .. Len(c) - 1 + 1 /\ 1 + i - 1 = i
      BY <1>1
    <3> QED BY <1>2, <3>1
  <2> QED BY <2>1, <2>2
<1>4. r = c
  BY <1>2, <1>3, SeqEqual
<1> QED BY <1>4 DEF r
-----------------------------------------------------------------------------
(* Joining sequences *)

\* A set that has 0, and n + 1 whenever it has n, has every number.  It is the
\* induction the lemmas about FlattenSeq use.
LEMMA EveryNumber ==
    ASSUME NEW S, 0 \in S, \A n \in Nat : n \in S => n + 1 \in S
    PROVE  Nat \subseteq S
<1> SUFFICES ASSUME Nat \ S # {} PROVE FALSE
  OBVIOUS
<1>1. PICK y \in Nat \ S : \A x \in Nat \ S : ~(<<x, y>> \in OpToRel(<, Nat))
  BY WFMin, NatLessThanWellFounded, Nat \ S \subseteq Nat
<1>2. y # 0 /\ y - 1 \in Nat
  OBVIOUS
<1>3. <<y - 1, y>> \in OpToRel(<, Nat)
  BY <1>2 DEF OpToRel
<1>4. y - 1 \in S
  BY <1>1, <1>2, <1>3
<1> QED BY <1>2, <1>4

\* The joins of the first sequences, one after the other, as the loop of Add
\* makes them (messages.go:130-132).
Joins(seqs, k, f) == f = [i \in 1 .. k |-> IF i = 1 THEN seqs[i] ELSE f[i - 1] \o seqs[i]]

\* There are such joins, for any number of the sequences (messages.go:130-132).
LEMMA JoinsExist ==
    ASSUME NEW seqs, NEW k \in Nat
    PROVE  \E f : Joins(seqs, k, f)
<1> DEFINE T == {n \in Nat : \E f : Joins(seqs, n, f)}
<1>1. 0 \in T
  <2>1. Joins(seqs, 0, [i \in 1 .. 0 |-> << >>])
    BY DEF Joins
  <2> QED BY <2>1
<1>2. ASSUME NEW n \in Nat, n \in T PROVE n + 1 \in T
  <2>1. PICK f : Joins(seqs, n, f)
    BY <1>2
  <2> DEFINE last == IF n = 0 THEN seqs[1] ELSE f[n] \o seqs[n + 1]
             g == [i \in 1 .. n + 1 |-> IF i = n + 1 THEN last ELSE f[i]]
  <2>2. ASSUME NEW i \in 1 .. n + 1
        PROVE  g[i] = IF i = 1 THEN seqs[i] ELSE g[i - 1] \o seqs[i]
    <3>1. CASE i = n + 1
      <4>1. CASE n = 0
        BY <3>1, <4>1
      <4>2. CASE n # 0
        <5>1. i # 1 /\ i - 1 = n /\ n \in 1 .. n + 1 /\ n # n + 1
          BY <3>1, <4>2
        <5>2. g[i] = f[n] \o seqs[n + 1] /\ g[n] = f[n]
          BY <3>1, <4>2, <5>1
        <5> QED BY <3>1, <5>1, <5>2
      <4> QED BY <4>1, <4>2
    <3>2. CASE i # n + 1
      <4>1. i \in 1 .. n /\ g[i] = f[i]
        BY <3>2
      <4>2. f[i] = IF i = 1 THEN seqs[i] ELSE f[i - 1] \o seqs[i]
        BY <2>1, <4>1 DEF Joins
      <4>3. i # 1 => i - 1 \in 1 .. n + 1 /\ i - 1 # n + 1
        BY <4>1
      <4>4. i # 1 => g[i - 1] = f[i - 1]
        BY <4>3
      <4> HIDE DEF g
      <4> QED BY <4>1, <4>2, <4>4
    <3> QED BY <3>1, <3>2
  <2>3. g = [i \in 1 .. n + 1 |-> g[i]]
    OBVIOUS
  <2> HIDE DEF g
  <2>4. Joins(seqs, n + 1, g)
    BY <2>2, <2>3 DEF Joins
  <2> QED BY <2>4
<1> HIDE DEF T
<1>3. k \in T
  BY <1>1, <1>2, EveryNumber
<1> QED BY <1>3 DEF T

\* FlattenSeq is the last of the joins (messages.go:130-132).
LEMMA FlattenIsLast ==
    ASSUME NEW seqs, NEW k \in Nat \ {0}, Len(seqs) = k
    PROVE  \E f : Joins(seqs, k, f) /\ Seqs!FlattenSeq(seqs) = f[k]
<1> DEFINE f == CHOOSE g : g = [i \in 1 .. Len(seqs) |-> IF i = 1 THEN seqs[i] ELSE g[i - 1] \o seqs[i]]
<1>1. \E g : g = [i \in 1 .. Len(seqs) |-> IF i = 1 THEN seqs[i] ELSE g[i - 1] \o seqs[i]]
  BY JoinsExist DEF Joins
<1>2. f = [i \in 1 .. Len(seqs) |-> IF i = 1 THEN seqs[i] ELSE f[i - 1] \o seqs[i]]
  BY <1>1
<1>3. Seqs!FlattenSeq(seqs) = f[Len(seqs)]
  BY DEF Seqs!FlattenSeq
<1> HIDE DEF f
<1>4. Joins(seqs, k, f)
  BY <1>2 DEF Joins
<1> QED BY <1>3, <1>4

\* Joining sequences over a set gives a sequence over it: a reassembled datagram
\* has no byte that its fragments have not (messages.go:130-132).
LEMMA FlattenType ==
    ASSUME NEW B, NEW seqs \in Seq(Seq(B))
    PROVE  Seqs!FlattenSeq(seqs) \in Seq(B)
<1>1. Len(seqs) \in Nat
  BY LenProperties
<1>2. CASE Len(seqs) = 0
  <2>1. seqs = << >>
    BY <1>2, EmptySeq
  <2>2. Seqs!FlattenSeq(seqs) = << >>
    BY <1>2, <2>1 DEF Seqs!FlattenSeq
  <2> QED BY <2>2, EmptySeq
<1>3. CASE Len(seqs) # 0
  <2>1. PICK k \in Nat \ {0} : Len(seqs) = k
    BY <1>1, <1>3
  <2>2. PICK f : Joins(seqs, k, f) /\ Seqs!FlattenSeq(seqs) = f[k]
    BY <2>1, FlattenIsLast
  <2>3. \A i \in 1 .. k : seqs[i] \in Seq(B)
    BY <2>1, ElementOfSeq
  <2> DEFINE T == {n \in Nat : n \in 1 .. k => f[n] \in Seq(B)}
  <2>4. 0 \in T
    OBVIOUS
  <2>5. ASSUME NEW n \in Nat, n \in T PROVE n + 1 \in T
    <3> SUFFICES ASSUME n + 1 \in 1 .. k PROVE f[n + 1] \in Seq(B)
      OBVIOUS
    <3>1. f[n + 1] = IF n + 1 = 1 THEN seqs[n + 1] ELSE f[(n + 1) - 1] \o seqs[n + 1]
      BY <2>2 DEF Joins
    <3>2. CASE n = 0
      BY <2>3, <3>1, <3>2
    <3>3. CASE n # 0
      <4>1. (n + 1) - 1 = n /\ n \in 1 .. k /\ n + 1 # 1
        BY <3>3
      <4>2. f[n] \in Seq(B) /\ seqs[n + 1] \in Seq(B)
        BY <2>3, <2>5, <4>1
      <4>3. f[n] \o seqs[n + 1] \in Seq(B)
        BY <4>2, ConcatProperties
      <4> QED BY <3>1, <4>1, <4>3
    <3> QED BY <3>2, <3>3
  <2> HIDE DEF T
  <2>6. k \in T
    BY <2>4, <2>5, EveryNumber
  <2> QED BY <2>1, <2>2, <2>6 DEF T
<1> QED BY <1>2, <1>3

\* The k pieces of c, cut at some places.
Pieces(seqs, c, k, at) ==
    /\ Len(seqs) = k
    /\ at \in [0 .. k -> 0 .. Len(c)] /\ at[0] = 0 /\ at[k] = Len(c)
    /\ \A i \in 1 .. k : at[i - 1] <= at[i] /\ seqs[i] = SubSeq(c, at[i - 1] + 1, at[i])

\* Joining the pieces of a sequence gives the sequence
\* (messages.go:130-132, 147-161).
LEMMA FlattenOfPieces ==
    ASSUME NEW B, NEW c \in Seq(B), NEW k \in Nat \ {0}, NEW at, NEW seqs, Pieces(seqs, c, k, at)
    PROVE  Seqs!FlattenSeq(seqs) = c
<1>0. /\ Len(seqs) = k
      /\ at \in [0 .. k -> 0 .. Len(c)] /\ at[0] = 0 /\ at[k] = Len(c)
      /\ \A i \in 1 .. k : at[i - 1] <= at[i] /\ seqs[i] = SubSeq(c, at[i - 1] + 1, at[i])
  BY DEF Pieces
<1>1. PICK f : Joins(seqs, k, f) /\ Seqs!FlattenSeq(seqs) = f[k]
  BY <1>0, FlattenIsLast
<1> DEFINE T == {n \in Nat : n \in 1 .. k => f[n] = SubSeq(c, 1, at[n])}
<1>2. 0 \in T
  OBVIOUS
<1>3. ASSUME NEW n \in Nat, n \in T PROVE n + 1 \in T
  <2> SUFFICES ASSUME n + 1 \in 1 .. k PROVE f[n + 1] = SubSeq(c, 1, at[n + 1])
    OBVIOUS
  <2>1. f[n + 1] = IF n + 1 = 1 THEN seqs[n + 1] ELSE f[(n + 1) - 1] \o seqs[n + 1]
    BY <1>1 DEF Joins
  <2>2. (n + 1) - 1 = n /\ n \in 0 .. k /\ n + 1 \in 0 .. k
    OBVIOUS
  <2>3. PICK a \in 0 .. Len(c), b \in 0 .. Len(c) : a = at[n] /\ b = at[n + 1] /\ a <= b
    BY <1>0, <2>2
  <2>4. seqs[n + 1] = SubSeq(c, a + 1, b)
    BY <1>0, <2>2, <2>3
  <2>5. CASE n = 0
    <3>1. a = 0 /\ a + 1 = 1
      BY <1>0, <2>3, <2>5
    <3> QED BY <2>1, <2>3, <2>4, <2>5, <3>1
  <2>6. CASE n # 0
    <3>1. n \in 1 .. k /\ n + 1 # 1
      BY <2>6
    <3>2. f[n] = SubSeq(c, 1, a)
      BY <1>3, <2>3, <3>1
    <3>3. SubSeq(c, 1, a) \o SubSeq(c, a + 1, b) = SubSeq(c, 1, b)
      BY <2>3, PiecesJoin
    <3> QED BY <2>1, <2>2, <2>3, <2>4, <3>1, <3>2, <3>3
  <2> QED BY <2>5, <2>6
<1> HIDE DEF T
<1>4. k \in T
  BY <1>2, <1>3, EveryNumber
<1>5. f[k] = SubSeq(c, 1, Len(c))
  <2>1. k \in 1 .. k
    OBVIOUS
  <2>2. f[k] = SubSeq(c, 1, at[k])
    BY <1>4, <2>1 DEF T
  <2> QED BY <1>0, <2>2
<1>6. SubSeq(c, 1, Len(c)) = c
  BY WholeSubSeq
<1> QED BY <1>1, <1>5, <1>6

-----------------------------------------------------------------------------
(* The chunks of a datagram *)

\* The sizes of the datagrams sent are numbers of bytes.
LEMMA SizesAreLengths == Sizes \subseteq Nat
BY ReassemblyAssumption

\* How many chunks a datagram has: enough, and no more (messages.go:146).
LEMMA CountBounds ==
    ASSUME NEW size \in Nat
    PROVE  /\ FragCount(size) \in Nat \ {0}
           /\ (FragCount(size) - 1) * MaxChunk <= size
           /\ size <= FragCount(size) * MaxChunk
           /\ FragCount(size) # 1 => (FragCount(size) - 1) * MaxChunk < size
<1>1. MaxChunk \in Nat \ {0}
  BY ReassemblyAssumption
<1>2. CASE size = 0
  <2>1. FragCount(size) = 1
    BY <1>2 DEF FragCount
  <2> QED BY <1>1, <1>2, <2>1
<1>3. CASE size # 0
  <2>1. PICK s \in Nat : s = size + MaxChunk - 1
    BY <1>1
  <2>2. PICK c \in Int, r \in Int : c = s \div MaxChunk /\ r = s % MaxChunk
    BY <1>1, <2>1
  <2>3. s = MaxChunk * c + r /\ 0 <= r /\ r < MaxChunk
    BY <1>1, <2>1, <2>2
  <2>4. FragCount(size) = c
    BY <1>3, <2>1, <2>2 DEF FragCount
  <2>5. PICK m \in Int : m = MaxChunk * c
    BY <1>1
  <2>6. m >= size /\ m - MaxChunk < size /\ m > 0
    BY <1>1, <1>3, <2>1, <2>3, <2>5
  <2>7. c > 0
    BY <1>1, <2>5, <2>6
  <2>8. c * MaxChunk = m /\ (c - 1) * MaxChunk = m - MaxChunk
    BY <1>1, <2>5
  <2>9. c \in Nat \ {0} /\ (c - 1) * MaxChunk < size /\ size <= c * MaxChunk
    BY <2>6, <2>7, <2>8
  <2>10. c \in Nat \ {0} /\ (c - 1) * MaxChunk <= size /\ size <= c * MaxChunk
    <3>1. PICK d \in Int : d = (c - 1) * MaxChunk
      BY <1>1
    <3> QED BY <2>9, <3>1
  <2> QED BY <2>4, <2>9, <2>10
<1> QED BY <1>2, <1>3

\* Where the chunks of a datagram end (messages.go:148-153).
Ends(size) == [i \in 0 .. FragCount(size) |-> IF i * MaxChunk > size THEN size ELSE i * MaxChunk]

\* The chunks are what is between the ends, and not empty when there are several
\* of them (messages.go:147-161).
LEMMA ChunksArePieces ==
    ASSUME NEW n, NEW size \in Nat
    PROVE  /\ Ends(size) \in [0 .. FragCount(size) -> 0 .. size]
           /\ Ends(size)[0] = 0 /\ Ends(size)[FragCount(size)] = size
           /\ \A i \in 1 .. FragCount(size) :
                /\ Ends(size)[i - 1] <= Ends(size)[i]
                /\ FragCount(size) # 1 => Ends(size)[i - 1] < Ends(size)[i]
                /\ Chunk(n, size, i - 1) =
                     SubSeq(Content(n, size), Ends(size)[i - 1] + 1, Ends(size)[i])
<1> DEFINE at == Ends(size)
<1>1. PICK c \in Nat \ {0} : c = FragCount(size)
  BY CountBounds
<1>2. PICK M \in Nat \ {0} : M = MaxChunk
  BY ReassemblyAssumption
<1>3. (c - 1) * M <= size /\ size <= c * M /\ (c # 1 => (c - 1) * M < size)
  BY <1>1, <1>2, CountBounds
<1>4. \A i \in 0 .. c : i * M \in Nat /\ at[i] = IF i * M > size THEN size ELSE i * M
  BY <1>1, <1>2 DEF Ends
<1>5. at \in [0 .. c -> 0 .. size]
  <2>1. \A i \in 0 .. c : at[i] \in 0 .. size
    BY <1>4
  <2>2. at = [i \in 0 .. c |-> at[i]]
    BY <1>1 DEF Ends
  <2> HIDE DEF at
  <2> QED BY <2>1, <2>2
<1>6. at[0] = 0
  <2>1. 0 \in 0 .. c /\ 0 * M = 0
    BY <1>1
  <2> QED BY <1>4, <2>1
<1>7. at[c] = size
  <2>1. c \in 0 .. c
    BY <1>1
  <2>2. PICK m \in Nat : m = c * M
    BY <1>4, <2>1
  <2>3. at[c] = IF m > size THEN size ELSE m
    BY <1>4, <2>1, <2>2
  <2>4. size <= m
    BY <1>3, <2>2
  <2> QED BY <2>3, <2>4
<1>8. ASSUME NEW i \in 1 .. c
      PROVE  /\ at[i - 1] <= at[i] /\ (c # 1 => at[i - 1] < at[i])
             /\ Chunk(n, size, i - 1) = SubSeq(Content(n, size), at[i - 1] + 1, at[i])
  <2>1. PICK j \in 0 .. c : j = i - 1 /\ j <= c - 1 /\ i = j + 1
    BY <1>1
  <2>2. i \in 0 .. c
    BY <1>1
  <2>3. PICK p \in Nat, q \in Nat, e \in Nat : p = j * M /\ q = i * M /\ e = (c - 1) * M
    <3>1. \A x \in Nat : x * M \in Nat
      BY <1>2
    <3>2. j \in Nat /\ i \in Nat /\ c - 1 \in Nat
      BY <1>1, <2>1
    <3> QED BY <3>1, <3>2
  <2>4. q = p + M
    BY <1>2, <2>1, <2>3
  <2>5. p <= e
    <3>1. PICK d \in Nat : d = (c - 1) - j
      BY <1>1, <2>1
    <3>2. e = p + d * M
      BY <1>1, <1>2, <2>1, <2>3, <3>1
    <3>3. d * M \in Nat
      BY <1>2, <3>1
    <3> QED BY <3>2, <3>3
  <2>6. e <= size /\ (c # 1 => e < size)
    BY <1>3, <2>3
  <2>7. at[j] = p
    <3>1. at[j] = IF p > size THEN size ELSE p
      BY <1>4, <2>3
    <3>2. ~(p > size)
      BY <2>5, <2>6
    <3> QED BY <3>1, <3>2
  <2>8. at[i] = IF q > size THEN size ELSE q
    BY <1>4, <2>2, <2>3
  <2>9. p <= at[i] /\ (c # 1 => p < at[i])
    <3>1. PICK a \in Nat : a = at[i] /\ a = IF q > size THEN size ELSE q
      BY <2>8
    <3>2. p <= a /\ (c # 1 => p < a)
      BY <1>2, <2>4, <2>5, <2>6, <3>1
    <3> QED BY <3>1, <3>2
  <2>10. Chunk(n, size, j) = SubSeq(Content(n, size), p + 1, at[i])
    <3>1. (j + 1) * MaxChunk = q /\ j * MaxChunk = p
      BY <1>2, <2>1, <2>3
    <3> QED BY <2>8, <3>1 DEF Chunk
  <2> HIDE DEF at
  <2> QED BY <2>1, <2>7, <2>9, <2>10
<1> HIDE DEF at
<1>9. /\ at \in [0 .. c -> 0 .. size] /\ at[0] = 0 /\ at[c] = size
      /\ \A i \in 1 .. c :
           /\ at[i - 1] <= at[i] /\ (c # 1 => at[i - 1] < at[i])
           /\ Chunk(n, size, i - 1) = SubSeq(Content(n, size), at[i - 1] + 1, at[i])
  BY <1>5, <1>6, <1>7, <1>8
<1> QED BY <1>1, <1>9 DEF at

\* The bytes of a datagram (messages.go:138).
LEMMA ContentType ==
    ASSUME NEW n, NEW size \in Nat
    PROVE  /\ Content(n, size) \in Seq([of : {n}, place : Nat])
           /\ Len(Content(n, size)) = size
<1>1. \A p \in 1 .. size : [of |-> n, place |-> p] \in [of : {n}, place : Nat]
  OBVIOUS
<1>2. [p \in 1 .. size |-> [of |-> n, place |-> p]] \in Seq([of : {n}, place : Nat])
  BY <1>1, IsASeq
<1>3. DOMAIN [p \in 1 .. size |-> [of |-> n, place |-> p]] = 1 .. size
  OBVIOUS
<1>4. Len([p \in 1 .. size |-> [of |-> n, place |-> p]]) = size
  BY <1>2, <1>3, LenProperties
<1> QED BY <1>2, <1>4 DEF Content

\* One chunk is what is between two ends (messages.go:148-161).
LEMMA ChunkIsPiece ==
    ASSUME NEW n, NEW size \in Nat
    PROVE  \A i \in 1 .. FragCount(size) :
              /\ Ends(size)[i - 1] <= Ends(size)[i]
              /\ Chunk(n, size, i - 1) =
                   SubSeq(Content(n, size), Ends(size)[i - 1] + 1, Ends(size)[i])
  BY ChunksArePieces

\* All chunks of a datagram in their order are the datagram
\* (messages.go:130-132, 147-161).
LEMMA ChunksJoin ==
    ASSUME NEW n, NEW size \in Nat, NEW seqs, Len(seqs) = FragCount(size),
           \A i \in 1 .. FragCount(size) : seqs[i] = Chunk(n, size, i - 1)
    PROVE  Seqs!FlattenSeq(seqs) = Content(n, size)
<1>1. PICK k \in Nat \ {0} : k = FragCount(size)
  BY CountBounds
<1> DEFINE at == Ends(size)
           c == Content(n, size)
           B == [of : {n}, place : Nat]
<1>2. at \in [0 .. k -> 0 .. size] /\ at[0] = 0 /\ at[k] = size
  BY <1>1, ChunksArePieces
<1>3. \A i \in 1 .. k : at[i - 1] <= at[i] /\ Chunk(n, size, i - 1) = SubSeq(c, at[i - 1] + 1, at[i])
  BY <1>1, ChunkIsPiece
<1>4. c \in Seq(B) /\ Len(c) = size
  BY ContentType
<1> HIDE DEF at, c, B
<1>5. Pieces(seqs, c, k, at)
  BY <1>1, <1>2, <1>3, <1>4 DEF Pieces
<1>6. Seqs!FlattenSeq(seqs) = c
  BY <1>4, <1>5, FlattenOfPieces
<1> QED BY <1>6 DEF c

\* The only chunk of a datagram is the datagram (messages.go:113-115, 139-141).
LEMMA OnlyChunk ==
    ASSUME NEW n, NEW size \in Nat, FragCount(size) = 1
    PROVE  Chunk(n, size, 0) = Content(n, size)
<1> DEFINE at == Ends(size)
           c == Content(n, size)
<1>1. at[0] = 0 /\ at[1] = size /\ Chunk(n, size, 1 - 1) = SubSeq(c, at[1 - 1] + 1, at[1])
  <2>1. 1 \in 1 .. FragCount(size)
    OBVIOUS
  <2> QED BY <2>1, ChunksArePieces, ZenonT(40)
<1>2. c \in Seq([of : {n}, place : Nat]) /\ Len(c) = size
  BY ContentType
<1> HIDE DEF at, c
<1>3. Chunk(n, size, 0) = SubSeq(c, 1, size)
  <2>1. 1 - 1 = 0 /\ 0 + 1 = 1
    OBVIOUS
  <2> QED BY <1>1, <2>1
<1>4. SubSeq(c, 1, Len(c)) = c
  BY <1>2, WholeSubSeq
<1> QED BY <1>2, <1>3, <1>4 DEF c

\* What a chunk is made of; it is nil only when it is the only one
\* (messages.go:147-161).
LEMMA ChunkType ==
    ASSUME NEW n, NEW size \in Nat, NEW i \in 0 .. FragCount(size) - 1
    PROVE  /\ Chunk(n, size, i) \in Seq([of : {n}, place : Nat])
           /\ FragCount(size) # 1 => Chunk(n, size, i) # Nil
<1> DEFINE c == Content(n, size)
           B == [of : {n}, place : Nat]
<1>1. PICK k \in Nat \ {0} : k = FragCount(size)
  BY CountBounds
<1>2. PICK j \in 1 .. k : j = i + 1 /\ j - 1 = i
  BY <1>1
<1>3. PICK a \in 0 .. size, b \in 0 .. size :
          a <= b /\ (k # 1 => a < b) /\ Chunk(n, size, i) = SubSeq(c, a + 1, b)
  <2>1. Ends(size)[j - 1] \in 0 .. size /\ Ends(size)[j] \in 0 .. size
    <3>1. j - 1 \in 0 .. k /\ j \in 0 .. k
      BY <1>1
    <3>2. Ends(size) \in [0 .. k -> 0 .. size]
      BY <1>1, ChunksArePieces
    <3> QED BY <3>1, <3>2
  <2>2. /\ Ends(size)[j - 1] <= Ends(size)[j] /\ (k # 1 => Ends(size)[j - 1] < Ends(size)[j])
        /\ Chunk(n, size, j - 1) = SubSeq(c, Ends(size)[j - 1] + 1, Ends(size)[j])
    <3>1. \A l \in 1 .. FragCount(size) :
            /\ Ends(size)[l - 1] <= Ends(size)[l]
            /\ (FragCount(size) # 1 => Ends(size)[l - 1] < Ends(size)[l])
            /\ Chunk(n, size, l - 1) = SubSeq(c, Ends(size)[l - 1] + 1, Ends(size)[l])
      BY ChunksArePieces, ZenonT(40)
    <3> HIDE DEF c
    <3> QED BY <1>1, <3>1
  <2> QED BY <1>2, <2>1, <2>2
<1>4. c \in Seq(B) /\ Len(c) = size
  BY ContentType
<1> HIDE DEF c, B
<1>5. SubSeq(c, a + 1, b) \in Seq(B) /\ Len(SubSeq(c, a + 1, b)) = IF a + 1 <= b THEN b - (a + 1) + 1 ELSE 0
  <2>1. \A p \in a + 1 .. b : p \in 1 .. Len(c)
    BY <1>4
  <2>2. \A p \in a + 1 .. b : c[p] \in B
    BY <1>4, <2>1, ElementOfSeq
  <2>3. a + 1 \in Int /\ b \in Int
    OBVIOUS
  <2> QED BY <2>2, <2>3, SubSeqProperties
<1>6. k # 1 => SubSeq(c, a + 1, b) # << >>
  <2>1. k # 1 => Len(SubSeq(c, a + 1, b)) # 0
    BY <1>3, <1>5
  <2> QED BY <2>1, EmptySeq
<1> QED BY <1>1, <1>3, <1>5, <1>6 DEF Nil, B

-----------------------------------------------------------------------------
(* The invariant of the reassembly *)

Numbers == 1 .. Len(sent)
Count(n) == FragCount(sent[n].size)
Part(n, i) == Fragment(n, sent[n].id, sent[n].size, i)

AnyByte == [of : Nat, place : Nat]

\* The bytes of the datagrams of an ID.
BytesOf(id) == {b \in [of : Numbers, place : Nat] : sent[b.of].id = id}

\* What the slots and the results of an ID hold are bytes of its datagrams.
ReassemblyTypes ==
    /\ sent \in Seq([id : ID, size : Sizes])
    /\ fragments = [id \in ID |-> fragments[id]]
    /\ \A id \in ID : fragments[id] \in Seq(Seq(BytesOf(id)))
    /\ returned \in Seq([id : ID, of : Nat, data : Seq(AnyByte)])
    /\ \A i \in 1 .. Len(returned) : returned[i].data \in Seq(BytesOf(returned[i].id))

\* What is under way are fragments of what was sent.
AirInv == \A f \in air : f.of \in Numbers /\ \E i \in 0 .. Count(f.of) - 1 : f = Part(f.of, i)

\* Only the last datagram of an ID that is not mixed is incomplete.
LastIsOpen(id) ==
    \A m, n \in Numbers : sent[m].id = id /\ sent[n].id = id /\ m < n => Missing(m) = {}

\* Its slots, as Add will find them, hold the fragments that have arrived.
Slots(id, c) == IF fragments[id] = NoEntry THEN [i \in 1 .. c |-> Nil] ELSE fragments[id]
SlotsHold(id) ==
    \A n \in Numbers :
        sent[n].id = id /\ Missing(n) # {} /\ Count(n) # 1 =>
            /\ Len(Slots(id, Count(n))) = Count(n)
            /\ \A i \in 1 .. Count(n) :
                 Slots(id, Count(n))[i] =
                     IF Part(n, i - 1) \in air THEN Nil ELSE Chunk(n, sent[n].size, i - 1)

\* Without such a datagram the ID has no entry.
NoneOpen(id) ==
    (\A n \in Numbers : sent[n].id = id => Missing(n) = {} \/ Count(n) = 1) => fragments[id] = NoEntry

\* What Add has made of an ID that is not mixed.
Returned(id) ==
    /\ id \notin refused
    /\ {returned[i].of : i \in Results(id)} = Whole(id)
    /\ \A i, j \in Results(id) : i < j => returned[i].of < returned[j].of
    /\ \A i \in Results(id) :
         returned[i].data = Content(returned[i].of, sent[returned[i].of].size)

Unmixed(id) == LastIsOpen(id) /\ SlotsHold(id) /\ NoneOpen(id) /\ Returned(id)

ReassemblyInv == ReassemblyTypes /\ AirInv /\ \A id \in ID \ mixed : Unmixed(id)

-----------------------------------------------------------------------------
\* The datagrams sent, by their numbers (messages.go:138-164).
LEMMA SentTypes ==
    ASSUME ReassemblyTypes
    PROVE  /\ Len(sent) \in Nat /\ Numbers \subseteq Nat
           /\ \A n \in Numbers :
                sent[n].id \in ID /\ sent[n].size \in Nat /\ Count(n) \in Nat \ {0}
<1>1. sent \in Seq([id : ID, size : Sizes])
  BY DEF ReassemblyTypes
<1>2. Len(sent) \in Nat
  BY <1>1, LenProperties
<1>3. ASSUME NEW n \in Numbers PROVE sent[n].id \in ID /\ sent[n].size \in Nat
  <2>1. sent[n] \in [id : ID, size : Sizes]
    BY <1>1, <1>3, ElementOfSeq DEF Numbers
  <2> QED BY <2>1, SizesAreLengths
<1>4. \A n \in Numbers : Count(n) \in Nat \ {0}
  BY <1>3, CountBounds DEF Count
<1> QED BY <1>2, <1>3, <1>4 DEF Numbers

\* The fields of a fragment (messages.go:154-161).
LEMMA PartFields ==
    ASSUME NEW n, NEW i
    PROVE  /\ Part(n, i).of = n /\ Part(n, i).id = sent[n].id /\ Part(n, i).index = i
           /\ Part(n, i).count = Count(n) /\ Part(n, i).data = Chunk(n, sent[n].size, i)
  BY DEF Part, Fragment, Count

\* What a fragment that arrives says of its datagram (messages.go:147-161).
LEMMA InAir ==
    ASSUME ReassemblyTypes, AirInv, NEW f \in air
    PROVE  /\ f.of \in Numbers /\ f.id = sent[f.of].id /\ f.id \in ID
           /\ f.index \in 0 .. Count(f.of) - 1 /\ f = Part(f.of, f.index)
           /\ f.count = Count(f.of) /\ f.data = Chunk(f.of, sent[f.of].size, f.index)
<1>1. PICK i \in 0 .. Count(f.of) - 1 : f = Part(f.of, i) /\ f.of \in Numbers
  BY DEF AirInv
<1>2. /\ f.id = sent[f.of].id /\ f.index = i
      /\ f.count = Count(f.of) /\ f.data = Chunk(f.of, sent[f.of].size, i)
  BY <1>1, PartFields
<1> QED BY <1>1, <1>2, SentTypes

\* The bytes of a fragment are bytes of its ID (messages.go:147-161).
LEMMA FragmentBytes ==
    ASSUME ReassemblyTypes, AirInv, NEW f \in air
    PROVE  f.data \in Seq(BytesOf(f.id))
<1>1. /\ f.of \in Numbers /\ f.id = sent[f.of].id /\ f.index \in 0 .. Count(f.of) - 1
      /\ f.data = Chunk(f.of, sent[f.of].size, f.index)
  BY InAir
<1>2. f.data \in Seq([of : {f.of}, place : Nat])
  BY <1>1, SentTypes, ChunkType DEF Count
<1>3. [of : {f.of}, place : Nat] \subseteq BytesOf(f.id)
  BY <1>1 DEF BytesOf
<1> QED BY <1>2, <1>3, SeqMonotonic

\* Sequences of a smaller set are sequences of a larger one.
LEMMA SlotsMonotonic ==
    ASSUME NEW A, NEW B, A \subseteq B, NEW s \in Seq(Seq(A))
    PROVE  s \in Seq(Seq(B))
<1>1. Seq(A) \subseteq Seq(B)
  BY SeqMonotonic
<1> QED BY <1>1, SeqMonotonic

\* The bytes of an ID are bytes (messages.go:138-164).
LEMMA BytesOfAreBytes ==
    ASSUME ReassemblyTypes, NEW id
    PROVE  BytesOf(id) \subseteq AnyByte
  BY SentTypes DEF BytesOf, AnyByte

\* The slots a fragment goes into (messages.go:116-119).
LEMMA SlotTypes ==
    ASSUME ReassemblyTypes, AirInv, NEW f \in air
    PROVE  /\ SlotsFor(f) = Slots(f.id, f.count)
           /\ SlotsFor(f) \in Seq(Seq(BytesOf(f.id)))
<1>1. f.id \in ID /\ f.count \in Nat
  BY InAir, SentTypes
<1>2. fragments[f.id] \in Seq(Seq(BytesOf(f.id)))
  BY <1>1 DEF ReassemblyTypes
<1>3. [i \in 1 .. f.count |-> Nil] \in Seq(Seq(BytesOf(f.id)))
  <2>1. Nil \in Seq(BytesOf(f.id))
    BY EmptySeq DEF Nil
  <2> QED BY <1>1, <2>1, IsASeq
<1> QED BY <1>2, <1>3 DEF SlotsFor, Slots

\* What is missing of the other datagrams when a fragment arrives, and which of
\* the datagrams of an ID that is not mixed it can belong to
\* (messages.go:109-136).
LEMMA OneArrives ==
    ASSUME ReassemblyTypes, AirInv, NEW f \in air, air' = air \ {f}, UNCHANGED sent
    PROVE  /\ Numbers' = Numbers
           /\ \A n \in Numbers : /\ Missing(n)' \subseteq Missing(n)
                                 /\ n # f.of => Missing(n)' = Missing(n)
           /\ Missing(f.of)' = Missing(f.of) \ {f} /\ f \in Missing(f.of)
           /\ \A n, i : /\ Part(n, i)' = Part(n, i) /\ Count(n)' = Count(n)
                        /\ n # f.of => (Part(n, i) \in air' <=> Part(n, i) \in air)
           /\ \A id \in ID : LastIsOpen(id) => LastIsOpen(id)'
<1>1. Numbers' = Numbers
  BY DEF Numbers
<1>2. /\ \A n : Missing(n)' \subseteq Missing(n) /\ (n # f.of => Missing(n)' = Missing(n))
      /\ Missing(f.of)' = Missing(f.of) \ {f} /\ f \in Missing(f.of)
  BY DEF Missing
<1>3. \A n, i : Part(n, i)' = Part(n, i) /\ Count(n)' = Count(n)
  BY DEF Part, Count
<1>4. ASSUME NEW n, NEW i, n # f.of PROVE Part(n, i) \in air' <=> Part(n, i) \in air
  <2>1. Part(n, i) # f
    BY <1>4, PartFields
  <2> QED BY <2>1
<1>5. ASSUME NEW id \in ID, LastIsOpen(id) PROVE LastIsOpen(id)'
  BY <1>1, <1>2, <1>5 DEF LastIsOpen
<1> QED BY <1>1, <1>2, <1>3, <1>4, <1>5

\* Of an ID that is not mixed, a fragment belongs to the only datagram that is
\* incomplete, and that is the last one (messages.go:109-136).
LEMMA OnlyOpen ==
    ASSUME ReassemblyTypes, AirInv, NEW f \in air, LastIsOpen(f.id)
    PROVE  /\ \A n \in Numbers : sent[n].id = f.id /\ n # f.of => Missing(n) = {}
           /\ \A n \in Whole(f.id) : n < f.of
<1>1. /\ f.of \in Numbers /\ f.id = sent[f.of].id /\ f \in Missing(f.of)
      /\ \A n \in Numbers : n \in Int
  BY InAir, SentTypes DEF Missing
<1>2. ASSUME NEW n \in Numbers, sent[n].id = f.id, f.of < n PROVE FALSE
  BY <1>1, <1>2 DEF LastIsOpen
<1>3. ASSUME NEW n \in Numbers, sent[n].id = f.id, n # f.of PROVE Missing(n) = {}
  <2>1. n < f.of
    BY <1>1, <1>2, <1>3
  <2> QED BY <1>1, <1>3, <2>1 DEF LastIsOpen
<1>4. ASSUME NEW n \in Whole(f.id) PROVE n < f.of
  <2>1. n \in Numbers /\ sent[n].id = f.id /\ Missing(n) = {}
    BY <1>4 DEF Whole, Numbers
  <2>2. n # f.of
    BY <1>1, <2>1
  <2> QED BY <1>1, <1>2, <2>1, <2>2
<1> QED BY <1>3, <1>4

\* A fragment of another ID changes nothing that is said of an ID
\* (messages.go:109-136).
LEMMA OtherIDs ==
    ASSUME ReassemblyTypes, AirInv, NEW f \in air, air' = air \ {f}, UNCHANGED sent,
           NEW id \in ID, id # f.id, Unmixed(id),
           fragments'[id] = fragments[id], id \in refused' => id \in refused,
           Results(id)' = Results(id), \A i \in Results(id) : returned'[i] = returned[i]
    PROVE  Unmixed(id)'
<1>1. /\ Numbers' = Numbers
      /\ \A n, i : /\ Part(n, i)' = Part(n, i) /\ Count(n)' = Count(n)
                   /\ n # f.of => (Part(n, i) \in air' <=> Part(n, i) \in air)
      /\ LastIsOpen(id)'
  BY OneArrives DEF Unmixed
<1>2. \A n \in Numbers : sent[n].id = id => n # f.of /\ Missing(n)' = Missing(n)
  BY InAir, OneArrives
<1>3. SlotsHold(id)'
  <2> SUFFICES ASSUME NEW n \in Numbers', sent'[n].id = id, Missing(n)' # {}, Count(n)' # 1
               PROVE  /\ Len(Slots(id, Count(n))') = Count(n)'
                      /\ \A i \in 1 .. Count(n)' :
                           Slots(id, Count(n))'[i] =
                               IF Part(n, i - 1)' \in air' THEN Nil ELSE Chunk(n, sent'[n].size, i - 1)
    BY DEF SlotsHold
  <2>1. n \in Numbers /\ sent[n].id = id /\ Missing(n) # {} /\ Count(n) # 1 /\ n # f.of
    BY <1>1, <1>2
  <2>2. Slots(id, Count(n))' = Slots(id, Count(n)) /\ Count(n)' = Count(n) /\ sent' = sent
    BY <1>1 DEF Slots
  <2>3. /\ Len(Slots(id, Count(n))) = Count(n)
        /\ \A i \in 1 .. Count(n) :
             Slots(id, Count(n))[i] =
                 IF Part(n, i - 1) \in air THEN Nil ELSE Chunk(n, sent[n].size, i - 1)
    BY <2>1 DEF SlotsHold, Unmixed
  <2>4. \A i : Part(n, i - 1)' \in air' <=> Part(n, i - 1) \in air
    BY <1>1, <2>1
  <2> QED BY <2>2, <2>3, <2>4
<1>4. NoneOpen(id)'
  BY <1>1, <1>2 DEF NoneOpen, Unmixed
<1>5. Whole(id)' = Whole(id)
  BY <1>1, <1>2 DEF Whole, Numbers
<1>6. Returned(id)'
  <2>1. {returned'[i].of : i \in Results(id)'} = {returned[i].of : i \in Results(id)}
    OBVIOUS
  <2> QED BY <1>5, <2>1 DEF Returned, Unmixed
<1> QED BY <1>1, <1>3, <1>4, <1>6 DEF Unmixed

\* A result is appended: what that does to the results (messages.go:113-115, 130-135).
LEMMA ResultAppended ==
    ASSUME ReassemblyTypes, NEW r \in [id : ID, of : Nat, data : Seq(AnyByte)],
           returned' = Append(returned, r)
    PROVE  /\ returned' \in Seq([id : ID, of : Nat, data : Seq(AnyByte)])
           /\ Len(returned) \in Nat /\ Len(returned') = Len(returned) + 1
           /\ \A i \in 1 .. Len(returned) : returned'[i] = returned[i]
           /\ returned'[Len(returned) + 1] = r
           /\ \A id : id # r.id => Results(id)' = Results(id)
           /\ Results(r.id)' = Results(r.id) \cup {Len(returned) + 1}
<1>1. returned \in Seq([id : ID, of : Nat, data : Seq(AnyByte)])
  BY DEF ReassemblyTypes
<1>2. /\ returned' \in Seq([id : ID, of : Nat, data : Seq(AnyByte)])
      /\ Len(returned) \in Nat /\ Len(returned') = Len(returned) + 1
      /\ \A i \in 1 .. Len(returned) : returned'[i] = returned[i]
      /\ returned'[Len(returned) + 1] = r
  BY <1>1, LenProperties, AppendProperties
<1>3. 1 .. Len(returned') = (1 .. Len(returned)) \cup {Len(returned) + 1}
  BY <1>2
<1>4. ASSUME NEW id, id # r.id PROVE Results(id)' = Results(id)
  BY <1>2, <1>3, <1>4 DEF Results
<1>5. Results(r.id)' = Results(r.id) \cup {Len(returned) + 1}
  BY <1>2, <1>3 DEF Results
<1> QED BY <1>2, <1>4, <1>5

\* When its last fragment arrives, a datagram of an ID that is not mixed is
\* returned, and the ID is left without an entry (messages.go:113-115, 130-135).
LEMMA Completes ==
    ASSUME ReassemblyTypes, AirInv, NEW f \in air, air' = air \ {f}, UNCHANGED sent,
           Unmixed(f.id), Missing(f.of)' = {},
           returned' = Append(returned, [id |-> f.id, of |-> f.of,
                                         data |-> Content(f.of, sent[f.of].size)]),
           [id |-> f.id, of |-> f.of, data |-> Content(f.of, sent[f.of].size)]
               \in [id : ID, of : Nat, data : Seq(AnyByte)],
           fragments'[f.id] = NoEntry, f.id \notin refused'
    PROVE  Unmixed(f.id)'
<1>0. PICK r \in [id : ID, of : Nat, data : Seq(AnyByte)] :
          r = [id |-> f.id, of |-> f.of, data |-> Content(f.of, sent[f.of].size)]
  OBVIOUS
<1> DEFINE n0 == f.of
<1>1. /\ Numbers' = Numbers /\ LastIsOpen(f.id)'
      /\ \A n \in Numbers : n # n0 => Missing(n)' = Missing(n)
  BY InAir, OneArrives DEF Unmixed
<1>2. /\ n0 \in Numbers /\ sent[n0].id = f.id
      /\ \A n \in Numbers : sent[n].id = f.id /\ n # n0 => Missing(n) = {}
      /\ \A n \in Whole(f.id) : n < n0
  BY InAir, OnlyOpen DEF Unmixed
<1>3. \A n \in Numbers : sent[n].id = f.id => Missing(n)' = {}
  BY <1>1, <1>2
<1>4. SlotsHold(f.id)'
  BY <1>1, <1>3 DEF SlotsHold
<1>5. NoneOpen(f.id)'
  BY DEF NoneOpen
<1>6. Whole(f.id)' = Whole(f.id) \cup {n0}
  BY <1>1, <1>2, <1>3 DEF Whole, Numbers
<1>7. PICK l \in Nat :
      /\ l = Len(returned) + 1
      /\ \A i \in 1 .. Len(returned) : returned'[i] = returned[i]
      /\ returned'[l] = r /\ l \notin 1 .. Len(returned)
      /\ Results(f.id)' = Results(f.id) \cup {l} /\ Results(f.id) \subseteq 1 .. Len(returned)
      /\ Len(returned) \in Nat
  <2>1. Results(f.id) \subseteq 1 .. Len(returned)
    BY DEF Results
  <2>2. r.id = f.id /\ returned' = Append(returned, r)
    BY <1>0
  <2>3. /\ Len(returned) \in Nat
        /\ \A i \in 1 .. Len(returned) : returned'[i] = returned[i]
        /\ returned'[Len(returned) + 1] = r
        /\ Results(r.id)' = Results(r.id) \cup {Len(returned) + 1}
    BY <2>2, ResultAppended
  <2> QED BY <2>1, <2>2, <2>3
<1>8. r.of = n0 /\ r.data = Content(n0, sent[n0].size)
  BY <1>0
<1>9. /\ {returned[i].of : i \in Results(f.id)} = Whole(f.id)
      /\ \A i, j \in Results(f.id) : i < j => returned[i].of < returned[j].of
      /\ \A i \in Results(f.id) :
           returned[i].data = Content(returned[i].of, sent[returned[i].of].size)
  BY DEF Unmixed, Returned
<1> HIDE DEF n0
<1>10. \A i \in Results(f.id) : returned'[i] = returned[i]
  BY <1>7
<1>11. {returned'[i].of : i \in Results(f.id)'} = Whole(f.id)'
  <2>1. {returned'[i].of : i \in Results(f.id)} = {returned[i].of : i \in Results(f.id)}
    BY <1>10
  <2>2. {returned'[i].of : i \in Results(f.id) \cup {l}} =
            {returned'[i].of : i \in Results(f.id)} \cup {returned'[l].of}
    OBVIOUS
  <2> QED BY <1>6, <1>7, <1>8, <1>9, <2>1, <2>2
<1>12. ASSUME NEW i \in Results(f.id)', NEW j \in Results(f.id)', i < j
       PROVE  returned'[i].of < returned'[j].of
  <2>1. i # l
    BY <1>7, <1>12
  <2>2. i \in Results(f.id)
    BY <1>7, <2>1
  <2>3. CASE j = l
    <3>1. returned[i].of \in Whole(f.id)
      BY <1>9, <2>2
    <3>2. returned[i].of < n0
      BY <1>2, <3>1 DEF n0
    <3> QED BY <1>7, <1>8, <1>10, <2>2, <2>3, <3>2
  <2>4. CASE j # l
    BY <1>7, <1>9, <1>10, <1>12, <2>2, <2>4
  <2> QED BY <2>3, <2>4
<1>13. ASSUME NEW i \in Results(f.id)'
       PROVE  returned'[i].data = Content(returned'[i].of, sent'[returned'[i].of].size)
  <2>1. CASE i = l
    BY <1>7, <1>8, <2>1
  <2>2. CASE i # l
    BY <1>7, <1>9, <1>10, <2>2
  <2> QED BY <2>1, <2>2
<1>14. Returned(f.id)'
  BY <1>11, <1>12, <1>13 DEF Returned
<1> QED BY <1>1, <1>4, <1>5, <1>14 DEF Unmixed

\* The types after a result (messages.go:113-115, 130-135).
LEMMA ResultTypes ==
    ASSUME ReassemblyTypes, AirInv, NEW f \in air, UNCHANGED sent,
           NEW d \in Seq(BytesOf(f.id)),
           returned' = Append(returned, [id |-> f.id, of |-> f.of, data |-> d])
    PROVE  /\ [id |-> f.id, of |-> f.of, data |-> d] \in [id : ID, of : Nat, data : Seq(AnyByte)]
           /\ returned' \in Seq([id : ID, of : Nat, data : Seq(AnyByte)])
           /\ \A i \in 1 .. Len(returned') : returned'[i].data \in Seq(BytesOf(returned'[i].id))
<1> DEFINE r == [id |-> f.id, of |-> f.of, data |-> d]
<1>1. r \in [id : ID, of : Nat, data : Seq(AnyByte)]
  <2>1. f.id \in ID /\ f.of \in Nat
    BY InAir, SentTypes
  <2>2. d \in Seq(AnyByte)
    BY BytesOfAreBytes, SeqMonotonic
  <2> QED BY <2>1, <2>2
<1>2. r.id = f.id /\ r.data = d
  OBVIOUS
<1>3. returned' = Append(returned, r)
  OBVIOUS
<1> HIDE DEF r
<1>4. /\ returned' \in Seq([id : ID, of : Nat, data : Seq(AnyByte)])
      /\ Len(returned) \in Nat /\ Len(returned') = Len(returned) + 1
      /\ \A i \in 1 .. Len(returned) : returned'[i] = returned[i]
      /\ returned'[Len(returned) + 1] = r
  BY <1>1, <1>3, ResultAppended
<1>6. ASSUME NEW i \in 1 .. Len(returned') PROVE returned'[i].data \in Seq(BytesOf(returned'[i].id))
  <2>1. CASE i = Len(returned) + 1
    BY <1>2, <1>4, <2>1
  <2>2. CASE i # Len(returned) + 1
    <3>1. i \in 1 .. Len(returned)
      BY <1>4, <2>2
    <3> QED BY <1>4, <3>1 DEF ReassemblyTypes
  <2> QED BY <2>1, <2>2
<1> QED BY <1>1, <1>4, <1>6 DEF r

\* The types after an arrival (messages.go:109-136).
LEMMA TypesAfter ==
    ASSUME ReassemblyTypes, UNCHANGED sent,
           fragments' = [id \in ID |-> fragments'[id]],
           \A id \in ID : fragments'[id] \in Seq(Seq(BytesOf(id))),
           returned' \in Seq([id : ID, of : Nat, data : Seq(AnyByte)]),
           \A i \in 1 .. Len(returned') : returned'[i].data \in Seq(BytesOf(returned'[i].id))
    PROVE  ReassemblyTypes'
<1>1. \A id : BytesOf(id) = {b \in [of : Numbers', place : Nat] : sent'[b.of].id = id}
  BY DEF BytesOf, Numbers
<1>2. \A id \in ID : (fragments[id] \in Seq(Seq(BytesOf(id))))'
  BY <1>1 DEF BytesOf
<1>3. (\A i \in 1 .. Len(returned) : returned[i].data \in Seq(BytesOf(returned[i].id)))'
  BY <1>1 DEF BytesOf
<1>4. sent' \in Seq([id : ID, size : Sizes])
  BY DEF ReassemblyTypes
<1> QED BY <1>2, <1>3, <1>4 DEF ReassemblyTypes

\* An arrival leaves the other fragments what they are (messages.go:109-136).
LEMMA AirAfter ==
    ASSUME ReassemblyTypes, AirInv, NEW f \in air, air' = air \ {f}, UNCHANGED sent
    PROVE  AirInv'
<1> SUFFICES ASSUME NEW g \in air'
             PROVE  g.of \in Numbers' /\ \E i \in 0 .. Count(g.of)' - 1 : g = Part(g.of, i)'
  BY DEF AirInv
<1>1. g.of \in Numbers /\ \E i \in 0 .. Count(g.of) - 1 : g = Part(g.of, i)
  BY DEF AirInv
<1>2. Numbers' = Numbers /\ \A n, i : Part(n, i)' = Part(n, i) /\ Count(n)' = Count(n)
  BY OneArrives
<1> QED BY <1>1, <1>2

\* The only fragment of a datagram arrives (messages.go:113-115).
LEMMA SingleKeeps ==
    ASSUME ReassemblyInv, NEW f \in air, AddSingle(f), air' = air \ {f}, UNCHANGED <<sent, mixed>>
    PROVE  ReassemblyInv'
<1>1. ReassemblyTypes /\ AirInv /\ sent' = sent /\ mixed' = mixed
  BY DEF ReassemblyInv
<1>2. /\ f.of \in Numbers /\ f.id = sent[f.of].id /\ f.id \in ID
      /\ f.index \in 0 .. Count(f.of) - 1 /\ f = Part(f.of, f.index)
      /\ f.count = Count(f.of) /\ f.data = Chunk(f.of, sent[f.of].size, f.index)
  BY <1>1, InAir
<1>3. /\ Count(f.of) = 1 /\ fragments' = fragments /\ refused' = refused
      /\ returned' = Append(returned, [id |-> f.id, of |-> f.of, data |-> f.data])
  BY <1>2 DEF AddSingle
<1>4. f.index = 0
  BY <1>2, <1>3
<1>5. f.data \in Seq(BytesOf(f.id))
  BY <1>1, FragmentBytes
<1>6. /\ [id |-> f.id, of |-> f.of, data |-> f.data] \in [id : ID, of : Nat, data : Seq(AnyByte)]
      /\ returned' \in Seq([id : ID, of : Nat, data : Seq(AnyByte)])
      /\ \A i \in 1 .. Len(returned') : returned'[i].data \in Seq(BytesOf(returned'[i].id))
  BY <1>1, <1>3, <1>5, ResultTypes
<1>7. ReassemblyTypes'
  <2>1. /\ fragments' = [id \in ID |-> fragments'[id]]
        /\ \A id \in ID : fragments'[id] \in Seq(Seq(BytesOf(id)))
    BY <1>1, <1>3 DEF ReassemblyTypes
  <2> QED BY <1>1, <1>6, <2>1, TypesAfter
<1>8. AirInv'
  BY <1>1, AirAfter
<1>9. ASSUME NEW id \in ID \ mixed', id # f.id PROVE Unmixed(id)'
  <2>1. id \in ID /\ Unmixed(id)
    BY <1>1, <1>9 DEF ReassemblyInv
  <2>2. Results(id)' = Results(id) /\ \A i \in Results(id) : returned'[i] = returned[i]
    <3>1. [id |-> f.id, of |-> f.of, data |-> f.data].id = f.id
      OBVIOUS
    <3>2. /\ Results(id)' = Results(id)
          /\ \A i \in 1 .. Len(returned) : returned'[i] = returned[i]
      BY <1>1, <1>3, <1>6, <1>9, <3>1, ResultAppended
    <3> QED BY <3>2 DEF Results
  <2>3. fragments'[id] = fragments[id] /\ refused' = refused
    BY <1>3
  <2> QED BY <1>1, <1>9, <2>1, <2>2, <2>3, OtherIDs
<1>10. ASSUME f.id \notin mixed' PROVE Unmixed(f.id)'
  <2>1. Unmixed(f.id)
    BY <1>1, <1>2, <1>10 DEF ReassemblyInv
  <2>2. f.data = Content(f.of, sent[f.of].size)
    BY <1>1, <1>2, <1>3, <1>4, SentTypes, OnlyChunk DEF Count
  <2>3. Missing(f.of)' = {}
    <3>1. ASSUME NEW g \in Missing(f.of)' PROVE FALSE
      <4>1. g \in air /\ g # f /\ g.of = f.of
        BY <3>1 DEF Missing
      <4>2. g.index \in 0 .. Count(g.of) - 1 /\ g = Part(g.of, g.index)
        BY <1>1, <4>1, InAir
      <4>3. g.index = 0
        BY <1>3, <4>1, <4>2
      <4> QED BY <1>2, <1>4, <4>1, <4>2, <4>3
    <3> QED BY <3>1
  <2>4. fragments[f.id] = NoEntry
    <3>1. \A n \in Numbers : sent[n].id = f.id => Missing(n) = {} \/ Count(n) = 1
      BY <1>1, <1>3, <2>1, OnlyOpen DEF Unmixed
    <3> QED BY <2>1, <3>1 DEF NoneOpen, Unmixed
  <2>5. f.id \notin refused'
    BY <1>3, <2>1 DEF Unmixed, Returned
  <2> QED BY <1>1, <1>3, <1>6, <2>1, <2>2, <2>3, <2>4, <2>5, Completes
<1> QED BY <1>7, <1>8, <1>9, <1>10 DEF ReassemblyInv

\* A fragment with an index the slots do not have: its ID is mixed
\* (messages.go:120-122).
LEMMA OutOfRangeKeeps ==
    ASSUME ReassemblyInv, NEW f \in air, AddOutOfRange(f), air' = air \ {f}, UNCHANGED <<sent, mixed>>
    PROVE  ReassemblyInv'
<1>1. ReassemblyTypes /\ AirInv /\ sent' = sent /\ mixed' = mixed
  BY DEF ReassemblyInv
<1>2. /\ f.of \in Numbers /\ f.id = sent[f.of].id /\ f.id \in ID
      /\ f.index \in 0 .. Count(f.of) - 1 /\ f.count = Count(f.of)
  BY <1>1, InAir
<1>3. /\ Count(f.of) # 1 /\ f.index >= Len(SlotsFor(f)) /\ refused' = refused \cup {f.id}
      /\ fragments' = fragments /\ returned' = returned
  BY <1>2 DEF AddOutOfRange
<1>4. f.id \in mixed
  <2> SUFFICES ASSUME f.id \notin mixed PROVE FALSE
    OBVIOUS
  <2>1. SlotsHold(f.id) /\ f \in Missing(f.of)
    BY <1>2 DEF ReassemblyInv, Unmixed, Missing
  <2>2. Len(SlotsFor(f)) = Count(f.of)
    BY <1>1, <1>2, <1>3, <2>1, SlotTypes DEF SlotsHold
  <2>3. Count(f.of) \in Nat
    BY <1>1, <1>2, SentTypes
  <2> QED BY <1>2, <1>3, <2>2, <2>3
<1>5. ReassemblyTypes'
  BY <1>1, <1>3, TypesAfter DEF ReassemblyTypes
<1>6. AirInv'
  BY <1>1, AirAfter
<1>7. ASSUME NEW id \in ID \ mixed' PROVE Unmixed(id)'
  <2>1. id \in ID /\ Unmixed(id) /\ id # f.id
    BY <1>1, <1>4, <1>7 DEF ReassemblyInv
  <2>2. Results(id)' = Results(id) /\ \A i \in Results(id) : returned'[i] = returned[i]
    BY <1>3 DEF Results
  <2>3. fragments'[id] = fragments[id] /\ (id \in refused' => id \in refused)
    BY <1>3, <2>1
  <2> QED BY <1>1, <2>1, <2>2, <2>3, OtherIDs
<1> QED BY <1>5, <1>6, <1>7 DEF ReassemblyInv

\* The slots after a fragment has taken its own (messages.go:123).
LEMMA SlotTaken ==
    ASSUME ReassemblyTypes, AirInv, NEW f \in air, f.index < Len(SlotsFor(f)),
           NEW slots, slots = [SlotsFor(f) EXCEPT ![f.index + 1] = f.data]
    PROVE  /\ slots \in Seq(Seq(BytesOf(f.id))) /\ Len(slots) = Len(SlotsFor(f))
           /\ Len(slots) \in Nat \ {0}
           /\ \A i \in 1 .. Len(slots) :
                slots[i] = IF i = f.index + 1 THEN f.data ELSE SlotsFor(f)[i]
<1>1. SlotsFor(f) \in Seq(Seq(BytesOf(f.id))) /\ f.data \in Seq(BytesOf(f.id))
  BY SlotTypes, FragmentBytes
<1>2. f.index \in Nat
  BY InAir, SentTypes
<1>3. Len(SlotsFor(f)) \in Nat
  BY <1>1, LenProperties
<1>4. f.index + 1 \in 1 .. Len(SlotsFor(f))
  BY <1>2, <1>3
<1>5. /\ slots \in Seq(Seq(BytesOf(f.id))) /\ Len(slots) = Len(SlotsFor(f))
      /\ \A i \in 1 .. Len(SlotsFor(f)) :
           slots[i] = IF i = f.index + 1 THEN f.data ELSE SlotsFor(f)[i]
  BY <1>1, <1>4, ExceptSeq
<1>6. Len(slots) \in Nat \ {0}
  BY <1>2, <1>3, <1>5
<1> QED BY <1>5, <1>6

\* The slots of a datagram of an ID that is not mixed, after one more fragment
\* (messages.go:123).
LEMMA SlotsAfter ==
    ASSUME ReassemblyTypes, AirInv, NEW f \in air, f.count # 1, f.index < Len(SlotsFor(f)),
           NEW slots, slots = [SlotsFor(f) EXCEPT ![f.index + 1] = f.data],
           Unmixed(f.id), air' = air \ {f}
    PROVE  /\ Len(slots) = Count(f.of)
           /\ \A i \in 1 .. Count(f.of) :
                slots[i] = IF Part(f.of, i - 1) \in air' THEN Nil
                           ELSE Chunk(f.of, sent[f.of].size, i - 1)
<1>1. /\ f.of \in Numbers /\ f.id = sent[f.of].id /\ f.id \in ID
      /\ f.index \in 0 .. Count(f.of) - 1 /\ f = Part(f.of, f.index)
      /\ f.count = Count(f.of) /\ f.data = Chunk(f.of, sent[f.of].size, f.index)
      /\ f \in Missing(f.of)
  BY InAir DEF Missing
<1>2. SlotsFor(f) = Slots(f.id, Count(f.of))
  BY <1>1, SlotTypes
<1>3. /\ Len(SlotsFor(f)) = Count(f.of)
      /\ \A i \in 1 .. Count(f.of) :
           SlotsFor(f)[i] = IF Part(f.of, i - 1) \in air THEN Nil
                            ELSE Chunk(f.of, sent[f.of].size, i - 1)
  BY <1>1, <1>2 DEF Unmixed, SlotsHold
<1>4. /\ Len(slots) = Count(f.of)
      /\ \A i \in 1 .. Count(f.of) : slots[i] = IF i = f.index + 1 THEN f.data ELSE SlotsFor(f)[i]
  BY <1>3, SlotTaken
<1>5. ASSUME NEW i \in 1 .. Count(f.of)
      PROVE  slots[i] = IF Part(f.of, i - 1) \in air' THEN Nil
                        ELSE Chunk(f.of, sent[f.of].size, i - 1)
  <2>1. f.index \in Int /\ i \in Int
    BY <1>1, SentTypes
  <2>2. CASE i = f.index + 1
    <3>1. i - 1 = f.index
      BY <2>1, <2>2
    <3> QED BY <1>1, <1>4, <2>2, <3>1
  <2>3. CASE i # f.index + 1
    <3>1. i - 1 # f.index
      BY <2>1, <2>3
    <3>2. Part(f.of, i - 1) # f
      BY <3>1, PartFields
    <3> QED BY <1>3, <1>4, <2>3, <3>2
  <2> QED BY <2>2, <2>3
<1> QED BY <1>4, <1>5

\* A fragment takes its slot and others are still empty (messages.go:123-128).
LEMMA WaitsKeeps ==
    ASSUME ReassemblyInv, NEW f \in air, f.count # 1, f.index < Len(SlotsFor(f)),
           NEW slots, slots = [SlotsFor(f) EXCEPT ![f.index + 1] = f.data],
           \E i \in 1 .. Len(slots) : slots[i] = Nil,
           fragments' = [fragments EXCEPT ![f.id] = slots],
           air' = air \ {f}, UNCHANGED <<sent, mixed, returned, refused>>
    PROVE  ReassemblyInv'
<1>1. /\ ReassemblyTypes /\ AirInv
      /\ sent' = sent /\ mixed' = mixed /\ returned' = returned /\ refused' = refused
  BY DEF ReassemblyInv
<1>2. /\ f.of \in Numbers /\ f.id = sent[f.of].id /\ f.id \in ID
      /\ f.index \in 0 .. Count(f.of) - 1 /\ f = Part(f.of, f.index)
      /\ f.count = Count(f.of) /\ f.data = Chunk(f.of, sent[f.of].size, f.index)
  BY <1>1, InAir
<1>3. /\ slots \in Seq(Seq(BytesOf(f.id))) /\ Len(slots) \in Nat \ {0}
  BY <1>1, SlotTaken
<1>4. /\ fragments'[f.id] = slots /\ \A id \in ID : id # f.id => fragments'[id] = fragments[id]
      /\ fragments' = [id \in ID |-> fragments'[id]]
  BY <1>1, <1>2 DEF ReassemblyTypes
<1>5. ReassemblyTypes'
  <2>1. \A id \in ID : fragments'[id] \in Seq(Seq(BytesOf(id)))
    BY <1>1, <1>3, <1>4 DEF ReassemblyTypes
  <2>2. /\ returned' \in Seq([id : ID, of : Nat, data : Seq(AnyByte)])
        /\ \A i \in 1 .. Len(returned') : returned'[i].data \in Seq(BytesOf(returned'[i].id))
    BY <1>1 DEF ReassemblyTypes
  <2> QED BY <1>1, <1>4, <2>1, <2>2, TypesAfter
<1>6. AirInv'
  BY <1>1, AirAfter
<1>7. ASSUME NEW id \in ID \ mixed', id # f.id PROVE Unmixed(id)'
  <2>1. id \in ID /\ Unmixed(id)
    BY <1>1, <1>7 DEF ReassemblyInv
  <2>2. Results(id)' = Results(id) /\ \A i \in Results(id) : returned'[i] = returned[i]
    BY <1>1 DEF Results
  <2> QED BY <1>1, <1>4, <1>7, <2>1, <2>2, OtherIDs
<1>8. ASSUME f.id \notin mixed' PROVE Unmixed(f.id)'
  <2>1. Unmixed(f.id)
    BY <1>1, <1>2, <1>8 DEF ReassemblyInv
  <2>2. /\ Len(slots) = Count(f.of)
        /\ \A i \in 1 .. Count(f.of) :
             slots[i] = IF Part(f.of, i - 1) \in air' THEN Nil
                        ELSE Chunk(f.of, sent[f.of].size, i - 1)
    BY <1>1, <2>1, SlotsAfter
  <2>3. /\ Numbers' = Numbers
        /\ \A n \in Numbers : n # f.of => Missing(n)' = Missing(n)
        /\ \A n, i : Part(n, i)' = Part(n, i) /\ Count(n)' = Count(n)
        /\ LastIsOpen(f.id)'
    BY <1>1, <1>2, <2>1, OneArrives DEF Unmixed
  <2>4. \A n \in Numbers : sent[n].id = f.id /\ n # f.of => Missing(n)' = {}
    BY <1>1, <2>1, <2>3, OnlyOpen DEF Unmixed
  <2>5. Missing(f.of)' # {}
    <3>1. PICK i \in 1 .. Count(f.of) : slots[i] = Nil
      BY <2>2
    <3>2. i - 1 \in 0 .. Count(f.of) - 1
      BY <1>1, <1>2, SentTypes
    <3>3. Chunk(f.of, sent[f.of].size, i - 1) # Nil
      BY <1>1, <1>2, <3>2, SentTypes, ChunkType DEF Count
    <3>4. Part(f.of, i - 1) \in air'
      BY <2>2, <3>1, <3>3
    <3>5. Part(f.of, i - 1).of = f.of
      BY PartFields
    <3> QED BY <3>4, <3>5 DEF Missing
  <2>6. SlotsHold(f.id)'
    <3> SUFFICES ASSUME NEW n \in Numbers', sent'[n].id = f.id, Missing(n)' # {}, Count(n)' # 1
                 PROVE  /\ Len(Slots(f.id, Count(n))') = Count(n)'
                        /\ \A i \in 1 .. Count(n)' :
                             Slots(f.id, Count(n))'[i] =
                                 IF Part(n, i - 1)' \in air' THEN Nil ELSE Chunk(n, sent'[n].size, i - 1)
      BY DEF SlotsHold
    <3>1. n = f.of
      BY <1>1, <2>3, <2>4
    <3>2. Slots(f.id, Count(n))' = slots
      <4>1. slots # NoEntry
        BY <1>3, EmptySeq DEF NoEntry
      <4> QED BY <1>4, <4>1 DEF Slots
    <3> QED BY <1>1, <2>2, <2>3, <3>1, <3>2
  <2>7. NoneOpen(f.id)'
    BY <1>1, <1>2, <2>3, <2>5 DEF NoneOpen
  <2>8. Whole(f.id)' = Whole(f.id)
    <3>1. f.of \notin Whole(f.id) /\ f.of \notin Whole(f.id)'
      BY <1>2, <2>5 DEF Whole, Missing
    <3>2. \A n \in Numbers : n # f.of => (n \in Whole(f.id)' <=> n \in Whole(f.id))
      BY <1>1, <2>3 DEF Whole, Numbers
    <3>3. Whole(f.id) \subseteq Numbers /\ Whole(f.id)' \subseteq Numbers
      BY <1>1 DEF Whole, Numbers
    <3>4. \A n : n \in Whole(f.id)' <=> n \in Whole(f.id)
      BY <3>1, <3>2, <3>3
    <3> QED BY <3>4, Zenon
  <2>9. Returned(f.id)'
    <3>1. Results(f.id)' = Results(f.id)
      BY <1>1 DEF Results
    <3> QED BY <1>1, <2>1, <2>8, <3>1 DEF Returned, Unmixed
  <2> QED BY <2>3, <2>6, <2>7, <2>9 DEF Unmixed
<1> QED BY <1>5, <1>6, <1>7, <1>8 DEF ReassemblyInv

\* A fragment takes the last empty slot (messages.go:123-135).
LEMMA LastSlotKeeps ==
    ASSUME ReassemblyInv, NEW f \in air, f.count # 1, f.index < Len(SlotsFor(f)),
           NEW slots, slots = [SlotsFor(f) EXCEPT ![f.index + 1] = f.data],
           ~(\E i \in 1 .. Len(slots) : slots[i] = Nil),
           fragments' = [fragments EXCEPT ![f.id] = NoEntry],
           returned' = Append(returned, [id |-> f.id, of |-> f.of, data |-> Seqs!FlattenSeq(slots)]),
           air' = air \ {f}, UNCHANGED <<sent, mixed, refused>>
    PROVE  ReassemblyInv'
<1>1. /\ ReassemblyTypes /\ AirInv
      /\ sent' = sent /\ mixed' = mixed /\ refused' = refused
  BY DEF ReassemblyInv
<1>2. /\ f.of \in Numbers /\ f.id = sent[f.of].id /\ f.id \in ID
      /\ f.index \in 0 .. Count(f.of) - 1 /\ f = Part(f.of, f.index)
      /\ f.count = Count(f.of) /\ f.data = Chunk(f.of, sent[f.of].size, f.index)
  BY <1>1, InAir
<1>3. slots \in Seq(Seq(BytesOf(f.id)))
  BY <1>1, SlotTaken
<1>4. PICK d \in Seq(BytesOf(f.id)) : d = Seqs!FlattenSeq(slots)
  BY <1>3, FlattenType
<1>5. /\ fragments'[f.id] = NoEntry /\ \A id \in ID : id # f.id => fragments'[id] = fragments[id]
      /\ fragments' = [id \in ID |-> fragments'[id]]
  BY <1>1, <1>2 DEF ReassemblyTypes
<1>6. /\ [id |-> f.id, of |-> f.of, data |-> d] \in [id : ID, of : Nat, data : Seq(AnyByte)]
      /\ returned' \in Seq([id : ID, of : Nat, data : Seq(AnyByte)])
      /\ \A i \in 1 .. Len(returned') : returned'[i].data \in Seq(BytesOf(returned'[i].id))
      /\ returned' = Append(returned, [id |-> f.id, of |-> f.of, data |-> d])
  BY <1>1, <1>4, ResultTypes
<1>7. ReassemblyTypes'
  <2>1. NoEntry \in Seq(Seq(BytesOf(f.id)))
    BY EmptySeq DEF NoEntry
  <2>2. \A id \in ID : fragments'[id] \in Seq(Seq(BytesOf(id)))
    BY <1>1, <1>5, <2>1 DEF ReassemblyTypes
  <2> QED BY <1>1, <1>5, <1>6, <2>2, TypesAfter
<1>8. AirInv'
  BY <1>1, AirAfter
<1>9. ASSUME NEW id \in ID \ mixed', id # f.id PROVE Unmixed(id)'
  <2>1. id \in ID /\ Unmixed(id)
    BY <1>1, <1>9 DEF ReassemblyInv
  <2>2. Results(id)' = Results(id) /\ \A i \in Results(id) : returned'[i] = returned[i]
    <3>1. [id |-> f.id, of |-> f.of, data |-> d].id = f.id
      OBVIOUS
    <3>2. /\ Results(id)' = Results(id)
          /\ \A i \in 1 .. Len(returned) : returned'[i] = returned[i]
      BY <1>1, <1>6, <1>9, <3>1, ResultAppended
    <3> QED BY <3>2 DEF Results
  <2> QED BY <1>1, <1>5, <1>9, <2>1, <2>2, OtherIDs
<1>10. ASSUME f.id \notin mixed' PROVE Unmixed(f.id)'
  <2>1. Unmixed(f.id)
    BY <1>1, <1>2, <1>10 DEF ReassemblyInv
  <2>2. /\ Len(slots) = Count(f.of)
        /\ \A i \in 1 .. Count(f.of) :
             slots[i] = IF Part(f.of, i - 1) \in air' THEN Nil
                        ELSE Chunk(f.of, sent[f.of].size, i - 1)
    BY <1>1, <2>1, SlotsAfter
  <2>3. \A i \in 1 .. Count(f.of) :
            Part(f.of, i - 1) \notin air' /\ slots[i] = Chunk(f.of, sent[f.of].size, i - 1)
    BY <2>2
  <2>4. d = Content(f.of, sent[f.of].size)
    <3>1. sent[f.of].size \in Nat /\ Len(slots) = FragCount(sent[f.of].size)
      BY <1>1, <1>2, <2>2, SentTypes DEF Count
    <3>2. \A i \in 1 .. FragCount(sent[f.of].size) : slots[i] = Chunk(f.of, sent[f.of].size, i - 1)
      BY <2>3 DEF Count
    <3> QED BY <1>4, <3>1, <3>2, ChunksJoin
  <2>5. Missing(f.of)' = {}
    <3>1. ASSUME NEW g \in Missing(f.of)' PROVE FALSE
      <4>1. g \in air /\ g \in air' /\ g.of = f.of
        BY <3>1 DEF Missing
      <4>2. g.index \in 0 .. Count(f.of) - 1 /\ g = Part(f.of, g.index)
        BY <1>1, <4>1, InAir
      <4>3. PICK i \in 1 .. Count(f.of) : i - 1 = g.index
        <5>1. Count(f.of) \in Nat
          BY <1>1, <1>2, SentTypes
        <5>2. g.index + 1 \in 1 .. Count(f.of) /\ (g.index + 1) - 1 = g.index
          BY <4>2, <5>1
        <5> QED BY <5>2
      <4> QED BY <2>3, <4>1, <4>2, <4>3
    <3> QED BY <3>1
  <2>6. f.id \notin refused'
    BY <1>1, <2>1 DEF Unmixed, Returned
  <2> QED BY <1>1, <1>5, <1>6, <2>1, <2>4, <2>5, <2>6, Completes
<1> QED BY <1>7, <1>8, <1>9, <1>10 DEF ReassemblyInv

\* A fragment with an index the slots have (messages.go:123-135).
LEMMA InRangeKeeps ==
    ASSUME ReassemblyInv, NEW f \in air, AddInRange(f), air' = air \ {f}, UNCHANGED <<sent, mixed>>
    PROVE  ReassemblyInv'
<1>1. PICK slots : slots = [SlotsFor(f) EXCEPT ![f.index + 1] = f.data]
  OBVIOUS
<1>2. f.count # 1 /\ f.index < Len(SlotsFor(f)) /\ refused' = refused
  BY DEF AddInRange
<1>3. CASE \E i \in 1 .. Len(slots) : slots[i] = Nil
  <2>1. fragments' = [fragments EXCEPT ![f.id] = slots] /\ returned' = returned
    BY <1>1, <1>3 DEF AddInRange
  <2> QED BY <1>1, <1>2, <1>3, <2>1, WaitsKeeps
<1>4. CASE ~(\E i \in 1 .. Len(slots) : slots[i] = Nil)
  <2>1. /\ fragments' = [fragments EXCEPT ![f.id] = NoEntry]
        /\ returned' = Append(returned, [id |-> f.id, of |-> f.of, data |-> Seqs!FlattenSeq(slots)])
    BY <1>1, <1>4 DEF AddInRange
  <2> QED BY <1>1, <1>2, <1>4, <2>1, LastSlotKeeps
<1> QED BY <1>3, <1>4

-----------------------------------------------------------------------------
(* A datagram is sent *)

\* It has the next number, and the earlier ones stay what they are
\* (messages.go:138-164).
LEMMA NextNumber ==
    ASSUME ReassemblyTypes, NEW r \in [id : ID, size : Sizes], sent' = Append(sent, r),
           NEW N, N = Len(sent) + 1
    PROVE  /\ sent' \in Seq([id : ID, size : Sizes])
           /\ N \in Nat /\ N \notin Numbers /\ Numbers' = Numbers \cup {N}
           /\ \A n \in Numbers : n < N
           /\ sent'[N] = r /\ \A n \in Numbers : sent'[n] = sent[n]
           /\ \A n \in Numbers : Count(n)' = Count(n) /\ \A i : Part(n, i)' = Part(n, i)
           /\ Count(N)' = FragCount(r.size) /\ \A i : Part(N, i)' = Fragment(N, r.id, r.size, i)
           /\ \A id : BytesOf(id) \subseteq BytesOf(id)'
<1>1. sent \in Seq([id : ID, size : Sizes])
  BY DEF ReassemblyTypes
<1>2. /\ sent' \in Seq([id : ID, size : Sizes])
      /\ Len(sent) \in Nat /\ Len(sent') = Len(sent) + 1
      /\ \A n \in 1 .. Len(sent) : sent'[n] = sent[n]
      /\ sent'[Len(sent) + 1] = r
  BY <1>1, LenProperties, AppendProperties
<1>3. /\ N \in Nat /\ N \notin Numbers /\ Numbers' = Numbers \cup {N}
      /\ \A n \in Numbers : n < N
  BY <1>2 DEF Numbers
<1>4. sent'[N] = r /\ \A n \in Numbers : sent'[n] = sent[n]
  BY <1>2 DEF Numbers
<1>5. \A n \in Numbers : Count(n)' = Count(n) /\ \A i : Part(n, i)' = Part(n, i)
  BY <1>4 DEF Count, Part
<1>6. Count(N)' = FragCount(r.size) /\ \A i : Part(N, i)' = Fragment(N, r.id, r.size, i)
  BY <1>4 DEF Count, Part
<1>7. ASSUME NEW id PROVE BytesOf(id) \subseteq BytesOf(id)'
  BY <1>3, <1>4 DEF BytesOf
<1> QED BY <1>2, <1>3, <1>4, <1>5, <1>6, <1>7

\* What is under way then (messages.go:138-164).
LEMMA MoreInAir ==
    ASSUME ReassemblyTypes, AirInv, NEW r \in [id : ID, size : Sizes], sent' = Append(sent, r),
           NEW N, N = Len(sent) + 1, air' = air \cup Fragments(N, r.id, r.size)
    PROVE  /\ \A n \in Numbers : /\ Missing(n)' = Missing(n)
                                 /\ \A i : Part(n, i) \in air' <=> Part(n, i) \in air
           /\ \A i \in 0 .. FragCount(r.size) - 1 : Fragment(N, r.id, r.size, i) \in air'
           /\ Missing(N)' # {}
           /\ AirInv'
<1>1. /\ N \notin Numbers /\ Numbers' = Numbers \cup {N}
      /\ \A n \in Numbers : Count(n)' = Count(n) /\ \A i : Part(n, i)' = Part(n, i)
      /\ Count(N)' = FragCount(r.size) /\ \A i : Part(N, i)' = Fragment(N, r.id, r.size, i)
  BY NextNumber
<1>2. \A i : Fragment(N, r.id, r.size, i).of = N
  BY DEF Fragment
<1>3. \A f \in Fragments(N, r.id, r.size) : f.of = N
  BY <1>2 DEF Fragments
<1>4. ASSUME NEW n \in Numbers PROVE Missing(n)' = Missing(n)
  <2>1. n # N
    BY <1>1
  <2> QED BY <1>3, <2>1 DEF Missing
<1>5. ASSUME NEW n \in Numbers, NEW i PROVE Part(n, i) \in air' <=> Part(n, i) \in air
  <2>1. n # N /\ Part(n, i).of = n
    BY <1>1, PartFields
  <2> QED BY <1>3, <2>1
<1>6. \A i \in 0 .. FragCount(r.size) - 1 : Fragment(N, r.id, r.size, i) \in air'
  BY DEF Fragments
<1>7. Missing(N)' # {}
  <2>1. r.size \in Nat
    BY SizesAreLengths
  <2>2. FragCount(r.size) \in Nat \ {0}
    BY <2>1, CountBounds
  <2>3. 0 \in 0 .. FragCount(r.size) - 1
    BY <2>2
  <2> QED BY <1>2, <1>6, <2>3 DEF Missing
<1>8. AirInv'
  <2> SUFFICES ASSUME NEW f \in air'
               PROVE  f.of \in Numbers' /\ \E i \in 0 .. Count(f.of)' - 1 : f = Part(f.of, i)'
    BY DEF AirInv
  <2>1. CASE f \in air
    <3>1. PICK n \in Numbers : n = f.of /\ \E i \in 0 .. Count(n) - 1 : f = Part(n, i)
      BY <2>1 DEF AirInv
    <3> QED BY <1>1, <3>1
  <2>2. CASE f \in Fragments(N, r.id, r.size)
    <3>1. PICK i \in 0 .. FragCount(r.size) - 1 : f = Fragment(N, r.id, r.size, i)
      BY <2>2 DEF Fragments
    <3>2. f.of = N
      BY <1>2, <3>1
    <3> QED BY <1>1, <3>1, <3>2
  <2> QED BY <2>1, <2>2
<1> QED BY <1>4, <1>5, <1>6, <1>7, <1>8

\* The types then: there are only more bytes (messages.go:138-164).
LEMMA TypesOfMore ==
    ASSUME ReassemblyTypes, NEW r \in [id : ID, size : Sizes], sent' = Append(sent, r),
           UNCHANGED <<fragments, returned>>
    PROVE  ReassemblyTypes'
<1>1. sent' \in Seq([id : ID, size : Sizes]) /\ \A id : BytesOf(id) \subseteq BytesOf(id)'
  BY NextNumber
<1>2. ASSUME NEW id \in ID PROVE fragments'[id] \in Seq(Seq(BytesOf(id)'))
  <2>1. fragments[id] \in Seq(Seq(BytesOf(id)))
    BY DEF ReassemblyTypes
  <2>2. PICK A, B : A = BytesOf(id) /\ B = BytesOf(id)'
    OBVIOUS
  <2>3. A \subseteq B /\ fragments[id] \in Seq(Seq(A))
    BY <1>1, <2>1, <2>2
  <2>4. fragments[id] \in Seq(Seq(B))
    BY <2>3, SlotsMonotonic
  <2> QED BY <2>2, <2>4
<1>3. ASSUME NEW i \in 1 .. Len(returned')
      PROVE  returned'[i].data \in Seq(BytesOf(returned[i].id)')
  <2>1. returned[i].data \in Seq(BytesOf(returned[i].id))
    BY DEF ReassemblyTypes
  <2>2. PICK A, B : A = BytesOf(returned[i].id) /\ B = BytesOf(returned[i].id)'
    OBVIOUS
  <2>3. A \subseteq B
    <3>1. \A b \in A : b \in B
      BY <2>2, NextNumber DEF BytesOf
    <3> QED BY <3>1
  <2> QED BY <2>1, <2>2, <2>3, SeqMonotonic
<1> QED BY <1>1, <1>2, <1>3 DEF ReassemblyTypes

\* What a datagram with another ID changes of an ID: nothing (messages.go:138-164).
LEMMA OtherIDsSent ==
    ASSUME ReassemblyTypes, AirInv, NEW r \in [id : ID, size : Sizes], sent' = Append(sent, r),
           air' = air \cup Fragments(Len(sent) + 1, r.id, r.size),
           UNCHANGED <<fragments, returned, refused>>,
           NEW id \in ID, id # r.id, Unmixed(id)
    PROVE  Unmixed(id)'
<1>0. PICK N : N = Len(sent) + 1
  OBVIOUS
<1>1. /\ N \notin Numbers /\ Numbers' = Numbers \cup {N}
      /\ sent'[N] = r /\ \A n \in Numbers : sent'[n] = sent[n]
      /\ \A n \in Numbers : Count(n)' = Count(n) /\ \A i : Part(n, i)' = Part(n, i)
  BY <1>0, NextNumber
<1>2. \A n \in Numbers : /\ Missing(n)' = Missing(n)
                         /\ \A i : Part(n, i) \in air' <=> Part(n, i) \in air
  BY <1>0, MoreInAir
<1>3. \A n \in Numbers' : sent'[n].id = id => n \in Numbers /\ sent[n].id = id
  BY <1>1
<1>4. LastIsOpen(id)'
  BY <1>1, <1>2, <1>3 DEF LastIsOpen, Unmixed
<1>5. SlotsHold(id)'
  <2> SUFFICES ASSUME NEW n \in Numbers', sent'[n].id = id, Missing(n)' # {}, Count(n)' # 1
               PROVE  /\ Len(Slots(id, Count(n))') = Count(n)'
                      /\ \A i \in 1 .. Count(n)' :
                           Slots(id, Count(n))'[i] =
                               IF Part(n, i - 1)' \in air' THEN Nil ELSE Chunk(n, sent'[n].size, i - 1)
    BY DEF SlotsHold
  <2>1. n \in Numbers /\ sent[n].id = id /\ Missing(n) # {} /\ Count(n) # 1
    BY <1>1, <1>2, <1>3
  <2>2. Slots(id, Count(n))' = Slots(id, Count(n)) /\ Count(n)' = Count(n) /\ sent'[n] = sent[n]
    BY <1>1, <2>1 DEF Slots
  <2>3. /\ Len(Slots(id, Count(n))) = Count(n)
        /\ \A i \in 1 .. Count(n) :
             Slots(id, Count(n))[i] =
                 IF Part(n, i - 1) \in air THEN Nil ELSE Chunk(n, sent[n].size, i - 1)
    BY <2>1 DEF SlotsHold, Unmixed
  <2>4. \A i : Part(n, i - 1)' \in air' <=> Part(n, i - 1) \in air
    BY <1>1, <1>2, <2>1
  <2> QED BY <2>2, <2>3, <2>4
<1>6. NoneOpen(id)'
  BY <1>1, <1>2, <1>3 DEF NoneOpen, Unmixed
<1>7. Whole(id)' = Whole(id)
  <2>1. \A n : n \in Whole(id)' <=> n \in Whole(id)
    BY <1>1, <1>2, <1>3 DEF Whole, Numbers
  <2> QED BY <2>1, Zenon
<1>8. Returned(id)'
  <2>1. Results(id)' = Results(id) /\ returned' = returned
    BY DEF Results
  <2>2. ASSUME NEW i \in Results(id) PROVE sent'[returned[i].of] = sent[returned[i].of]
    <3>1. returned[i].of \in Whole(id)
      BY <2>2 DEF Unmixed, Returned
    <3> QED BY <1>1, <3>1 DEF Whole, Numbers
  <2>3. /\ id \notin refused
        /\ {returned[i].of : i \in Results(id)} = Whole(id)
        /\ \A i, j \in Results(id) : i < j => returned[i].of < returned[j].of
        /\ \A i \in Results(id) :
             returned[i].data = Content(returned[i].of, sent[returned[i].of].size)
    BY DEF Returned, Unmixed
  <2>4. \A i \in Results(id) :
          returned'[i].data = Content(returned'[i].of, sent'[returned'[i].of].size)
    BY <2>1, <2>2, <2>3
  <2>5. {returned'[i].of : i \in Results(id)'} = Whole(id)'
    BY <1>7, <2>1, <2>3
  <2> QED BY <2>1, <2>3, <2>4, <2>5 DEF Returned
<1> QED BY <1>4, <1>5, <1>6, <1>8 DEF Unmixed

\* An ID is used again after the fragments of its datagrams have arrived: its
\* slots are the new datagram's (messages.go:116-119, 138-164).
LEMMA SameIDSent ==
    ASSUME ReassemblyTypes, AirInv, NEW r \in [id : ID, size : Sizes], sent' = Append(sent, r),
           air' = air \cup Fragments(Len(sent) + 1, r.id, r.size),
           UNCHANGED <<fragments, returned, refused>>,
           Unmixed(r.id), \A n \in Numbers : sent[n].id = r.id => Missing(n) = {}
    PROVE  Unmixed(r.id)'
<1>0. PICK N : N = Len(sent) + 1
  OBVIOUS
<1>1. /\ N \in Nat /\ N \notin Numbers /\ Numbers' = Numbers \cup {N}
      /\ \A n \in Numbers : n < N
      /\ sent'[N] = r /\ \A n \in Numbers : sent'[n] = sent[n]
  BY <1>0, NextNumber
<1>1b. Count(N)' = FragCount(r.size) /\ \A i : Part(N, i)' = Fragment(N, r.id, r.size, i)
  BY <1>0, NextNumber
<1>2. /\ \A n \in Numbers : Missing(n)' = Missing(n)
      /\ \A i \in 0 .. FragCount(r.size) - 1 : Fragment(N, r.id, r.size, i) \in air'
      /\ Missing(N)' # {}
  BY <1>0, MoreInAir
<1>3. FragCount(r.size) \in Nat \ {0}
  <2>1. r.size \in Nat
    BY SizesAreLengths
  <2> QED BY <2>1, CountBounds
<1>4. fragments[r.id] = NoEntry
  BY DEF NoneOpen, Unmixed
<1>5. \A n \in Numbers' : sent'[n].id = r.id /\ n # N => Missing(n)' = {}
  BY <1>1, <1>2
<1>6. LastIsOpen(r.id)'
  <2> SUFFICES ASSUME NEW m \in Numbers', NEW n \in Numbers', sent'[m].id = r.id, m < n
               PROVE  Missing(m)' = {}
    BY DEF LastIsOpen
  <2>1. m # N
    <3>1. n \in Int /\ n <= N
      BY <1>0, <1>1, SentTypes
    <3> QED BY <1>1, <3>1
  <2> QED BY <1>5, <2>1
<1>7. SlotsHold(r.id)'
  <2> SUFFICES ASSUME NEW n \in Numbers', sent'[n].id = r.id, Missing(n)' # {}, Count(n)' # 1
               PROVE  /\ Len(Slots(r.id, Count(n))') = Count(n)'
                      /\ \A i \in 1 .. Count(n)' :
                           Slots(r.id, Count(n))'[i] =
                               IF Part(n, i - 1)' \in air' THEN Nil ELSE Chunk(n, sent'[n].size, i - 1)
    BY DEF SlotsHold
  <2>1. n = N
    BY <1>5
  <2>2. PICK c \in Nat \ {0} : c = FragCount(r.size) /\ c = Count(n)'
    BY <1>1b, <1>3, <2>1
  <2>3. PICK slots : slots = [i \in 1 .. c |-> Nil]
    OBVIOUS
  <2>4. Slots(r.id, Count(n))' = slots
    BY <1>4, <2>2, <2>3 DEF Slots
  <2>5. Len(slots) = c
    <3>1. Nil \in Seq(AnyByte)
      BY EmptySeq DEF Nil
    <3> QED BY <2>3, <3>1, IsASeq
  <2>6. \A i \in 1 .. c : slots[i] = Nil /\ Part(n, i - 1)' \in air'
    <3>1. \A i \in 1 .. c : i - 1 \in 0 .. c - 1
      OBVIOUS
    <3> QED BY <1>1b, <1>2, <2>1, <2>2, <2>3, <3>1
  <2> QED BY <2>2, <2>4, <2>5, <2>6
<1>8. NoneOpen(r.id)'
  BY <1>4 DEF NoneOpen
<1>9. Whole(r.id)' = Whole(r.id)
  <2>1. \A n : n \in Whole(r.id)' <=> n \in Whole(r.id)
    BY <1>1, <1>2 DEF Whole, Numbers
  <2> QED BY <2>1, Zenon
<1>10. Returned(r.id)'
  <2>1. Results(r.id)' = Results(r.id) /\ returned' = returned
    BY DEF Results
  <2>2. ASSUME NEW i \in Results(r.id) PROVE sent'[returned[i].of] = sent[returned[i].of]
    <3>1. returned[i].of \in Whole(r.id)
      BY <2>2 DEF Unmixed, Returned
    <3> QED BY <1>1, <3>1 DEF Whole, Numbers
  <2>3. /\ r.id \notin refused
        /\ {returned[i].of : i \in Results(r.id)} = Whole(r.id)
        /\ \A i, j \in Results(r.id) : i < j => returned[i].of < returned[j].of
        /\ \A i \in Results(r.id) :
             returned[i].data = Content(returned[i].of, sent[returned[i].of].size)
    BY DEF Returned, Unmixed
  <2>4. \A i \in Results(r.id) :
          returned'[i].data = Content(returned'[i].of, sent'[returned'[i].of].size)
    BY <2>1, <2>2, <2>3
  <2>5. {returned'[i].of : i \in Results(r.id)'} = Whole(r.id)'
    BY <1>9, <2>1, <2>3
  <2> QED BY <2>1, <2>3, <2>4, <2>5 DEF Returned
<1> QED BY <1>6, <1>7, <1>8, <1>10 DEF Unmixed

\* A datagram is cut and its fragments are sent (messages.go:138-164).
LEMMA FragmentKeeps ==
    ASSUME ReassemblyInv, FragmentUDP
    PROVE  ReassemblyInv'
<1>1. ReassemblyTypes /\ AirInv
  BY DEF ReassemblyInv
<1>2. PICK id0 \in ID : \E size \in Sizes :
         /\ sent' = Append(sent, [id |-> id0, size |-> size])
         /\ air' = air \cup Fragments(Len(sent) + 1, id0, size)
         /\ mixed' = IF \E n \in 1 .. Len(sent) : sent[n].id = id0 /\ Missing(n) # {}
                     THEN mixed \cup {id0} ELSE mixed
  BY DEF FragmentUDP
<1>3. PICK size0 \in Sizes :
         /\ sent' = Append(sent, [id |-> id0, size |-> size0])
         /\ air' = air \cup Fragments(Len(sent) + 1, id0, size0)
  BY <1>2
<1>4. PICK r \in [id : ID, size : Sizes] : r = [id |-> id0, size |-> size0]
  BY <1>3
<1>5. /\ r.id = id0 /\ sent' = Append(sent, r)
      /\ air' = air \cup Fragments(Len(sent) + 1, r.id, r.size)
  BY <1>3, <1>4
<1>6. /\ fragments' = fragments /\ returned' = returned /\ refused' = refused
  BY DEF FragmentUDP
<1>7. /\ mixed \subseteq mixed'
      /\ r.id \notin mixed' => \A n \in Numbers : sent[n].id = r.id => Missing(n) = {}
  BY <1>2, <1>5 DEF Numbers
<1>8. ReassemblyTypes'
  BY <1>1, <1>5, <1>6, TypesOfMore
<1>9. AirInv'
  BY <1>1, <1>5, MoreInAir
<1>10. ASSUME NEW id \in ID \ mixed' PROVE Unmixed(id)'
  <2>1. id \in ID /\ Unmixed(id)
    BY <1>7, <1>10 DEF ReassemblyInv
  <2>2. CASE id = r.id
    <3>1. \A n \in Numbers : sent[n].id = r.id => Missing(n) = {}
      BY <1>7, <1>10, <2>2
    <3>2. Unmixed(r.id)'
      BY <1>1, <1>5, <1>6, <2>1, <2>2, <3>1, SameIDSent
    <3> QED BY <2>2, <3>2
  <2>3. CASE id # r.id
    BY <1>1, <1>5, <1>6, <2>1, <2>3, OtherIDsSent
  <2> QED BY <2>2, <2>3
<1> QED BY <1>8, <1>9, <1>10 DEF ReassemblyInv

-----------------------------------------------------------------------------
(* The specification *)

\* NewReassembler (messages.go:102-107).
LEMMA ReassemblyStarts ==
    ASSUME ReassemblyInit PROVE ReassemblyInv
<1>1. /\ sent = << >> /\ air = {} /\ returned = << >> /\ refused = {}
      /\ fragments = [id \in ID |-> << >>]
  BY DEF ReassemblyInit, NoEntry
<1>2. Len(sent) = 0 /\ Len(returned) = 0 /\ sent \in Seq([id : ID, size : Sizes])
      /\ returned \in Seq([id : ID, of : Nat, data : Seq(AnyByte)])
  BY <1>1, EmptySeq
<1>3. Numbers = {} /\ \A id : Results(id) = {} /\ Whole(id) = {}
  BY <1>2 DEF Numbers, Results, Whole
<1>4. ReassemblyTypes
  <2>1. \A id \in ID : fragments[id] \in Seq(Seq(BytesOf(id)))
    BY <1>1, EmptySeq
  <2> QED BY <1>1, <1>2, <2>1 DEF ReassemblyTypes
<1>5. AirInv
  BY <1>1 DEF AirInv
<1>6. ASSUME NEW id \in ID PROVE Unmixed(id)
  <2>1. LastIsOpen(id) /\ SlotsHold(id)
    BY <1>3 DEF LastIsOpen, SlotsHold
  <2>2. NoneOpen(id)
    BY <1>1 DEF NoneOpen, NoEntry
  <2>3. Returned(id)
    BY <1>1, <1>3 DEF Returned
  <2> QED BY <2>1, <2>2, <2>3 DEF Unmixed
<1> QED BY <1>4, <1>5, <1>6 DEF ReassemblyInv

\* A step that changes nothing.
LEMMA ReassemblyStutters ==
    ASSUME ReassemblyInv, UNCHANGED reassemblyVars PROVE ReassemblyInv'
<1>1. /\ sent' = sent /\ air' = air /\ fragments' = fragments /\ returned' = returned
      /\ refused' = refused /\ mixed' = mixed
  BY DEF reassemblyVars
<1>2. ReassemblyTypes' /\ AirInv'
  BY <1>1 DEF ReassemblyInv, ReassemblyTypes, AirInv, Numbers, Count, Part, BytesOf
<1>3. ASSUME NEW id \in ID, Unmixed(id) PROVE Unmixed(id)'
  <2>1. LastIsOpen(id)' /\ NoneOpen(id)'
    BY <1>1, <1>3 DEF Unmixed, LastIsOpen, NoneOpen, Numbers, Missing, Count
  <2>2. SlotsHold(id)'
    BY <1>1, <1>3 DEF Unmixed, SlotsHold, Numbers, Missing, Count, Part, Slots
  <2>3. Returned(id)'
    BY <1>1, <1>3 DEF Unmixed, Returned, Results, Whole, Missing
  <2> QED BY <2>1, <2>2, <2>3 DEF Unmixed
<1> QED BY <1>1, <1>2, <1>3 DEF ReassemblyInv

\* What the invariant says of the results (messages.go:109-136).
LEMMA InvReassembles ==
    ASSUME ReassemblyInv PROVE Reassembles
<1>1. ASSUME NEW i \in 1 .. Len(returned), NEW k \in 1 .. Len(returned[i].data)
      PROVE  sent[returned[i].data[k].of].id = returned[i].id
  <2>1. returned[i].data \in Seq(BytesOf(returned[i].id))
    BY DEF ReassemblyInv, ReassemblyTypes
  <2>2. returned[i].data[k] \in BytesOf(returned[i].id)
    BY <2>1, ElementOfSeq
  <2> QED BY <2>2 DEF BytesOf
<1> QED BY <1>1 DEF Reassembles, ReassemblyInv, Unmixed, Returned

\* An ID that is used again only after its fragments have arrived yields each
\* datagram that arrives whole, once and in order, and no other and no error;
\* an ID used too early never has bytes of another ID: for any IDs, any chunk
\* and any sizes of at most 65535 chunks, in any order of arrival and with any
\* losses
\* (messages.go:109-136, 138-164).
THEOREM ReassemblyIsRight == ReassemblySpec => []Reassembles
<1>1. ASSUME ReassemblyInv, [ReassemblyNext]_reassemblyVars PROVE ReassemblyInv'
  <2>1. CASE FragmentUDP
    BY <1>1, <2>1, FragmentKeeps
  <2>2. CASE Add
    <3>1. PICK f \in air : (AddSingle(f) \/ AddOutOfRange(f) \/ AddInRange(f)) /\ air' = air \ {f}
      BY <2>2 DEF Add
    <3>2. UNCHANGED <<sent, mixed>>
      BY <2>2 DEF Add
    <3>3. CASE AddSingle(f)
      BY <1>1, <3>1, <3>2, <3>3, SingleKeeps
    <3>4. CASE AddOutOfRange(f)
      BY <1>1, <3>1, <3>2, <3>4, OutOfRangeKeeps
    <3>5. CASE AddInRange(f)
      BY <1>1, <3>1, <3>2, <3>5, InRangeKeeps
    <3> QED BY <3>1, <3>3, <3>4, <3>5
  <2>3. CASE UNCHANGED reassemblyVars
    BY <1>1, <2>3, ReassemblyStutters
  <2> QED BY <1>1, <2>1, <2>2, <2>3 DEF ReassemblyNext
<1> QED BY <1>1, ReassemblyStarts, InvReassembles, PTL DEF ReassemblySpec
=============================================================================
