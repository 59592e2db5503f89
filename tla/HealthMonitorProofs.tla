------------------------ MODULE HealthMonitorProofs ------------------------
(***************************************************************************)
(* For every threshold and any number of launches: what clients are told   *)
(* of a deployment is what its monitor found last, and the counters of a   *)
(* monitor give the hysteresis the code promises.  The first rests on      *)
(* whose monitor runs when (Watching), the second on what the counters say *)
(* about the results recorded last (Counted).                              *)
(***************************************************************************)
EXTENDS HealthMonitor, TLAPS

Begun == {"spawn", "health", "adopt", "expose", "check"}

\* The monitor of a launch: as created until its launch goes live, the one ld.monitor
\* refers to while it is, stopped after; and it runs only while the deployment is live
\* and does not fail, unless it was started late.
Watching ==
  /\ watch = launch \/ watch + 1 = launch
  /\ \A l \in Launch : /\ l > watch => monitor[l] = Created
                       /\ l < watch => monitor[l].stopped
                       /\ l = watch /\ watch # launch => monitor[l].stopped
                       /\ l = watch /\ state = "restarting" => monitor[l].stopped
                       /\ l = watch /\ ~monitor[l].stopped =>
                            (state = "live" /\ fails = 0) \/ "monitor" \in late
  /\ at \in Begun \/ state = "starting" => watch # launch
  /\ at = "delay" \/ state \in {"live", "restarting"} => watch = launch

\* How far a stop has come, and what there is before the first session.
Standing ==
  /\ stopping => state \in {"stopping", "over"}
  /\ tearing => stopping
  /\ state = "stopping" => tearing
  /\ hosting = "none" =>
       /\ state \notin {"live", "restarting"} /\ at \notin {"delay", "check"}
       /\ at # "none" /\ ~stopping => state = "starting" /\ fails = 0

Found == {"HEALTHY", "DEGRADED", "UNHEALTHY"}

\* What is stored and shown: the property, and what a launch has found before it is live.
Reported ==
  /\ at \in {"expose", "check"} /\ state = "starting" /\ "report" \notin late => health = "HEALTHY"
  /\ HealthIsReported

EndsWith(s, n, r) == Len(s) >= n /\ \A i \in 1..n : s[Len(s) - i + 1] = r

\* The counters against the results: what is counted is what came last.
Counted ==
  \A l \in Launch :
    /\ monitor[l].status \in Found
    /\ results[l] \in Seq({"ok", "warm", "bad"}) /\ Len(results[l]) <= Window
    /\ EndsWith(results[l], monitor[l].failures, "bad")
    /\ EndsWith(results[l], monitor[l].successes, "ok")
    /\ monitor[l].warming => monitor[l].failures = 0

MonitorInv ==
  /\ TypeOK /\ results \in [Launch -> Seq({"ok", "warm", "bad"})]
  /\ Watching /\ Standing /\ Counted
-----------------------------------------------------------------------------
(* One result                                                              *)

LEMMA Bounds ==
  /\ FailureThreshold \in Nat /\ SuccessThreshold \in Nat /\ Window \in Nat
  /\ FailureThreshold >= 1 /\ SuccessThreshold >= 1
  /\ FailureThreshold <= Window /\ SuccessThreshold <= Window
  BY HealthBounds DEF Window

LEMMA CreatedTypes ==
  /\ Created \in MonitorRecord /\ [Created EXCEPT !.loop = "armed"] \in MonitorRecord
  /\ Created.status = "HEALTHY" /\ Created.failures = 0 /\ Created.successes = 0
  /\ Created.loop = "off" /\ ~Created.stopped
<1>1. Created \in MonitorRecord
  BY Bounds DEF Created, MonitorRecord, Status, Loop
<1> QED
  BY <1>1 DEF Created, MonitorRecord, Loop

LEMMA HaltedTypes ==
  ASSUME NEW m \in MonitorRecord
  PROVE  /\ Halted(m) \in MonitorRecord /\ Halted(m).stopped
         /\ Halted(m).status = m.status /\ Halted(m).warming = m.warming
         /\ Halted(m).failures = m.failures /\ Halted(m).successes = m.successes
         /\ Halted(m).loop = IF m.loop = "armed" THEN "off" ELSE m.loop
  BY DEF Halted, MonitorRecord, Loop

Atmost(n) == IF n > Window THEN Window ELSE n

Counting(m, f, s, st) == [m EXCEPT !.failures = f, !.successes = s, !.status = st]

\* What a probe does to its monitor.
LEMMA RecordedTypes ==
  ASSUME NEW m \in MonitorRecord, m.status \in Found, NEW ok \in BOOLEAN,
         NEW n, n = Capped(Recorded(m, ok))
  PROVE  /\ n \in MonitorRecord /\ n.status \in Found
         /\ n.stopped = m.stopped /\ n.warming = m.warming
         /\ ok => /\ n.failures = 0 /\ n.successes = Atmost(m.successes + 1)
                  /\ n.status = m.status \/ (n.status = "HEALTHY" /\ m.successes + 1 >= SuccessThreshold)
         /\ ~ok /\ m.warming =>
              n.status = m.status /\ n.failures = m.failures /\ n.successes = 0
         /\ ~ok /\ ~m.warming =>
              /\ n.successes = 0 /\ n.failures = Atmost(m.failures + 1)
              /\ n.status = IF m.failures + 1 >= FailureThreshold THEN "UNHEALTHY" ELSE "DEGRADED"
<1>1. /\ m.failures \in 0..Window /\ m.successes \in 0..Window
      /\ m.warming \in BOOLEAN /\ m.stopped \in BOOLEAN /\ m.loop \in Loop
  BY DEF MonitorRecord
<1>2. \A k \in Nat : Atmost(k) \in 0..Window /\ (k <= Window => Atmost(k) = k)
  BY Bounds DEF Atmost
<1>3. ASSUME NEW st \in Found, NEW f \in Nat, NEW s \in Nat, NEW x,
             x = Counting(m, f, s, st)
      PROVE  /\ Capped(x) \in MonitorRecord /\ Capped(x).status = st
             /\ Capped(x).failures = Atmost(f) /\ Capped(x).successes = Atmost(s)
             /\ Capped(x).stopped = m.stopped /\ Capped(x).warming = m.warming
  <2>1. /\ x.status = st /\ x.failures = f /\ x.successes = s /\ x.loop = m.loop
        /\ x.warming = m.warming /\ x.stopped = m.stopped
    BY <1>3 DEF MonitorRecord, Counting
  <2>2. Capped(x) = [x EXCEPT !.failures = Atmost(f), !.successes = Atmost(s)]
    BY <1>3, <2>1 DEF Capped, Atmost
  <2>3. x \in [status : Status, failures : Nat, successes : Nat, loop : Loop,
               warming : BOOLEAN, stopped : BOOLEAN]
    BY <1>1, <1>3 DEF MonitorRecord, Found, Status, Counting
  <2> QED
    BY <1>2, <2>1, <2>2, <2>3, Zenon DEF MonitorRecord
<1>4. CASE ok
  <2> DEFINE k == m.successes + 1
             st == IF m.status \in {"HEALTHY", "UNKNOWN", "STARTING"} \/ k >= SuccessThreshold
                   THEN "HEALTHY" ELSE m.status
  <2>1. st \in Found /\ k \in Nat /\ 0 \in Nat
    BY <1>1 DEF Found
  <2>2. Recorded(m, ok) = Counting(m, 0, k, st)
    BY <1>4 DEF Recorded, Counting
  <2>3. st = m.status \/ (st = "HEALTHY" /\ k >= SuccessThreshold)
    BY DEF Found
  <2>4. Atmost(0) = 0
    BY Bounds DEF Atmost
  <2> HIDE DEF k, st
  <2>5. /\ n \in MonitorRecord /\ n.status = st
        /\ n.failures = Atmost(0) /\ n.successes = Atmost(k)
        /\ n.stopped = m.stopped /\ n.warming = m.warming
    BY <1>3, <2>1, <2>2
  <2> QED
    BY <1>4, <2>1, <2>3, <2>4, <2>5 DEF k
<1>5. CASE ~ok /\ m.warming
  <2>1. Recorded(m, ok) = Counting(m, m.failures, 0, m.status)
    BY <1>5 DEF Recorded, MonitorRecord, Counting
  <2>2. m.failures \in Nat /\ m.status \in Found /\ Atmost(m.failures) = m.failures /\ Atmost(0) = 0 /\ 0 \in Nat
    BY <1>1, Bounds DEF Atmost
  <2>3. /\ n \in MonitorRecord /\ n.status = m.status
        /\ n.failures = Atmost(m.failures) /\ n.successes = Atmost(0)
        /\ n.stopped = m.stopped /\ n.warming = m.warming
    BY <1>3, <2>1, <2>2
  <2> QED
    BY <1>5, <2>2, <2>3
<1>6. CASE ~ok /\ ~m.warming
  <2> DEFINE k == m.failures + 1
             st == IF k >= FailureThreshold THEN "UNHEALTHY" ELSE "DEGRADED"
  <2>1. st \in Found /\ k \in Nat /\ 0 \in Nat
    BY <1>1 DEF Found
  <2>2. Recorded(m, ok) = Counting(m, k, 0, st)
    BY <1>6 DEF Recorded, Counting
  <2>4. Atmost(0) = 0
    BY Bounds DEF Atmost
  <2> HIDE DEF k, st
  <2>5. /\ n \in MonitorRecord /\ n.status = st
        /\ n.failures = Atmost(k) /\ n.successes = Atmost(0)
        /\ n.stopped = m.stopped /\ n.warming = m.warming
    BY <1>3, <2>1, <2>2
  <2> QED
    BY <1>6, <2>1, <2>4, <2>5 DEF k, st
<1> QED
  BY <1>4, <1>5, <1>6

\* The window slides: one more result at its end, the oldest given up.
LEMMA WindowSlides ==
  ASSUME NEW s \in Seq({"ok", "warm", "bad"}), Len(s) <= Window, NEW x \in {"ok", "warm", "bad"},
         NEW t, t = LastOf(Append(s, x), Window)
  PROVE  /\ t \in Seq({"ok", "warm", "bad"}) /\ Len(t) = Atmost(Len(s) + 1)
         /\ t[Len(t)] = x
         /\ \A i \in 1..(Len(t) - 1) : t[Len(t) - i] = s[Len(s) - i + 1]
<1> DEFINE a == Append(s, x)
           from == IF Len(a) > Window THEN Len(a) - Window + 1 ELSE 1
<1>1. /\ Len(s) \in Nat /\ a \in Seq({"ok", "warm", "bad"}) /\ Len(a) = Len(s) + 1
      /\ a[Len(a)] = x /\ \A i \in 1..Len(s) : a[i] = s[i]
  OBVIOUS
<1>2. from \in 1..Len(a) /\ Len(a) - from + 1 = Atmost(Len(s) + 1)
  BY <1>1, Bounds DEF Atmost
<1>3. t = SubSeq(a, from, Len(a))
  BY DEF LastOf
<1> HIDE DEF a, from
<1>4. /\ t \in Seq({"ok", "warm", "bad"}) /\ Len(t) = Len(a) - from + 1
      /\ \A i \in 1..(Len(a) - from + 1) : t[i] = a[from + i - 1]
  BY <1>1, <1>2, <1>3
<1>5. t[Len(t)] = x
  BY <1>1, <1>2, <1>4
<1>6. ASSUME NEW i \in 1..(Len(t) - 1)
      PROVE  t[Len(t) - i] = s[Len(s) - i + 1]
  <2>1. Len(t) - i \in 1..(Len(a) - from + 1) /\ Len(a) - i \in 1..Len(s)
    BY <1>1, <1>2, <1>4
  <2>2. from + (Len(t) - i) - 1 = Len(a) - i
    BY <1>1, <1>2, <1>4
  <2>3. t[Len(t) - i] = a[from + (Len(t) - i) - 1]
    BY <1>4, <2>1
  <2>4. a[Len(a) - i] = s[Len(s) - i + 1]
    BY <1>1, <2>1
  <2> QED
    BY <2>2, <2>3, <2>4
<1> QED
  BY <1>2, <1>4, <1>5, <1>6

LEMMA WindowCounts ==
  ASSUME NEW s \in Seq({"ok", "warm", "bad"}), Len(s) <= Window, NEW x \in {"ok", "warm", "bad"},
         NEW t, t = LastOf(Append(s, x), Window), NEW n \in Nat, EndsWith(s, n, x)
  PROVE  EndsWith(t, Atmost(n + 1), x)
<1>1. /\ Len(s) \in Nat /\ Len(t) = Atmost(Len(s) + 1) /\ t[Len(t)] = x
      /\ \A i \in 1..(Len(t) - 1) : t[Len(t) - i] = s[Len(s) - i + 1]
  BY WindowSlides
<1>2. Len(t) >= Atmost(n + 1) /\ Atmost(n + 1) <= n + 1 /\ Len(t) \in Nat /\ Atmost(n + 1) \in Nat
  BY <1>1, Bounds DEF Atmost, EndsWith
<1>3. ASSUME NEW i \in 1..Atmost(n + 1)
      PROVE  t[Len(t) - i + 1] = x
  <2>1. CASE i = 1
    BY <1>1, <1>2, <2>1
  <2>2. CASE i # 1
    <3>1. i - 1 \in 1..(Len(t) - 1) /\ i - 1 \in 1..n
      BY <1>2, <2>2
    <3>2. t[Len(t) - (i - 1)] = x
      BY <1>1, <3>1 DEF EndsWith
    <3> QED
      BY <1>2, <3>2
  <2> QED
    BY <2>1, <2>2
<1> QED
  BY <1>2, <1>3 DEF EndsWith
\* A streak counts one more, for what it gives up is not of its kind.
LEMMA StreakCounts ==
  ASSUME NEW s \in Seq({"ok", "warm", "bad"}), Len(s) <= Window, NEW x \in {"ok", "warm", "bad"},
         NEW t, t = Streak(s, x)
  PROVE  /\ t \in Seq({"ok", "warm", "bad"}) /\ Len(t) \in Nat /\ Len(t) <= Window
         /\ \A n \in Nat : EndsWith(s, n, x) => EndsWith(t, Atmost(n + 1), x)
<1>1. PICK a : a = Alike(s, x)
  OBVIOUS
<1>2. /\ a \in Seq({"ok", "warm", "bad"}) /\ Len(a) <= Window
      /\ t = LastOf(Append(a, x), Window)
  BY <1>1, Bounds DEF Alike, Streak
<1>3. ASSUME NEW n \in Nat, EndsWith(s, n, x)
      PROVE  EndsWith(a, n, x)
  <2>1. CASE n = 0
    BY <1>2, <2>1 DEF EndsWith
  <2>2. CASE n # 0
    <3>1. s[Len(s) - 1 + 1] = x /\ Len(s) >= 1
      BY <1>3, <2>2 DEF EndsWith
    <3>2. a = s
      BY <1>1, <3>1 DEF Alike
    <3> QED
      BY <1>3, <3>2
  <2> QED
    BY <2>1, <2>2
<1>4. \A n \in Nat : EndsWith(s, n, x) => EndsWith(t, Atmost(n + 1), x)
  BY <1>2, <1>3, WindowCounts
<1>5. t \in Seq({"ok", "warm", "bad"}) /\ Len(t) = Atmost(Len(a) + 1)
  BY <1>2, WindowSlides
<1> QED
  BY <1>2, <1>4, <1>5, Bounds DEF Atmost

\* What ends with many ends with fewer.
LEMMA EndsWithFewer ==
  ASSUME NEW s, Len(s) \in Nat, NEW n \in Nat, NEW k \in Nat, k <= n, NEW r, EndsWith(s, n, r)
  PROVE  EndsWith(s, k, r)
  BY DEF EndsWith
-----------------------------------------------------------------------------
(* Whose monitor runs, and what it has counted                             *)

Hostings == {"none", "starting", "live", "degraded", "unhealthy", "restarting", "stopped", "failed"}

LEMMA WhatIsShown ==
  /\ DOMAIN Shown = {"HEALTHY", "DEGRADED", "UNHEALTHY", "CRASHED"}
  /\ Shown["HEALTHY"] = "live" /\ Shown["DEGRADED"] = "degraded"
  /\ Shown["UNHEALTHY"] = "unhealthy" /\ Shown["CRASHED"] = "restarting"
  BY DEF Shown

LEMMA Telling ==
  ASSUME TypeOK, NEW to \in Status, SetHealth(to)
  PROVE  health' = to /\ hosting' \in Hostings /\ (hosting' = "none" <=> hosting = "none")
<1>1. \A s \in DOMAIN Shown : Shown[s] \in Hostings \ {"none"}
  BY WhatIsShown DEF Hostings
<1>2. hosting \in Hostings
  BY DEF TypeOK, Hostings
<1>3. hosting' = hosting \/ (hosting # "none" /\ to \in DOMAIN Shown /\ hosting' = Shown[to])
  BY DEF SetHealth
<1> QED
  BY <1>1, <1>2, <1>3 DEF SetHealth

\* What happens to the monitors when none starts or is heard.
Quieter == UNCHANGED monitor \/ StopMonitor

LEMMA Quieting ==
  ASSUME MonitorInv, Quieter, UNCHANGED results
  PROVE  /\ monitor' \in [Launch -> MonitorRecord] /\ Counted'
         /\ results' \in [Launch -> Seq({"ok", "warm", "bad"})]
         /\ \A l \in Launch : /\ monitor'[l].status = monitor[l].status
                              /\ monitor[l].stopped => monitor'[l].stopped
                              /\ l # watch => monitor'[l] = monitor[l]
                              /\ l = watch /\ StopMonitor => monitor'[l].stopped
<1>1. CASE UNCHANGED monitor
  <2>1. /\ monitor' \in [Launch -> MonitorRecord] /\ Counted'
        /\ results' \in [Launch -> Seq({"ok", "warm", "bad"})]
    BY <1>1 DEF MonitorInv, TypeOK, Counted
  <2>2. ASSUME NEW l \in Launch, l = watch, StopMonitor
        PROVE  monitor'[l].stopped
    BY <2>2, HaltedTypes DEF StopMonitor, MonitorInv, TypeOK
  <2> QED
    BY <1>1, <2>1, <2>2
<1>2. CASE StopMonitor
  <2>1. \A l \in Launch : monitor[l] \in MonitorRecord
    BY DEF MonitorInv, TypeOK
  <2>2. \A l \in Launch : monitor'[l] = IF l = watch THEN Halted(monitor[l]) ELSE monitor[l]
    BY <1>2 DEF StopMonitor
  <2>3. \A l \in Launch : /\ monitor'[l] \in MonitorRecord
                          /\ monitor'[l].status = monitor[l].status
                          /\ monitor'[l].failures = monitor[l].failures
                          /\ monitor'[l].successes = monitor[l].successes
                          /\ monitor'[l].warming = monitor[l].warming
                          /\ monitor[l].stopped => monitor'[l].stopped
                          /\ l = watch => monitor'[l].stopped
    BY <2>1, <2>2, HaltedTypes
  <2>4. monitor' \in [Launch -> MonitorRecord]
    BY <1>2, <2>2, <2>3 DEF StopMonitor
  <2>5. Counted'
    BY <2>3 DEF MonitorInv, Counted
  <2>6. results' \in [Launch -> Seq({"ok", "warm", "bad"})]
    BY DEF MonitorInv
  <2> QED
    BY <2>2, <2>3, <2>4, <2>5, <2>6
<1> QED
  BY <1>1, <1>2 DEF Quieter

LEMMA ProbeKeeps ==
  ASSUME MonitorInv, NEW l \in Launch, NEW ok \in BOOLEAN, Probed(l, ok)
  PROVE  /\ MonitorInv' /\ UNCHANGED engine
         /\ \A o \in Launch : o # l => monitor'[o] = monitor[o]
         /\ monitor'[l].stopped = monitor[l].stopped /\ monitor'[l].loop = "armed"
         /\ IF monitor'[l].status # monitor[l].status THEN Report(l, monitor'[l].status)
            ELSE UNCHANGED <<health, hosting, late>>
         /\ LET from == monitor[l].status
                to == monitor'[l].status
            IN /\ to = "UNHEALTHY" /\ from # to => EndsWith(results'[l], FailureThreshold, "bad")
               /\ from \in {"DEGRADED", "UNHEALTHY"} /\ to = "HEALTHY" =>
                    EndsWith(results'[l], SuccessThreshold, "ok")
<1> DEFINE m == monitor[l]
           s == results[l]
           x == IF ok THEN "ok" ELSE IF m.warming THEN "warm" ELSE "bad"
<1>1. /\ m \in MonitorRecord /\ m.status \in Found /\ m.failures \in 0..Window
      /\ m.successes \in 0..Window /\ m.warming \in BOOLEAN
  BY DEF MonitorInv, TypeOK, Counted, MonitorRecord
<1>2. /\ s \in Seq({"ok", "warm", "bad"}) /\ Len(s) <= Window
      /\ EndsWith(s, m.failures, "bad") /\ EndsWith(s, m.successes, "ok")
      /\ m.warming => m.failures = 0
  BY DEF MonitorInv, Counted
<1>3. PICK n : n = Capped(Recorded(m, ok))
  OBVIOUS
<1>4. PICK t : t = Streak(s, x)
  OBVIOUS
<1>5. x \in {"ok", "warm", "bad"}
  OBVIOUS
<1>6. /\ monitor' = [monitor EXCEPT ![l] = [n EXCEPT !.loop = "armed"]]
      /\ results' = [results EXCEPT ![l] = t]
      /\ IF n.status # m.status THEN Report(l, n.status) ELSE UNCHANGED <<health, hosting, late>>
      /\ UNCHANGED engine
  BY <1>3, <1>4 DEF Probed
<1>7. /\ n \in MonitorRecord /\ n.status \in Found
      /\ n.stopped = m.stopped /\ n.warming = m.warming
      /\ ok => /\ n.failures = 0 /\ n.successes = Atmost(m.successes + 1)
               /\ n.status = m.status \/ (n.status = "HEALTHY" /\ m.successes + 1 >= SuccessThreshold)
      /\ ~ok /\ m.warming =>
           n.status = m.status /\ n.failures = m.failures /\ n.successes = 0
      /\ ~ok /\ ~m.warming =>
           /\ n.successes = 0 /\ n.failures = Atmost(m.failures + 1)
           /\ n.status = IF m.failures + 1 >= FailureThreshold THEN "UNHEALTHY" ELSE "DEGRADED"
  BY <1>1, <1>3, RecordedTypes
<1>8. t \in Seq({"ok", "warm", "bad"}) /\ Len(t) \in Nat /\ Len(t) <= Window
  BY <1>2, <1>4, <1>5, StreakCounts
<1> DEFINE e == [n EXCEPT !.loop = "armed"]
<1>9. /\ e \in MonitorRecord /\ e.status = n.status /\ e.failures = n.failures
      /\ e.successes = n.successes /\ e.stopped = n.stopped /\ e.warming = n.warming
      /\ e.loop = "armed"
  BY <1>7 DEF MonitorRecord, Loop
<1> HIDE DEF m, s, x, e
<1>10. EndsWith(t, n.failures, "bad") /\ EndsWith(t, n.successes, "ok")
  <2>0. \A r : EndsWith(t, 0, r)
    BY <1>8 DEF EndsWith
  <2>1. CASE ok
    <3>1. EndsWith(t, Atmost(m.successes + 1), "ok")
      BY <1>1, <1>2, <1>4, <2>1, StreakCounts DEF x
    <3> QED
      BY <1>7, <2>0, <2>1, <3>1
  <2>2. CASE ~ok /\ m.warming
    BY <1>2, <1>7, <2>0, <2>2
  <2>3. CASE ~ok /\ ~m.warming
    <3>1. EndsWith(t, Atmost(m.failures + 1), "bad")
      BY <1>1, <1>2, <1>4, <2>3, StreakCounts DEF x
    <3> QED
      BY <1>7, <2>0, <2>3, <3>1
  <2> QED
    BY <1>1, <2>1, <2>2, <2>3
<1>11. n.warming => n.failures = 0
  BY <1>2, <1>7
<1>12. /\ monitor'[l] = e /\ results'[l] = t
       /\ \A o \in Launch : o # l => monitor'[o] = monitor[o] /\ results'[o] = results[o]
       /\ monitor' \in [Launch -> MonitorRecord]
       /\ results' \in [Launch -> Seq({"ok", "warm", "bad"})]
  BY <1>6, <1>8, <1>9 DEF MonitorInv, TypeOK, e
<1>13. Counted'
  BY <1>7, <1>8, <1>9, <1>10, <1>11, <1>12 DEF MonitorInv, Counted
<1>19. late \subseteq late' /\ late' \subseteq Late
  BY <1>6 DEF Report, Late, MonitorInv, TypeOK
<1>14. Watching'
  <2>1. monitor[l].loop = "probing"
    BY DEF Probed
  <2>2. ~(l > watch)
    BY <2>1, CreatedTypes DEF MonitorInv, Watching
  <2>3. \A o \in Launch : monitor'[o].stopped = monitor[o].stopped
    BY <1>7, <1>9, <1>12 DEF m
  <2> QED
    BY <1>6, <1>12, <1>19, <2>2, <2>3 DEF MonitorInv, Watching, engine
<1>20. health' \in Status /\ hosting' \in Hostings /\ (hosting' = "none" <=> hosting = "none")
  <2>1. n.status \in Status
    BY <1>7 DEF Found, Status
  <2>2. health \in Status /\ hosting \in Hostings
    BY DEF MonitorInv, TypeOK, Hostings
  <2> QED
    BY <1>6, <2>1, <2>2, Telling DEF MonitorInv, Report
<1>15. TypeOK' /\ Standing'
  <2>1. TypeOK'
    BY <1>6, <1>12, <1>19, <1>20 DEF MonitorInv, TypeOK, Hostings, engine
  <2>2. Standing'
    BY <1>6, <1>20 DEF MonitorInv, Standing, engine
  <2> QED
    BY <2>1, <2>2
<1>16. ASSUME n.status = "UNHEALTHY", m.status # n.status
       PROVE  EndsWith(t, FailureThreshold, "bad")
  <2>1. ~ok /\ ~m.warming /\ m.failures + 1 >= FailureThreshold
    BY <1>1, <1>7, <1>16
  <2>2. n.failures = Atmost(m.failures + 1)
    BY <1>7, <2>1
  <2>3. n.failures \in Nat /\ n.failures >= FailureThreshold
    BY <1>1, <2>1, <2>2, Bounds DEF Atmost
  <2>4. Len(t) \in Nat
    BY <1>8
  <2> QED
    BY <1>10, <2>3, <2>4, Bounds, EndsWithFewer
<1>17. ASSUME m.status \in {"DEGRADED", "UNHEALTHY"}, n.status = "HEALTHY"
       PROVE  EndsWith(t, SuccessThreshold, "ok")
  <2>1. ok /\ m.successes + 1 >= SuccessThreshold
    BY <1>1, <1>7, <1>17
  <2>2. n.successes = Atmost(m.successes + 1)
    BY <1>7, <2>1
  <2>3. n.successes \in Nat /\ n.successes >= SuccessThreshold
    BY <1>1, <2>1, <2>2, Bounds DEF Atmost
  <2>4. Len(t) \in Nat
    BY <1>8
  <2> QED
    BY <1>10, <2>3, <2>4, Bounds, EndsWithFewer
<1>18. MonitorInv'
  BY <1>12, <1>13, <1>14, <1>15 DEF MonitorInv
<1> QED
  <2>1. monitor'[l].status = n.status /\ monitor'[l].stopped = monitor[l].stopped /\ monitor'[l].loop = "armed"
    BY <1>7, <1>9, <1>12 DEF m
  <2> QED
    BY <1>6, <1>12, <1>16, <1>17, <1>18, <2>1 DEF m

\* A step that changes one monitor's timer or its grace period.
LEMMA LoopKeeps ==
  ASSUME MonitorInv, NEW l \in Launch, Tick(l) \/ GraceEnds(l)
  PROVE  /\ MonitorInv'
         /\ \A o \in Launch : /\ monitor'[o].status = monitor[o].status
                              /\ monitor'[o].stopped = monitor[o].stopped
         /\ UNCHANGED <<engine, health, hosting, late>>
<1>1. monitor[l] \in MonitorRecord /\ monitor[l].loop # "off"
  BY DEF MonitorInv, TypeOK, Tick, GraceEnds
<1>2. PICK e \in MonitorRecord :
        /\ monitor' = [monitor EXCEPT ![l] = e]
        /\ e.status = monitor[l].status /\ e.stopped = monitor[l].stopped /\ e.loop # "off"
        /\ e.failures = monitor[l].failures /\ e.successes = monitor[l].successes
        /\ e.warming => monitor[l].warming
  <2>1. CASE Tick(l)
    <3> DEFINE e == [monitor[l] EXCEPT !.loop = "probing"]
    <3>1. /\ e \in MonitorRecord /\ monitor' = [monitor EXCEPT ![l] = e]
          /\ e.status = monitor[l].status /\ e.stopped = monitor[l].stopped /\ e.loop # "off"
          /\ e.failures = monitor[l].failures /\ e.successes = monitor[l].successes
          /\ e.warming = monitor[l].warming
      BY <1>1, <2>1 DEF Tick, MonitorRecord, Loop
    <3> QED
      BY <3>1
  <2>2. CASE GraceEnds(l)
    <3> DEFINE e == [monitor[l] EXCEPT !.warming = FALSE]
    <3>1. /\ e \in MonitorRecord /\ monitor' = [monitor EXCEPT ![l] = e]
          /\ e.status = monitor[l].status /\ e.stopped = monitor[l].stopped
          /\ e.loop = monitor[l].loop
          /\ e.failures = monitor[l].failures /\ e.successes = monitor[l].successes
          /\ ~e.warming
      BY <1>1, <2>2 DEF GraceEnds, MonitorRecord, Loop
    <3> QED
      BY <1>1, <3>1
  <2> QED
    BY <2>1, <2>2
<1>3. UNCHANGED <<engine, health, hosting, results, late>>
  BY DEF Tick, GraceEnds
<1>4. /\ monitor'[l] = e /\ \A o \in Launch : o # l => monitor'[o] = monitor[o]
      /\ monitor' \in [Launch -> MonitorRecord]
  BY <1>2 DEF MonitorInv, TypeOK
<1>5. TypeOK' /\ Standing'
  BY <1>3, <1>4 DEF MonitorInv, TypeOK, Standing, engine
<1>6. Counted'
  BY <1>2, <1>3, <1>4 DEF MonitorInv, Counted
<1>7. Watching'
  <2>1. ~(l > watch)
    BY <1>1, CreatedTypes DEF MonitorInv, Watching
  <2>2. \A o \in Launch : monitor'[o].stopped = monitor[o].stopped
    BY <1>2, <1>4
  <2> QED
    BY <1>3, <1>4, <2>1, <2>2 DEF MonitorInv, Watching, engine
<1>8. results' \in [Launch -> Seq({"ok", "warm", "bad"})]
  BY <1>3 DEF MonitorInv
<1> QED
  BY <1>1, <1>2, <1>3, <1>4, <1>5, <1>6, <1>7, <1>8 DEF MonitorInv
-----------------------------------------------------------------------------
(* The invariants                                                          *)

LEMMA InitInv ==
  ASSUME Init
  PROVE  MonitorInv /\ Reported
<1>1. launch \in Launch /\ results \in [Launch -> Seq({"ok", "warm", "bad"})]
  BY HealthBounds DEF Init, Launch
<1>2. TypeOK
  <2>1. monitor \in [Launch -> MonitorRecord]
    BY CreatedTypes DEF Init
  <2>2. fails \in 0..MaxFails /\ watch \in 0..MaxLaunches
    BY HealthBounds DEF Init
  <2> QED
    BY <1>1, <2>1, <2>2 DEF Init, TypeOK, Status, Await
<1>3. Watching
  BY <1>1, CreatedTypes DEF Init, Watching, Launch
<1>4. Counted
  <2> SUFFICES ASSUME NEW l \in Launch
               PROVE  /\ monitor[l].status \in Found
                      /\ results[l] \in Seq({"ok", "warm", "bad"}) /\ Len(results[l]) <= Window
                      /\ EndsWith(results[l], monitor[l].failures, "bad")
                      /\ EndsWith(results[l], monitor[l].successes, "ok")
                      /\ monitor[l].warming => monitor[l].failures = 0
    BY DEF Counted
  <2>1. monitor[l] = Created /\ results[l] = <<>> /\ Len(results[l]) = 0
    BY DEF Init
  <2> QED
    BY <1>1, <2>1, CreatedTypes, Bounds DEF EndsWith, Found
<1>5. Standing /\ Reported
  BY DEF Init, Standing, Reported, HealthIsReported
<1> QED
  BY <1>1, <1>2, <1>3, <1>4, <1>5 DEF MonitorInv

LEMMA GoLiveKeeps ==
  ASSUME MonitorInv, GoLive, MayGoOn
  PROVE  /\ MonitorInv' /\ \A l \in Launch : monitor'[l].status = monitor[l].status
         /\ monitor'[launch].status = "HEALTHY"
         /\ state' = "live" /\ hosting' = "live" /\ UNCHANGED <<fails, launch, health>>
         /\ late \subseteq late'
<1> DEFINE e == [Created EXCEPT !.loop = "armed"]
<1>1. /\ launch \in Launch /\ monitor[launch] = Created
      /\ watch + 1 = launch /\ watch \in 0..MaxLaunches /\ state = "starting" /\ ~stopping
  BY DEF MonitorInv, TypeOK, Watching, GoLive, MayGoOn, Launch
<1>2. /\ e \in MonitorRecord /\ e.status = "HEALTHY" /\ e.failures = 0 /\ e.successes = 0
      /\ ~e.stopped
  BY CreatedTypes DEF Created
<1>3. /\ state' = "live" /\ at' = "none" /\ hosting' = "live" /\ watch' = launch
      /\ monitor' = [monitor EXCEPT ![launch] = e]
      /\ late' = late \cup (IF fails > 0 THEN {"monitor"} ELSE {})
      /\ UNCHANGED <<up, stopping, tearing, fails, launch, health, results>>
  BY DEF GoLive
<1> HIDE DEF e
<1>4. /\ monitor'[launch] = e /\ \A l \in Launch : l # launch => monitor'[l] = monitor[l]
      /\ monitor' \in [Launch -> MonitorRecord]
  BY <1>1, <1>2, <1>3 DEF MonitorInv, TypeOK
<1>5. TypeOK'
  <2>1. late' \subseteq Late
    BY <1>3 DEF MonitorInv, TypeOK, Late
  <2>2. watch' \in 0..MaxLaunches
    BY <1>1, <1>3, HealthBounds DEF Launch
  <2> QED
    BY <1>3, <1>4, <2>1, <2>2 DEF MonitorInv, TypeOK, Await
<1>6. Standing'
  BY <1>1, <1>3 DEF MonitorInv, Standing
<1>7. Watching'
  <2>1. fails \in Nat
    BY DEF MonitorInv, TypeOK
  <2>2. \A l \in Launch : l > watch' => l > watch /\ l # launch
    BY <1>1, <1>3 DEF Launch
  <2>3. \A l \in Launch : l < watch' => l # launch /\ (l < watch \/ (l = watch /\ watch # launch))
    BY <1>1, <1>3 DEF Launch
  <2>4. \A l \in Launch : /\ l > watch' => monitor'[l] = Created
                          /\ l < watch' => monitor'[l].stopped
    BY <1>4, <2>2, <2>3 DEF MonitorInv, Watching
  <2>5. (state' = "live" /\ fails' = 0) \/ "monitor" \in late'
    BY <1>3, <2>1
  <2> QED
    BY <1>3, <2>4, <2>5 DEF Watching, Begun
<1>8. Counted'
  <2>1. \A l \in Launch : Len(results[l]) \in Nat
    BY DEF MonitorInv, Counted
  <2>2. /\ e.status \in Found
        /\ EndsWith(results[launch], e.failures, "bad") /\ EndsWith(results[launch], e.successes, "ok")
        /\ e.failures = 0
    BY <1>1, <1>2, <2>1 DEF Found, EndsWith
  <2> QED
    BY <1>1, <1>3, <1>4, <2>2 DEF MonitorInv, Counted
<1> QED
  BY <1>1, <1>2, <1>3, <1>4, <1>5, <1>6, <1>7, <1>8, CreatedTypes DEF MonitorInv

LEMMA Throwing ==
  ASSUME MonitorInv, Thrown
  PROVE  /\ at' = "none" /\ UNCHANGED <<state, up, stopping, tearing, launch, watch>>
         /\ Quieter /\ fails' \in 0..MaxFails
         /\ stopping => fails' = fails
         /\ ~stopping => fails' > 0 /\ StopMonitor
<1>1. fails \in 0..MaxFails
  BY DEF MonitorInv, TypeOK
<1> QED
  BY <1>1, HealthBounds DEF Thrown, Fails, Quieter

\* The steps that start no monitor and hear none.
Quietly ==
  \/ Relaunch \/ Spawn \/ LaunchFails \/ Adopt \/ StartedHealthy \/ StartStopped
  \/ OpenSession \/ (GoLive /\ ~MayGoOn)
  \/ Restart \/ RestartAgain \/ Stop \/ Crash \/ Exit \/ FailEnds \/ StopEnds
  \/ UNCHANGED vars

LEMMA QuietSteps ==
  ASSUME MonitorInv, Quietly
  PROVE  Quieter /\ UNCHANGED <<results, watch>> /\ fails' \in 0..MaxFails
<1>1. fails \in 0..MaxFails
  BY DEF MonitorInv, TypeOK
<1>2. CASE Relaunch \/ Spawn \/ LaunchFails \/ StartedHealthy \/ (GoLive /\ ~MayGoOn)
  BY <1>1, <1>2, Throwing DEF Relaunch, Spawn, LaunchFails, StartedHealthy, GoLive, Quieter
<1>3. CASE Adopt \/ StartStopped \/ OpenSession \/ UNCHANGED vars
  BY <1>1, <1>3 DEF Adopt, StartStopped, OpenSession, vars, engine, Quieter
<1>4. CASE Restart \/ Stop \/ Exit
  BY <1>1, <1>4 DEF Restart, Stop, TearDown, Exit, Quieter
<1>5. CASE RestartAgain \/ Crash
  BY <1>1, <1>5, HealthBounds DEF RestartAgain, Crash, Fails, TearDown, Quieter
<1>6. CASE FailEnds \/ StopEnds
  BY <1>1, <1>6, HealthBounds DEF FailEnds, StopEnds, Ended, Quieter
<1> QED
  BY <1>2, <1>3, <1>4, <1>5, <1>6 DEF Quietly

\* What each of them does to the launch and the deployment.
LEMMA QuietTypes ==
  ASSUME MonitorInv, Quietly
  PROVE  TypeOK' /\ Standing'
<1>1. /\ monitor' \in [Launch -> MonitorRecord] /\ fails' \in 0..MaxFails /\ UNCHANGED watch
  BY QuietSteps, Quieting
<1>2. TypeOK /\ Standing /\ fails \in Nat
  BY DEF MonitorInv, TypeOK
<1>3. /\ "STARTING" \in Status /\ "HEALTHY" \in Status /\ "CRASHED" \in Status
      /\ "STOPPED" \in Status
  BY DEF Status
<1>4. CASE Relaunch
  <2>1. launch' \in Launch
    BY <1>2, <1>4, Throwing, HealthBounds DEF Relaunch, TypeOK, Launch
  <2>2. TypeOK'
    BY <1>1, <1>2, <1>4, <2>1, Throwing DEF Relaunch, TypeOK, Await
  <2>3. Standing'
    BY <1>2, <1>4, Throwing DEF Relaunch, Standing
  <2> QED
    BY <2>2, <2>3
<1>5. CASE Spawn
  <2>1. health' \in Status /\ hosting' \in Hostings /\ (hosting' = "none" <=> hosting = "none")
    BY <1>2, <1>3, <1>5, Telling DEF Spawn, TypeOK, Hostings
  <2>2. TypeOK'
    BY <1>1, <1>2, <1>5, <2>1, Throwing DEF Spawn, TypeOK, Await, Hostings
  <2>3. Standing'
    BY <1>2, <1>5, <2>1, Throwing DEF Spawn, Standing, MayGoOn
  <2> QED
    BY <2>2, <2>3
<1>6. CASE LaunchFails \/ (GoLive /\ ~MayGoOn)
  <2>1. Thrown /\ UNCHANGED <<health, hosting, late>>
    BY <1>6 DEF LaunchFails, GoLive
  <2>2. TypeOK'
    BY <1>1, <1>2, <2>1, Throwing DEF TypeOK, Await
  <2>3. Standing'
    BY <1>2, <2>1, Throwing DEF Standing
  <2> QED
    BY <2>2, <2>3
<1>7. CASE Adopt \/ StartStopped \/ UNCHANGED vars
  <2>1. TypeOK'
    BY <1>1, <1>2, <1>7 DEF Adopt, StartStopped, vars, engine, TypeOK, Await
  <2>2. Standing'
    BY <1>2, <1>7 DEF Adopt, StartStopped, vars, engine, Standing
  <2> QED
    BY <2>1, <2>2
<1>8. CASE StartedHealthy
  <2>1. health' \in Status /\ hosting' \in Hostings /\ (hosting' = "none" <=> hosting = "none")
    BY <1>2, <1>3, <1>8, Telling DEF StartedHealthy
  <2>2. late' \subseteq Late
    BY <1>2, <1>8 DEF StartedHealthy, TypeOK, Late
  <2>3. TypeOK'
    BY <1>1, <1>2, <1>8, <2>1, <2>2, Throwing DEF StartedHealthy, TypeOK, Await, Hostings
  <2>4. Standing'
    BY <1>2, <1>8, <2>1, Throwing DEF StartedHealthy, Standing, MayGoOn
  <2> QED
    BY <2>3, <2>4
<1>9. CASE OpenSession
  <2>1. late' \subseteq Late
    BY <1>2, <1>9 DEF OpenSession, TypeOK, Late
  <2>2. TypeOK'
    BY <1>1, <1>2, <1>9, <2>1 DEF OpenSession, TypeOK, Await
  <2>3. Standing'
    BY <1>2, <1>9 DEF OpenSession, Standing
  <2> QED
    BY <2>2, <2>3
<1>10. CASE Restart \/ RestartAgain
  <2>1. TypeOK'
    BY <1>1, <1>2, <1>10 DEF Restart, RestartAgain, TypeOK, Await
  <2>2. Standing'
    BY <1>2, <1>10 DEF Restart, RestartAgain, Standing
  <2> QED
    BY <2>1, <2>2
<1>11. CASE Stop \/ Exit
  <2>1. TypeOK'
    BY <1>1, <1>2, <1>11 DEF Stop, TearDown, Exit, TypeOK
  <2>2. Standing'
    BY <1>2, <1>11 DEF Stop, TearDown, Exit, Standing
  <2> QED
    BY <2>1, <2>2
<1>12. CASE Crash
  <2>1. health' \in Status /\ hosting' \in Hostings /\ (hosting' = "none" <=> hosting = "none")
    BY <1>2, <1>3, <1>12, Telling DEF Crash
  <2>2. TypeOK'
    BY <1>1, <1>2, <1>12, <2>1 DEF Crash, TearDown, TypeOK, Await, Hostings
  <2>3. Standing'
    BY <1>2, <1>12, <2>1 DEF Crash, TearDown, Standing
  <2> QED
    BY <2>2, <2>3
<1>13. CASE FailEnds \/ StopEnds
  <2>1. late' \subseteq Late
    BY <1>2, <1>13 DEF FailEnds, StopEnds, Ended, TypeOK, Late
  <2>2. TypeOK'
    BY <1>1, <1>2, <1>3, <1>13, <2>1 DEF FailEnds, StopEnds, Ended, TypeOK
  <2>3. Standing'
    BY <1>2, <1>13 DEF FailEnds, StopEnds, Ended, Standing
  <2> QED
    BY <2>2, <2>3
<1> QED
  BY <1>4, <1>5, <1>6, <1>7, <1>8, <1>9, <1>10, <1>11, <1>12, <1>13 DEF Quietly

\* Watching, from what a quiet step does to the deployment.
LEMMA WatchedOn ==
  ASSUME MonitorInv, Quieter, UNCHANGED <<results, watch>>, late \ {"report"} \subseteq late',
         launch' = launch \/ (launch' = launch + 1 /\ state = "restarting" /\ state' = "starting"),
         state' = "restarting" => state = "restarting" \/ StopMonitor,
         StopMonitor \/ UNCHANGED <<state, fails>> \/ ~(state = "live" /\ fails = 0),
         at' \in Begun \/ state' = "starting" => watch # launch',
         at' = "delay" \/ state' \in {"live", "restarting"} => watch = launch'
  PROVE  Watching'
<1>1. \A l \in Launch : /\ monitor[l].stopped => monitor'[l].stopped
                        /\ l # watch => monitor'[l] = monitor[l]
                        /\ l = watch /\ StopMonitor => monitor'[l].stopped
  BY Quieting
<1>2. launch \in Nat /\ watch \in Nat
  BY DEF MonitorInv, TypeOK, Launch
<1>3. watch' = launch' \/ watch' + 1 = launch'
  BY <1>2 DEF MonitorInv, Watching
<1>4. \A l \in Launch : /\ l > watch => monitor'[l] = Created
                        /\ l < watch => monitor'[l].stopped
  BY <1>1, <1>2 DEF MonitorInv, Watching, Launch
<1>5. \A l \in Launch : l = watch /\ watch # launch' => monitor'[l].stopped
  BY <1>1, <1>2 DEF MonitorInv, Watching
<1>6. \A l \in Launch : l = watch /\ state' = "restarting" => monitor'[l].stopped
  BY <1>1 DEF MonitorInv, Watching
<1>7. ASSUME NEW l \in Launch, l = watch, ~monitor'[l].stopped
      PROVE  (state' = "live" /\ fails' = 0) \/ "monitor" \in late'
  <2>1. ~StopMonitor /\ ~monitor[l].stopped
    BY <1>1, <1>7
  <2>2. (state = "live" /\ fails = 0) \/ "monitor" \in late
    BY <1>7, <2>1 DEF MonitorInv, Watching
  <2> QED
    BY <2>1, <2>2
<1> QED
  BY <1>3, <1>4, <1>5, <1>6, <1>7 DEF Watching

LEMMA QuietWatching ==
  ASSUME MonitorInv, Quietly
  PROVE  Watching'
<1>1. Quieter /\ UNCHANGED <<results, watch>>
  BY QuietSteps
<1>2. Watching /\ Standing /\ launch \in Nat /\ watch \in Nat /\ fails \in Nat
  BY DEF MonitorInv, TypeOK, Launch
<1>3. CASE Relaunch
  BY <1>1, <1>2, <1>3, Throwing, WatchedOn DEF Relaunch, Watching, Begun
<1>4. CASE Spawn \/ StartedHealthy
  <2>1. late \ {"report"} \subseteq late'
    BY <1>4 DEF Spawn, StartedHealthy
  <2>2. UNCHANGED <<launch, state>>
    BY <1>4, Throwing DEF Spawn, StartedHealthy
  <2>3. StopMonitor \/ UNCHANGED <<state, fails>>
    BY <1>4, Throwing DEF Spawn, StartedHealthy
  <2>4. at \in Begun /\ at' # "delay"
    BY <1>4, Throwing DEF Spawn, StartedHealthy, Begun
  <2> QED
    BY <1>1, <1>2, <2>1, <2>2, <2>3, <2>4, WatchedOn DEF Watching
<1>5. CASE LaunchFails \/ (GoLive /\ ~MayGoOn)
  <2>1. Thrown /\ UNCHANGED late
    BY <1>5 DEF LaunchFails, GoLive
  <2> QED
    BY <1>1, <1>2, <2>1, Throwing, WatchedOn DEF Watching, Begun
<1>6. CASE Adopt \/ StartStopped \/ OpenSession \/ UNCHANGED vars
  <2>1. late \subseteq late' /\ UNCHANGED <<launch, state, fails>>
    BY <1>6 DEF Adopt, StartStopped, OpenSession, vars, engine
  <2>2. (at' \in Begun => at \in Begun) /\ (at' = "delay" => at = "delay")
    BY <1>6 DEF Adopt, StartStopped, OpenSession, vars, engine, Begun
  <2> QED
    BY <1>1, <1>2, <2>1, <2>2, WatchedOn DEF Watching
<1>7. CASE Restart
  BY <1>1, <1>2, <1>7, WatchedOn DEF Restart, Watching, Begun
<1>8. CASE RestartAgain
  <2>1. UNCHANGED <<launch, late, state, at>> /\ state = "restarting"
    BY <1>8 DEF RestartAgain
  <2> QED
    BY <1>1, <1>2, <2>1, WatchedOn DEF Watching
<1>9. CASE Stop \/ Exit
  <2>1. UNCHANGED <<launch, late, at>> /\ StopMonitor /\ state' \in {state, "over", "stopping"}
    BY <1>9 DEF Stop, TearDown, Exit
  <2> QED
    BY <1>1, <1>2, <2>1, WatchedOn DEF Watching
<1>10. CASE Crash
  <2>1. UNCHANGED <<launch, late>> /\ state = "live" /\ StopMonitor
    BY <1>2, <1>10 DEF Crash, TearDown, Fails, Standing
  <2>2. at' \in {at, "delay"} /\ state' \in {"live", "restarting", "stopping"}
    BY <1>10 DEF Crash, TearDown
  <2>3. watch = launch /\ at \notin Begun
    BY <1>2, <2>1 DEF Watching
  <2> QED
    BY <1>1, <1>2, <2>1, <2>2, <2>3, WatchedOn DEF Begun
<1>11. CASE FailEnds \/ StopEnds
  <2>1. UNCHANGED <<launch, at>> /\ late' = late \ {"report"} /\ state' = "over"
    BY <1>11 DEF FailEnds, StopEnds, Ended
  <2>2. ~(state = "live" /\ fails = 0)
    BY <1>2, <1>11 DEF FailEnds, StopEnds, Standing
  <2> QED
    BY <1>1, <1>2, <2>1, <2>2, WatchedOn DEF Watching
<1> QED
  BY <1>3, <1>4, <1>5, <1>6, <1>7, <1>8, <1>9, <1>10, <1>11 DEF Quietly

LEMMA QuietKeeps ==
  ASSUME MonitorInv, Quietly
  PROVE  MonitorInv' /\ \A l \in Launch : monitor'[l].status = monitor[l].status
<1>1. Quieter /\ UNCHANGED results
  BY QuietSteps
<1> QED
  BY <1>1, Quieting, QuietTypes, QuietWatching DEF MonitorInv

LEMMA Steps ==
  ASSUME [Next]_vars
  PROVE  \/ Quietly \/ (GoLive /\ MayGoOn)
         \/ \E l \in Launch : Tick(l) \/ GraceEnds(l)
         \/ \E l \in Launch, ok \in BOOLEAN : Probed(l, ok)
  BY DEF Next, Launching, Quietly

LEMMA NextInv ==
  ASSUME MonitorInv, [Next]_vars
  PROVE  MonitorInv'
<1>1. CASE Quietly
  BY <1>1, QuietKeeps
<1>2. CASE GoLive /\ MayGoOn
  BY <1>2, GoLiveKeeps
<1>3. CASE \E l \in Launch : Tick(l) \/ GraceEnds(l)
  BY <1>3, LoopKeeps
<1>4. CASE \E l \in Launch, ok \in BOOLEAN : Probed(l, ok)
  BY <1>4, ProbeKeeps
<1> QED
  BY <1>1, <1>2, <1>3, <1>4, Steps

\* A probe whose monitor was neither stopped nor late is that of a launch that is live.
LEMMA ProbeReports ==
  ASSUME MonitorInv, Reported, NEW l \in Launch, NEW ok \in BOOLEAN, Probed(l, ok)
  PROVE  Reported'
<1>1. /\ MonitorInv' /\ UNCHANGED engine
      /\ \A o \in Launch : o # l => monitor'[o] = monitor[o]
      /\ monitor'[l].stopped = monitor[l].stopped
      /\ IF monitor'[l].status # monitor[l].status THEN Report(l, monitor'[l].status)
         ELSE UNCHANGED <<health, hosting, late>>
  BY ProbeKeeps
<1>2. UNCHANGED <<state, at, tearing, fails, launch, stopping>>
  BY <1>1 DEF engine
<1>3. late \subseteq late'
  BY <1>1 DEF Report
<1>4. state # "live" => UNCHANGED hosting
  BY <1>1 DEF Report, SetHealth
<1>5. monitor[l].stopped => UNCHANGED <<health, hosting>> \/ "report" \in late'
  BY <1>1 DEF Report, SetHealth
<1>6. ~monitor[l].stopped => l = launch /\ ((state = "live" /\ fails = 0) \/ "monitor" \in late)
  <2>1. monitor[l].loop = "probing"
    BY DEF Probed
  <2>2. ~(l > watch) /\ l \in Nat /\ watch \in Nat
    BY <2>1, CreatedTypes DEF MonitorInv, Watching, TypeOK, Launch
  <2> QED
    BY <2>2 DEF MonitorInv, Watching
<1>7. at \in {"expose", "check"} /\ state = "starting" => l # launch \/ monitor[l].stopped
  <2>1. state = "starting" => watch # launch
    BY DEF MonitorInv, Watching
  <2>2. monitor[l].loop = "probing"
    BY DEF Probed
  <2>3. ~(l > watch) /\ l \in Nat /\ watch \in Nat /\ launch \in Nat
    BY <2>2, CreatedTypes DEF MonitorInv, Watching, TypeOK, Launch
  <2> QED
    BY <2>1, <2>3 DEF MonitorInv, Watching
<1>8. at' \in {"expose", "check"} /\ state' = "starting" /\ "report" \notin late' => health' = "HEALTHY"
  BY <1>2, <1>3, <1>5, <1>6, <1>7 DEF Reported
<1>9. ASSUME state' = "live", fails' = 0, "report" \notin late'
      PROVE  health' = monitor'[launch].status /\ hosting' = Shown[health']
  <2>1. health = monitor[launch].status /\ hosting = Shown[health]
    BY <1>2, <1>3, <1>9 DEF Reported, HealthIsReported
  <2>2. monitor[launch].status \in Found /\ monitor'[l].status \in Found /\ launch \in Launch
    BY <1>1 DEF MonitorInv, Counted, TypeOK
  <2>3. CASE l # launch
    BY <1>1, <1>5, <1>6, <1>9, <2>1, <2>2, <2>3
  <2>4. CASE l = launch
    <3>2. CASE monitor'[l].status # monitor[l].status
      <4>1. SetHealth(monitor'[l].status) /\ monitor'[l].status \in DOMAIN Shown
        BY <1>1, <2>2, <3>2, WhatIsShown DEF Found, Report
      <4>2. hosting # "none"
        BY <2>1, <2>2, WhatIsShown DEF Found
      <4> QED
        BY <1>2, <1>9, <2>1, <2>4, <3>2, <4>1, <4>2 DEF SetHealth
    <3>3. CASE monitor'[l].status = monitor[l].status
      BY <1>1, <2>1, <2>4, <3>3
    <3> QED
      BY <3>2, <3>3
  <2> QED
    BY <2>3, <2>4
<1>10. ASSUME state' = "over", ~tearing', fails' = 0
       PROVE  /\ late' \cap {"report", "monitor", "health"} = {} => health' = "STOPPED"
              /\ "session" \notin late' => hosting' \in {"none", "stopped", "failed"}
  <2>1. /\ late \cap {"report", "monitor", "health"} = {} => health = "STOPPED"
        /\ "session" \notin late => hosting \in {"none", "stopped", "failed"}
    BY <1>2, <1>10 DEF Reported, HealthIsReported
  <2>2. state # "live"
    BY <1>2, <1>10
  <2>3. late' \cap {"report", "monitor", "health"} = {} => UNCHANGED health
    BY <1>3, <1>5, <1>6, <2>2
  <2> QED
    BY <1>3, <1>4, <2>1, <2>2, <2>3
<1> QED
  BY <1>2, <1>8, <1>9, <1>10 DEF Reported, HealthIsReported

\* What a quiet step tells, and what it leaves as it was.
LEMMA QuietReported ==
  ASSUME MonitorInv, Reported, Quietly
  PROVE  Reported'
<1>1. /\ Quieter /\ UNCHANGED <<results, watch>>
      /\ \A l \in Launch : monitor'[l].status = monitor[l].status
  BY QuietSteps, Quieting
<1>2. Watching /\ Standing /\ launch \in Launch /\ fails \in Nat
  BY DEF MonitorInv, TypeOK
<1>3. /\ state = "live" => watch = launch /\ at \notin Begun /\ ~stopping
      /\ state = "over" /\ hosting = "none" /\ ~stopping => at = "none"
  BY <1>2 DEF Watching, Standing
<1>4. CASE Relaunch \/ LaunchFails \/ (GoLive /\ ~MayGoOn)
  <2>1. UNCHANGED <<health, hosting, late, tearing>> /\ at' \notin {"expose", "check"}
    BY <1>4, Throwing DEF Relaunch, LaunchFails, GoLive
  <2>2. CASE Thrown
    <3>1. /\ UNCHANGED <<state, launch, stopping>> /\ (stopping => fails' = fails)
          /\ (~stopping => fails' > 0)
      BY <2>2, Throwing
    <3> QED
      BY <1>1, <1>2, <1>3, <2>1, <3>1 DEF Reported, HealthIsReported
  <2>3. CASE state' = "starting"
    BY <2>1, <2>3 DEF Reported, HealthIsReported
  <2> QED
    BY <1>4, <2>2, <2>3 DEF Relaunch, LaunchFails, GoLive
<1>5. CASE Spawn
  <2>1. CASE MayGoOn /\ at' = "health" /\ UNCHANGED state
    BY <2>1 DEF MayGoOn, Reported, HealthIsReported
  <2>2. CASE Thrown /\ UNCHANGED <<health, hosting, late>>
    <3>1. /\ UNCHANGED <<state, launch, stopping, tearing>> /\ (stopping => fails' = fails)
          /\ (~stopping => fails' > 0) /\ at' = "none"
      BY <2>2, Throwing
    <3> QED
      BY <1>1, <1>2, <1>3, <2>2, <3>1 DEF Reported, HealthIsReported
  <2> QED
    BY <1>5, <2>1, <2>2 DEF Spawn
<1>6. CASE Adopt \/ StartStopped \/ UNCHANGED vars
  <2>1. /\ UNCHANGED <<state, launch, health, hosting, late, tearing, fails>>
        /\ at' \in {"expose", "check"} => at' = at
    BY <1>6 DEF Adopt, StartStopped, vars, engine
  <2> QED
    BY <1>1, <1>2, <2>1 DEF Reported, HealthIsReported
<1>7. CASE StartedHealthy
  <2>1. /\ health' = "HEALTHY" /\ state # "live"
        /\ state # "live" => hosting' = hosting
        /\ late' = (late \ {"report"}) \cup (IF stopping /\ ~tearing THEN {"health"} ELSE {})
    BY <1>3, <1>7 DEF StartedHealthy, SetHealth, Begun
  <2>2. /\ UNCHANGED <<state, launch, tearing, stopping>>
        /\ MayGoOn \/ stopping \/ fails' > 0
        /\ stopping => fails' = fails
    BY <1>7, Throwing DEF StartedHealthy, MayGoOn
  <2>3. "session" \in late => "session" \in late'
    BY <2>1
  <2>4. state = "over" /\ ~tearing /\ fails' = 0 => "health" \in late'
    BY <2>1, <2>2 DEF MayGoOn
  <2>5. state = "over" /\ ~tearing /\ fails' = 0 => fails = 0
    BY <2>2 DEF MayGoOn
  <2> QED
    BY <2>1, <2>2, <2>3, <2>4, <2>5 DEF Reported, HealthIsReported
<1>8. CASE OpenSession
  <2>1. /\ UNCHANGED <<state, launch, health, tearing, fails, stopping>> /\ at = "expose"
        /\ hosting' = IF hosting = "none" THEN "starting" ELSE hosting
        /\ late' = late \cup (IF hosting = "none" /\ stopping /\ ~tearing THEN {"session"} ELSE {})
    BY <1>8 DEF OpenSession
  <2>2. state # "live"
    BY <1>3, <2>1 DEF Begun
  <2>3. late \subseteq late' /\ ("report" \in late' => "report" \in late)
    BY <2>1
  <2>4. state = "over" /\ hosting = "none" /\ ~tearing => "session" \in late'
    BY <1>3, <2>1
  <2>5. hosting # "none" => hosting' = hosting
    BY <2>1
  <2> QED
    BY <2>1, <2>2, <2>3, <2>4, <2>5 DEF Reported, HealthIsReported
<1>9. CASE Restart \/ RestartAgain
  <2>1. state' = "restarting"
    BY <1>9 DEF Restart, RestartAgain
  <2> QED
    BY <2>1 DEF Reported, HealthIsReported
<1>10. CASE Stop
  <2>1. tearing' /\ state' \in {"stopping", "over"}
    BY <1>10 DEF Stop, TearDown
  <2> QED
    BY <2>1 DEF Reported, HealthIsReported
<1>11. CASE Crash
  <2>1. state' \in {"restarting", "stopping"} \/ (state' = "live" /\ fails' > 0)
    BY <1>2, <1>3, <1>11 DEF Crash, TearDown, Fails
  <2> QED
    BY <2>1 DEF Reported, HealthIsReported
<1>12. CASE Exit
  <2>1. state # "live" /\ UNCHANGED <<state, at, health, hosting, late, tearing, fails>>
    BY <1>12 DEF Exit
  <2> QED
    BY <2>1 DEF Reported, HealthIsReported
<1>13. CASE FailEnds \/ StopEnds
  <2>1. /\ state' = "over" /\ health' = "STOPPED" /\ hosting' \in {"none", "stopped", "failed"}
    BY <1>13 DEF FailEnds, StopEnds, Ended
  <2> QED
    BY <2>1 DEF Reported, HealthIsReported
<1> QED
  BY <1>4, <1>5, <1>6, <1>7, <1>8, <1>9, <1>10, <1>11, <1>12, <1>13 DEF Quietly

LEMMA NextReported ==
  ASSUME MonitorInv, Reported, [Next]_vars
  PROVE  Reported'
<1>1. CASE Quietly
  BY <1>1, QuietReported
<1>2. CASE GoLive /\ MayGoOn
  <2>1. /\ state' = "live" /\ hosting' = "live" /\ UNCHANGED <<fails, launch, health>>
        /\ monitor'[launch].status = "HEALTHY" /\ late \subseteq late'
    BY <1>2, GoLiveKeeps
  <2>2. "report" \notin late' => health = "HEALTHY"
    BY <1>2, <2>1 DEF GoLive, MayGoOn, Reported
  <2> QED
    BY <2>1, <2>2, WhatIsShown DEF Reported, HealthIsReported
<1>3. CASE \E l \in Launch : Tick(l) \/ GraceEnds(l)
  <2>1. /\ \A o \in Launch : monitor'[o].status = monitor[o].status
        /\ UNCHANGED <<engine, health, hosting, late>>
    BY <1>3, LoopKeeps
  <2>2. launch \in Launch /\ UNCHANGED <<state, at, launch, tearing, fails>>
    BY <2>1 DEF engine, MonitorInv, TypeOK
  <2> QED
    BY <2>1, <2>2 DEF Reported, HealthIsReported
<1>4. CASE \E l \in Launch, ok \in BOOLEAN : Probed(l, ok)
  BY <1>4, ProbeReports
<1> QED
  BY <1>1, <1>2, <1>3, <1>4, Steps

\* The hysteresis of a step.
Hysteresis ==
  \A l \in Launch :
    LET from == monitor[l].status
        to == monitor'[l].status
    IN /\ to = "UNHEALTHY" /\ from # to => AllLast(l, FailureThreshold, "bad")'
       /\ from \in {"DEGRADED", "UNHEALTHY"} /\ to = "HEALTHY" =>
            AllLast(l, SuccessThreshold, "ok")'

LEMMA StepHysteresis ==
  ASSUME MonitorInv, [Next]_vars
  PROVE  Hysteresis
<1>1. CASE \A l \in Launch : monitor'[l].status = monitor[l].status
  BY <1>1 DEF Hysteresis
<1>2. CASE \E l \in Launch, ok \in BOOLEAN : Probed(l, ok)
  <2>1. PICK o \in Launch, ok \in BOOLEAN : Probed(o, ok)
    BY <1>2
  <2>2. /\ \A l \in Launch : l # o => monitor'[l] = monitor[l]
        /\ LET from == monitor[o].status
               to == monitor'[o].status
           IN /\ to = "UNHEALTHY" /\ from # to => EndsWith(results'[o], FailureThreshold, "bad")
              /\ from \in {"DEGRADED", "UNHEALTHY"} /\ to = "HEALTHY" =>
                   EndsWith(results'[o], SuccessThreshold, "ok")
    BY <2>1, ProbeKeeps
  <2> QED
    BY <2>2 DEF Hysteresis, EndsWith, AllLast
<1>3. CASE Quietly
  BY <1>1, <1>3, QuietKeeps
<1>4. CASE GoLive /\ MayGoOn
  BY <1>1, <1>4, GoLiveKeeps
<1>5. CASE \E l \in Launch : Tick(l) \/ GraceEnds(l)
  BY <1>1, <1>5, LoopKeeps
<1> QED
  BY <1>2, <1>3, <1>4, <1>5, Steps
-----------------------------------------------------------------------------
(* The theorems                                                            *)

\* The invariants hold in every state: who is watched (Watching), how far a stop has come
\* (Standing), what is counted (Counted) and what is stored and shown (Reported).
THEOREM HealthInvariant == Spec => [](MonitorInv /\ Reported)
<1>1. Init => MonitorInv /\ Reported
  BY InitInv
<1>2. MonitorInv /\ Reported /\ [Next]_vars => (MonitorInv /\ Reported)'
  BY NextInv, NextReported
<1> QED
  BY <1>1, <1>2, PTL DEF Spec

\* Every variable keeps its type: a monitor's counters stay within the window record()
\* compares them in.
THEOREM HealthTypes == Spec => []TypeOK
<1>1. MonitorInv => TypeOK
  BY DEF MonitorInv
<1> QED
  BY <1>1, HealthInvariant, PTL

\* What clients see of a live deployment that does not fail is what the monitor of its
\* launch found last, and one whose end is over is STOPPED to them, but for what came
\* late: however launch(), teardown(), fail() and the probes interleave.
THEOREM HealthReported == Spec => []HealthIsReported
<1>1. Reported => HealthIsReported
  BY DEF Reported
<1> QED
  BY <1>1, HealthInvariant, PTL

\* record() makes an application UNHEALTHY only after FailureThreshold counted failures
\* in a row, and one with a problem HEALTHY only after SuccessThreshold answers in a row.
THEOREM HealthHysteresis == Spec => HysteresisKept
<1> DEFINE Kept ==
      \A l \in Launch :
        LET from == monitor[l].status
            to == monitor'[l].status
        IN /\ to = "UNHEALTHY" /\ from # to => AllLast(l, FailureThreshold, "bad")'
           /\ from \in {"DEGRADED", "UNHEALTHY"} /\ to = "HEALTHY" =>
                AllLast(l, SuccessThreshold, "ok")'
<1>1. MonitorInv /\ [Next]_vars => [Kept]_vars
  BY StepHysteresis DEF Hysteresis
<1> QED
  BY <1>1, HealthInvariant, PTL DEF Spec, HysteresisKept, Kept
=============================================================================
