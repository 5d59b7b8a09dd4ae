---------------------------- MODULE HelpersProofs ----------------------------
(***************************************************************************)
(* The helpers, for every value of the constants: the event is safe to use *)
(* however many goroutines loop on WaitFor or sleep in Wait; a pipeline    *)
(* whose it() fails truncates and does nothing else; and the tokenizer     *)
(* reports the messages of the whole stream, however it is cut.            *)
(***************************************************************************)
EXTENDS MCHelpers, DeduperProofs, SequenceTheorems, FiniteSetTheorems, TLAPS

\* No channel is listed twice.
NoneTwice == \A i, j \in 1 .. Len(waiters) : waiters[i] = waiters[j] => i = j

\* A listed channel is open, and its timer has not removed it.
ListedInv == \A w \in E!Listed : w \notin closed /\ timer[w] \in {"sleeping", "fired"}

\* A channel that WaitFor has not made yet has no trace.
FreshInv ==
  \A p \in Loopers : \A n \in 1 .. MaxCalls :
    n > calls[p] => timer[<<p, n>>] = "none" /\ <<p, n>> \notin closed

\* A WaitFor that still sleeps is listed or was woken.
SleepingInv ==
  \A p \in Loopers : pc[p] = "select" =>
    /\ calls[p] \in 1 .. MaxCalls
    /\ timer[E!Current(p)] = "sleeping" => E!Current(p) \in E!Listed \union filled

\* A call that is pending while the flag is up has begun before that.
LateInv == \A p \in Loopers : late[p] \in 0 .. 1 /\ (v /\ pc[p] = "select" => late[p] = 0)

EventInv == E!TypeOK /\ NoneTwice /\ ListedInv /\ FreshInv /\ SleepingInv /\ LateInv

-----------------------------------------------------------------------------
\* removeWaiter drops element i, and nothing else.
LEMMA RemoveWaiter ==
  ASSUME NEW S, NEW s \in Seq(S), NEW i \in 1 .. Len(s)
  PROVE  /\ E!removeWaiter(s, i) \in Seq(S)
         /\ Len(E!removeWaiter(s, i)) = Len(s) - 1
         /\ \A k \in 1 .. Len(s) - 1 : E!removeWaiter(s, i)[k] = IF k = i THEN s[Len(s)] ELSE s[k]
<1> DEFINE t == [s EXCEPT ![Len(s)] = s[i], ![i] = s[Len(s)]]
<1>1. Len(s) \in Nat /\ Len(s) >= 1 /\ i \in Int OBVIOUS
<1>2. t \in Seq(S) /\ Len(t) = Len(s)
  <2>1. t \in [1 .. Len(s) -> S] BY <1>1
  <2>2. QED BY <2>1, <1>1
<1>3. \A k \in 1 .. Len(s) - 1 : t[k] = IF k = i THEN s[Len(s)] ELSE s[k] BY <1>1
<1> HIDE DEF t
<1>4. /\ SubSeq(t, 1, Len(s) - 1) \in Seq(S)
      /\ Len(SubSeq(t, 1, Len(s) - 1)) = Len(s) - 1
      /\ \A k \in 1 .. Len(s) - 1 : SubSeq(t, 1, Len(s) - 1)[k] = t[k]
  BY <1>1, <1>2
<1>5. E!removeWaiter(s, i) = SubSeq(t, 1, Len(s) - 1) BY DEF t, E!removeWaiter
<1>6. QED BY <1>3, <1>4, <1>5

\* The list has as many elements as channels when none is listed twice.
LEMMA ListedCount ==
  ASSUME E!TypeOK, NoneTwice
  PROVE  E!Cardinality(E!Listed) = Len(waiters)
<1>1. waiters \in Seq(E!Channels) /\ Len(waiters) \in Nat /\ DOMAIN waiters = 1 .. Len(waiters)
  BY DEF E!TypeOK
<1>2. E!Listed = {waiters[i] : i \in 1 .. Len(waiters)} BY <1>1 DEF E!Listed
<1>3. waiters \in Bijection(1 .. Len(waiters), E!Listed)
  <2>1. waiters \in [1 .. Len(waiters) -> E!Listed] BY <1>1, <1>2
  <2>2. waiters \in Injection(1 .. Len(waiters), E!Listed) BY <2>1 DEF NoneTwice, Injection, IsInjective
  <2>3. waiters \in Surjection(1 .. Len(waiters), E!Listed) BY <2>1, <1>2 DEF Surjection
  <2>4. QED BY <2>2, <2>3 DEF Bijection
<1>4. ExistsBijection(1 .. Len(waiters), E!Listed) BY <1>3 DEF ExistsBijection
<1>5. Cardinality(E!Listed) = Len(waiters) BY <1>1, <1>4, FS_CountingElements
<1>6. E!Cardinality(E!Listed) = Cardinality(E!Listed) BY DEF E!Cardinality, Cardinality
<1>7. QED BY <1>5, <1>6

\* New(Event) establishes the invariant.
LEMMA EventInit == E!Init => EventInv
<1> SUFFICES ASSUME E!Init PROVE EventInv OBVIOUS
<1> USE EventAssumption
<1>1. waiters = <<>> /\ Len(waiters) = 0 /\ E!Listed = {} BY DEF E!Init, E!Listed
<1>2. E!TypeOK
  <2>1. waiters \in Seq(E!Channels) BY <1>1
  <2>2. calls \in [Loopers -> 0 .. MaxCalls] /\ late \in [Loopers -> Nat] BY DEF E!Init
  <2>3. QED BY <2>1, <2>2 DEF E!Init, E!TypeOK
<1>3. NoneTwice /\ ListedInv /\ SleepingInv BY <1>1 DEF E!Init, NoneTwice, ListedInv, SleepingInv
<1>4. FreshInv /\ LateInv BY DEF E!Init, FreshInv, LateInv, E!Channels
<1>5. QED BY <1>2, <1>3, <1>4 DEF EventInv

\* Set takes every listed channel off the list and wakes it.
LEMMA SetStep == EventInv /\ E!Set => EventInv'
<1> SUFFICES ASSUME EventInv, E!Set PROVE EventInv' OBVIOUS
<1> USE EventAssumption
<1>t. E!TypeOK BY DEF EventInv
<1>1. waiters' = <<>> /\ Len(waiters') = 0 /\ E!Listed' = {} BY DEF E!Set, E!Listed
<1>2. E!Listed \subseteq E!Channels BY <1>t DEF E!Listed, E!TypeOK
<1>3. late' \in [Loopers -> Nat] /\ LateInv'
  <2>1. CASE v BY <2>1, <1>t DEF E!Set, EventInv, LateInv, E!TypeOK
  <2>2. CASE ~v BY <2>2 DEF E!Set, LateInv
  <2>3. QED BY <2>1, <2>2
<1>4. /\ UNCHANGED <<timer, pc, calls>> /\ v' = TRUE
      /\ filled' = filled \union E!Listed /\ closed' = closed \union E!Listed
      /\ sleeper' = [q \in Sleepers |-> IF sleeper[q] = "blocked" THEN "notified" ELSE sleeper[q]]
  BY DEF E!Set
<1>5. E!TypeOK'
  <2>1. waiters' \in Seq(E!Channels) BY <1>1
  <2>2. closed' \subseteq E!Channels /\ filled' \subseteq closed' BY <1>2, <1>4, <1>t DEF E!TypeOK
  <2>3. sleeper' \in [Sleepers -> {"out", "blocked", "notified"}] BY <1>4, <1>t DEF E!TypeOK
  <2>4. v' \in BOOLEAN BY <1>4
  <2>5. QED BY <1>3, <1>4, <1>t, <2>1, <2>2, <2>3, <2>4 DEF E!TypeOK, E!Channels
<1>6. NoneTwice' /\ ListedInv' BY <1>1 DEF NoneTwice, ListedInv
<1>7. FreshInv'
  BY <1>4 DEF EventInv, FreshInv, ListedInv
<1>8. SleepingInv'
  BY <1>4 DEF EventInv, SleepingInv, E!Current
<1>9. QED BY <1>3, <1>5, <1>6, <1>7, <1>8 DEF EventInv

\* A WaitFor that finds the flag down lists a channel nobody has seen.
LEMMA EnterStep == ASSUME EventInv, NEW p \in Loopers, E!WaitForEnter(p) PROVE EventInv'
<1> USE EventAssumption
<1>t. E!TypeOK BY DEF EventInv
<1> DEFINE w == <<p, calls[p] + 1>>
<1>1. calls[p] \in 0 .. MaxCalls /\ calls[p] < MaxCalls /\ pc[p] = "top"
  BY <1>t DEF E!WaitForEnter, E!TypeOK
<1>2. w \in E!Channels BY <1>1 DEF E!Channels
<1>3. /\ calls' = [calls EXCEPT ![p] = calls[p] + 1]
      /\ UNCHANGED <<v, filled, closed, sleeper, late>>
  BY DEF E!WaitForEnter
<1>4. /\ calls' \in [Loopers -> 0 .. MaxCalls] /\ calls'[p] = calls[p] + 1
      /\ \A q \in Loopers : q # p => calls'[q] = calls[q]
  BY <1>1, <1>3, <1>t DEF E!TypeOK
<1>f. \A q \in Loopers : \A n \in 1 .. MaxCalls : n > calls'[q] => n > calls[q] /\ <<q, n>> # w
  BY <1>1, <1>4, <1>t DEF E!TypeOK
<1>5. CASE v
  <2>1. UNCHANGED <<waiters, timer>> /\ pc' = [pc EXCEPT ![p] = "stopped"] BY <1>5 DEF E!WaitForEnter
  <2>2. /\ pc' \in [Loopers -> {"top", "select", "body", "stopped"}]
        /\ \A q \in Loopers : pc'[q] = "select" => pc[q] = "select" /\ q # p
    BY <2>1, <1>t DEF E!TypeOK
  <2>3. E!Listed' = E!Listed BY <2>1 DEF E!Listed
  <2>4. E!TypeOK' BY <2>1, <2>2, <1>3, <1>4, <1>t DEF E!TypeOK, E!Channels
  <2>5. NoneTwice' /\ ListedInv' BY <2>1, <2>3, <1>3 DEF EventInv, NoneTwice, ListedInv
  <2>6. FreshInv' BY <2>1, <1>3, <1>f DEF EventInv, FreshInv
  <2>7. SleepingInv' BY <2>1, <2>2, <2>3, <1>3, <1>4 DEF EventInv, SleepingInv, E!Current
  <2>8. LateInv' BY <2>2, <1>3 DEF EventInv, LateInv
  <2>9. QED BY <2>4, <2>5, <2>6, <2>7, <2>8 DEF EventInv
<1>6. CASE ~v
  <2>1. /\ waiters' = Append(waiters, w)
        /\ timer' = [timer EXCEPT ![w] = "sleeping"]
        /\ pc' = [pc EXCEPT ![p] = "select"]
    BY <1>6 DEF E!WaitForEnter
  <2>2. /\ pc' \in [Loopers -> {"top", "select", "body", "stopped"}]
        /\ \A q \in Loopers : q # p => pc'[q] = pc[q]
    BY <2>1, <1>t DEF E!TypeOK
  <2>3. /\ timer' \in [E!Channels -> {"none", "sleeping", "fired", "gone"}] /\ timer'[w] = "sleeping"
        /\ \A c \in E!Channels : c # w => timer'[c] = timer[c]
    BY <2>1, <1>2, <1>t DEF E!TypeOK
  <2>4. timer[w] = "none" /\ w \notin closed
    BY <1>1 DEF EventInv, FreshInv
  <2> HIDE DEF w
  <2>5. waiters \in Seq(E!Channels) /\ Len(waiters) \in Nat BY <1>t DEF E!TypeOK
  <2>6. /\ waiters' \in Seq(E!Channels) /\ Len(waiters') = Len(waiters) + 1
        /\ \A i \in 1 .. Len(waiters') : waiters'[i] = IF i = Len(waiters) + 1 THEN w ELSE waiters[i]
    BY <2>1, <2>5, <1>2
  <2>7. E!Listed' = E!Listed \union {w}
    <3>1. DOMAIN waiters = 1 .. Len(waiters) /\ DOMAIN waiters' = 1 .. Len(waiters) + 1 BY <2>5, <2>6
    <3>2. E!Listed' \subseteq E!Listed \union {w} BY <3>1, <2>5, <2>6 DEF E!Listed
    <3>3. w \in E!Listed'
      <4>1. waiters'[Len(waiters) + 1] = w BY <2>5, <2>6
      <4>2. QED BY <4>1, <3>1, <2>5 DEF E!Listed
    <3>4. E!Listed \subseteq E!Listed'
      <4>1. \A i \in 1 .. Len(waiters) : waiters'[i] = waiters[i] BY <2>5, <2>6
      <4>2. QED BY <4>1, <3>1, <2>5 DEF E!Listed
    <3>5. QED BY <3>2, <3>3, <3>4
  <2>8. E!Listed \subseteq E!Channels /\ w \notin E!Listed
    <3>1. E!Listed \subseteq E!Channels BY <2>5 DEF E!Listed
    <3>2. QED BY <3>1, <2>4 DEF EventInv, ListedInv
  <2>9. E!TypeOK' BY <2>2, <2>3, <2>6, <1>3, <1>4, <1>t DEF E!TypeOK, E!Channels
  <2>10. NoneTwice'
    <3>1. \A i \in 1 .. Len(waiters) : waiters[i] # w BY <2>5, <2>8 DEF E!Listed
    <3>2. QED BY <3>1, <2>5, <2>6 DEF EventInv, NoneTwice
  <2>11. ListedInv' BY <2>3, <2>4, <2>7, <2>8, <1>3 DEF EventInv, ListedInv
  <2>12. FreshInv'
    <3> SUFFICES ASSUME NEW q \in Loopers, NEW n \in 1 .. MaxCalls, n > calls'[q]
                 PROVE  timer'[<<q, n>>] = "none" /\ <<q, n>> \notin closed'
      BY DEF FreshInv
    <3>1. <<q, n>> \in E!Channels /\ <<q, n>> # w /\ n > calls[q] BY <1>f DEF E!Channels
    <3>2. QED BY <3>1, <2>3, <1>3 DEF EventInv, FreshInv
  <2>13. SleepingInv'
    <3> SUFFICES ASSUME NEW q \in Loopers, pc'[q] = "select"
                 PROVE  /\ calls'[q] \in 1 .. MaxCalls
                        /\ timer'[E!Current(q)'] = "sleeping" => E!Current(q)' \in E!Listed' \union filled'
      BY DEF SleepingInv
    <3>1. CASE q = p
      <4>1. E!Current(q)' = w BY <3>1, <1>4 DEF E!Current, w
      <4>2. QED BY <4>1, <3>1, <2>7, <1>1, <1>4
    <3>2. CASE q # p
      <4>1. E!Current(q)' = E!Current(q) /\ E!Current(q) # w /\ pc[q] = "select"
        BY <3>2, <1>4, <2>2 DEF E!Current, w
      <4>2. E!Current(q) \in E!Channels BY <4>1 DEF EventInv, SleepingInv, E!Current, E!Channels
      <4>3. QED BY <4>1, <4>2, <3>2, <2>3, <2>7, <1>3, <1>4 DEF EventInv, SleepingInv
    <3>3. QED BY <3>1, <3>2
  <2>14. LateInv' BY <1>6, <1>3 DEF EventInv, LateInv
  <2>15. QED BY <2>9, <2>10, <2>11, <2>12, <2>13, <2>14 DEF EventInv
<1>7. QED BY <1>5, <1>6

\* The timer of a call, or of one that has returned long ago, drops its own channel only.
LEMMA TimerStep ==
  ASSUME EventInv, NEW w \in E!Channels, E!TimerFires(w) \/ E!TimerRemoves(w) PROVE EventInv'
<1> USE EventAssumption
<1>t. E!TypeOK BY DEF EventInv
<1>1. /\ UNCHANGED <<v, filled, closed, pc, calls, sleeper, late>>
      /\ timer[w] \in {"sleeping", "fired"}
      /\ timer' = [timer EXCEPT ![w] = IF timer[w] = "sleeping" THEN "fired" ELSE "gone"]
      /\ timer'[w] \in {"fired", "gone"}
  BY <1>t DEF E!TimerFires, E!TimerRemoves, E!TypeOK
<1>2. /\ timer' \in [E!Channels -> {"none", "sleeping", "fired", "gone"}]
      /\ \A c \in E!Channels : c # w => timer'[c] = timer[c]
  BY <1>1, <1>t DEF E!TypeOK
<1>3. waiters \in Seq(E!Channels) /\ Len(waiters) \in Nat /\ E!Listed = {waiters[i] : i \in 1 .. Len(waiters)}
  BY <1>t DEF E!TypeOK, E!Listed
<1>4. /\ waiters' \in Seq(E!Channels) /\ NoneTwice'
      /\ E!Listed' = IF timer[w] = "fired" THEN E!Listed \ {w} ELSE E!Listed
  <2>1. CASE E!TimerFires(w)
    BY <2>1, <1>3 DEF E!TimerFires, EventInv, NoneTwice, E!Listed
  <2>2. CASE E!TimerRemoves(w) /\ w \notin E!Listed
    BY <2>2, <1>3 DEF E!TimerRemoves, EventInv, NoneTwice, E!Listed
  <2>3. CASE E!TimerRemoves(w) /\ w \in E!Listed
    <3> DEFINE i == CHOOSE i \in DOMAIN waiters : waiters[i] = w
    <3>1. \E k \in DOMAIN waiters : waiters[k] = w BY <2>3 DEF E!Listed
    <3>2. i \in 1 .. Len(waiters) /\ waiters[i] = w BY <3>1, <1>3
    <3>3. waiters' = E!removeWaiter(waiters, i) BY <2>3 DEF E!TimerRemoves
    <3> HIDE DEF i
    <3>4. /\ waiters' \in Seq(E!Channels) /\ Len(waiters') = Len(waiters) - 1
          /\ \A k \in 1 .. Len(waiters) - 1 : waiters'[k] = IF k = i THEN waiters[Len(waiters)] ELSE waiters[k]
      BY <3>2, <3>3, <1>3, RemoveWaiter
    <3>5. NoneTwice'
      <4> SUFFICES ASSUME NEW a \in 1 .. Len(waiters) - 1, NEW b \in 1 .. Len(waiters) - 1, waiters'[a] = waiters'[b]
                   PROVE  a = b
        BY <3>4 DEF NoneTwice
      <4>1. /\ a \in 1 .. Len(waiters) /\ b \in 1 .. Len(waiters) /\ Len(waiters) \in 1 .. Len(waiters)
            /\ a # Len(waiters) /\ b # Len(waiters)
        BY <1>3
      <4>2. QED BY <4>1, <3>4 DEF EventInv, NoneTwice
    <3>6. E!Listed' = {waiters'[k] : k \in 1 .. Len(waiters) - 1} BY <3>4 DEF E!Listed
    <3>7. E!Listed' \subseteq E!Listed \ {w}
      <4> SUFFICES ASSUME NEW k \in 1 .. Len(waiters) - 1 PROVE waiters'[k] \in E!Listed \ {w}
        BY <3>6
      <4>1. k \in 1 .. Len(waiters) /\ k # Len(waiters) /\ Len(waiters) \in 1 .. Len(waiters) BY <1>3
      <4>2. QED BY <4>1, <3>2, <3>4, <1>3 DEF EventInv, NoneTwice
    <3>8. E!Listed \ {w} \subseteq E!Listed'
      <4> SUFFICES ASSUME NEW k \in 1 .. Len(waiters), k # i PROVE waiters[k] \in E!Listed'
        BY <3>2, <1>3
      <4>1. CASE k = Len(waiters)
        <5>1. i \in 1 .. Len(waiters) - 1 BY <4>1, <3>2, <1>3
        <5>2. QED BY <5>1, <4>1, <3>4, <3>6
      <4>2. CASE k # Len(waiters)
        <5>1. k \in 1 .. Len(waiters) - 1 BY <4>2, <1>3
        <5>2. QED BY <5>1, <3>4, <3>6
      <4>3. QED BY <4>1, <4>2
    <3>9. timer[w] = "fired" BY <2>3 DEF E!TimerRemoves
    <3>10. QED BY <3>4, <3>5, <3>7, <3>8, <3>9
  <2>4. QED BY <2>1, <2>2, <2>3
<1>5. E!TypeOK' BY <1>1, <1>2, <1>4, <1>t DEF E!TypeOK, E!Channels
<1>6. ListedInv'
  <2>1. E!Listed \subseteq E!Channels BY <1>3
  <2>2. QED BY <2>1, <1>1, <1>2, <1>4, <1>t DEF EventInv, ListedInv, E!TypeOK
<1>7. FreshInv'
  <2> SUFFICES ASSUME NEW q \in Loopers, NEW n \in 1 .. MaxCalls, n > calls'[q]
               PROVE  timer'[<<q, n>>] = "none" /\ <<q, n>> \notin closed'
    BY DEF FreshInv
  <2>1. <<q, n>> \in E!Channels /\ timer[<<q, n>>] = "none" /\ <<q, n>> \notin closed
    BY <1>1 DEF EventInv, FreshInv, E!Channels
  <2>2. QED BY <2>1, <1>1, <1>2
<1>8. SleepingInv'
  <2> SUFFICES ASSUME NEW q \in Loopers, pc[q] = "select"
               PROVE  /\ calls[q] \in 1 .. MaxCalls
                      /\ timer'[E!Current(q)] = "sleeping" => E!Current(q) \in E!Listed' \union filled
    BY <1>1 DEF SleepingInv, E!Current
  <2>1. calls[q] \in 1 .. MaxCalls BY DEF EventInv, SleepingInv
  <2>2. E!Current(q) \in E!Channels BY <2>1 DEF E!Current, E!Channels
  <2>3. CASE E!Current(q) = w BY <2>1, <2>3, <1>1
  <2>4. CASE E!Current(q) # w BY <2>1, <2>2, <2>4, <1>2, <1>4 DEF EventInv, SleepingInv
  <2>5. QED BY <2>3, <2>4
<1>9. LateInv' BY <1>1 DEF EventInv, LateInv
<1>10. QED BY <1>4, <1>5, <1>6, <1>7, <1>8, <1>9 DEF EventInv

\* The steps that touch neither the list nor a timer.
LEMMA QuietStep ==
  ASSUME EventInv,
         \/ E!Clear \/ UNCHANGED eventVars
         \/ \E q \in Sleepers : E!Sleeper(q)
         \/ \E p \in Loopers : E!WaitForTrue(p) \/ E!WaitForFalse(p) \/ E!BodyEnds(p)
  PROVE  EventInv'
<1> USE EventAssumption
<1>t. E!TypeOK BY DEF EventInv
<1>1. UNCHANGED <<waiters, timer, closed, calls>>
  BY DEF E!Clear, eventVars, E!Sleeper, E!WaitEnter, E!WaitRecheck, E!WaitForTrue, E!WaitForFalse, E!BodyEnds
<1>2. NoneTwice' /\ ListedInv' /\ FreshInv'
  BY <1>1 DEF EventInv, NoneTwice, ListedInv, FreshInv, E!Listed
<1>3. CASE E!Clear
  BY <1>1, <1>2, <1>3, <1>t DEF E!Clear, EventInv, E!TypeOK, SleepingInv, LateInv, E!Current, E!Listed, E!Channels
<1>4. CASE UNCHANGED eventVars
  BY <1>1, <1>2, <1>4, <1>t DEF eventVars, EventInv, E!TypeOK, SleepingInv, LateInv, E!Current, E!Listed, E!Channels
<1>5. ASSUME NEW q \in Sleepers, E!Sleeper(q) PROVE EventInv'
  <2>1. sleeper' \in [Sleepers -> {"out", "blocked", "notified"}] /\ UNCHANGED <<v, filled, pc, late>>
    BY <1>5, <1>t DEF E!Sleeper, E!WaitEnter, E!WaitRecheck, E!TypeOK
  <2>2. QED
    BY <1>1, <1>2, <2>1, <1>t DEF EventInv, E!TypeOK, SleepingInv, LateInv, E!Current, E!Listed, E!Channels
<1>6. ASSUME NEW p \in Loopers, E!WaitForTrue(p) PROVE EventInv'
  <2>1. /\ filled' = filled \ {E!Current(p)} /\ pc' = [pc EXCEPT ![p] = "stopped"]
        /\ UNCHANGED <<v, sleeper, late>>
    BY <1>6 DEF E!WaitForTrue
  <2>2. /\ pc' \in [Loopers -> {"top", "select", "body", "stopped"}]
        /\ \A q \in Loopers : pc'[q] = "select" => pc[q] = "select" /\ q # p
    BY <2>1, <1>t DEF E!TypeOK
  <2>3. E!TypeOK' BY <2>1, <2>2, <1>1, <1>t DEF E!TypeOK, E!Channels
  <2>4. \A q \in Loopers : q # p => E!Current(q) # E!Current(p) BY DEF E!Current
  <2>5. SleepingInv' BY <2>1, <2>2, <2>4, <1>1 DEF EventInv, SleepingInv, E!Current, E!Listed
  <2>6. LateInv' BY <2>1, <2>2 DEF EventInv, LateInv
  <2>7. QED BY <1>2, <2>3, <2>5, <2>6 DEF EventInv
<1>7. ASSUME NEW p \in Loopers, E!WaitForFalse(p) PROVE EventInv'
  <2>1. /\ pc' = [pc EXCEPT ![p] = "body"] /\ pc[p] = "select"
        /\ late' = [late EXCEPT ![p] = IF v THEN late[p] + 1 ELSE late[p]]
        /\ UNCHANGED <<v, filled, sleeper>>
    BY <1>7 DEF E!WaitForFalse
  <2>2. /\ pc' \in [Loopers -> {"top", "select", "body", "stopped"}]
        /\ \A q \in Loopers : pc'[q] = "select" => pc[q] = "select" /\ q # p
    BY <2>1, <1>t DEF E!TypeOK
  <2>3. late[p] \in 0 .. 1 /\ (v => late[p] = 0) BY <2>1 DEF EventInv, LateInv
  <2>4. /\ late' \in [Loopers -> Nat] /\ late'[p] \in 0 .. 1
        /\ \A q \in Loopers : q # p => late'[q] = late[q]
    BY <2>1, <2>3, <1>t DEF E!TypeOK
  <2>5. E!TypeOK' BY <2>1, <2>2, <2>4, <1>1, <1>t DEF E!TypeOK, E!Channels
  <2>6. SleepingInv' BY <2>1, <2>2, <1>1 DEF EventInv, SleepingInv, E!Current, E!Listed
  <2>7. LateInv' BY <2>1, <2>2, <2>4 DEF EventInv, LateInv
  <2>8. QED BY <1>2, <2>5, <2>6, <2>7 DEF EventInv
<1>8. ASSUME NEW p \in Loopers, E!BodyEnds(p) PROVE EventInv'
  <2>1. pc' = [pc EXCEPT ![p] = "top"] /\ UNCHANGED <<v, filled, sleeper, late>>
    BY <1>8 DEF E!BodyEnds
  <2>2. /\ pc' \in [Loopers -> {"top", "select", "body", "stopped"}]
        /\ \A q \in Loopers : pc'[q] = "select" => pc[q] = "select"
    BY <2>1, <1>t DEF E!TypeOK
  <2>3. E!TypeOK' BY <2>1, <2>2, <1>1, <1>t DEF E!TypeOK, E!Channels
  <2>4. SleepingInv' /\ LateInv' BY <2>1, <2>2, <1>1 DEF EventInv, SleepingInv, LateInv, E!Current, E!Listed
  <2>5. QED BY <1>2, <2>3, <2>4 DEF EventInv
<1>9. QED BY <1>3, <1>4, <1>5, <1>6, <1>7, <1>8

\* Every step of the goroutines that use the event preserves the invariant.
LEMMA EventStepInv == EventInv /\ [E!Next]_eventVars => EventInv'
BY SetStep, EnterStep, TimerStep, QuietStep DEF E!Next, E!Looper

\* The invariant makes the event safe.
LEMMA SafeByInv == EventInv => EventIsSafe
<1> SUFFICES ASSUME EventInv PROVE EventIsSafe OBVIOUS
<1>1. E!Cardinality(E!Listed) = Len(waiters) BY ListedCount DEF EventInv
<1>2. E!Listed \cap (filled \union closed) = {} BY DEF EventInv, ListedInv, E!TypeOK
<1>3. E!SetCannotBlock BY <1>1, <1>2 DEF E!SetCannotBlock
<1>4. E!WaitersAreTracked BY DEF EventInv, SleepingInv, ListedInv, E!WaitersAreTracked
<1>5. E!AtMostOneLateBody BY DEF EventInv, LateInv, E!AtMostOneLateBody
<1>6. QED BY <1>3, <1>4, <1>5 DEF EventIsSafe

\* Every step of the composition is one of the tokenizer, the deduper and the event, or
\* leaves it alone.
LEMMA StepOfEach ==
  [MCNext]_MCvars => [T!Next]_tokenizerVars /\ [Next]_vars /\ [E!Next]_eventVars
  BY DEF MCNext, DeduperStep, EventStep, TokenizerStep, PipelineStep, PipelineStops, MCvars

\* Set never sends to a full or closed channel, no pending WaitFor is forgotten and no
\* channel leaks, and a loop on WaitFor begins at most one body after the flag is raised:
\* however the timers, Set and Clear interleave with the loops.
THEOREM EventSafe == MCSpec => []EventIsSafe
<1>1. MCInit => EventInv BY EventInit DEF MCInit
<1>2. EventInv /\ [MCNext]_MCvars => EventInv' BY StepOfEach, EventStepInv
<1>3. QED BY <1>1, <1>2, SafeByInv, PTL DEF MCSpec, MCSafety

-----------------------------------------------------------------------------
(***************************************************************************)
(* The pipeline whose it() may fail: what PipelinerProofs proves of it     *)
(* carries over to the instance of the helpers.                            *)
(***************************************************************************)
PP == INSTANCE PipelinerProofs WITH ItMayFail <- TRUE

\* The instance of the proofs starts as the one of the helpers.
LEMMA SameInit == P!Init => PP!Init
  BY DEF P!Init, PP!Init, P!Slots, PP!Slots, P!Procs, PP!Procs, P!Idle, PP!Idle

\* It steps as the one of the helpers.
LEMMA SameSteps == [P!Next]_(P!vars) => [PP!Next]_(PP!vars)
<1> USE DEF P!consumeVars, P!callerVars, PP!consumeVars, PP!callerVars,
            P!Procs, PP!Procs, P!Slots, PP!Slots, P!Idle, PP!Idle, P!Done, PP!Done
<1>1. P!Consume => PP!Consume
  BY DEF P!Consume, P!ConsumeTop, P!ConsumeAcquire, P!ConsumeRecheck, P!ConsumeIt,
         P!ConsumeSend, P!ConsumeFail, PP!Consume, PP!ConsumeTop, PP!ConsumeAcquire,
         PP!ConsumeRecheck, PP!ConsumeIt, PP!ConsumeSend, PP!ConsumeFail
<1>2. ASSUME NEW p \in P!Procs, P!Process(p) PROVE p \in PP!Procs /\ PP!Process(p)
  BY <1>2 DEF P!Process, PP!Process, P!ProcessReceive, PP!ProcessReceive, P!ProcessSend,
              PP!ProcessSend, P!Stream!Processed, PP!Stream!Processed
<1>3. P!Closer => PP!Closer BY DEF P!Closer, PP!Closer, P!CloseReady, PP!CloseReady
<1>4. P!Placer => PP!Placer
  BY DEF P!Placer, PP!Placer, P!PlacerReceive, PP!PlacerReceive, P!PlacerPlace, PP!PlacerPlace,
         P!Spot, PP!Spot, P!Hits, PP!Hits
<1>5. P!Finisher => PP!Finisher
  BY DEF P!Finisher, PP!Finisher, P!Finish, PP!Finish, P!AllDone, PP!AllDone
<1>6. P!Generator => PP!Generator
  BY DEF P!Generator, PP!Generator, P!GeneratorTake, PP!GeneratorTake, P!GeneratorReturn,
         PP!GeneratorReturn, P!Shifted, PP!Shifted
<1>7. P!Releaser \/ P!Closing \/ P!Caller => PP!Releaser \/ PP!Closing \/ PP!Caller
  BY DEF P!Releaser, PP!Releaser, P!CloseRelease, PP!CloseRelease, P!Closing, PP!Closing,
         P!CloseReturn, PP!CloseReturn, P!AllDone, PP!AllDone, P!Caller, PP!Caller,
         P!GeneratorCall, PP!GeneratorCall, P!CloseCall, PP!CloseCall
<1>8. P!Terminated => PP!Terminated BY DEF P!Terminated, PP!Terminated, P!vars, PP!vars
<1>9. UNCHANGED P!vars => UNCHANGED PP!vars BY DEF P!vars, PP!vars
<1>10. P!Next => PP!Next
  <2>1. CASE \E p \in P!Procs : P!Process(p)
    <3>1. \E p \in PP!Procs : PP!Process(p) BY <2>1, <1>2
    <3>2. QED BY <3>1 DEF PP!Next
  <2>2. QED BY <1>1, <1>3, <1>4, <1>5, <1>6, <1>7, <1>8, <2>1, Zenon DEF P!Next, PP!Next
<1>11. QED BY <1>9, <1>10

\* When it() fails the caller gets an in-order prefix of what it() returned, each
\* element once, however the goroutines interleave and whenever close() is called.
THEOREM FailureTruncates == MCSpec => []OnlyTruncates
<1>1. MCInit => PP!TruncateInv
  BY SameInit, PP!TruncateInit, PipelineAssumption DEF MCInit, PP!PipelinerAssumption
<1>2. PP!TruncateInv /\ [MCNext]_MCvars => PP!TruncateInv'
  <2>1. [MCNext]_MCvars => [P!Next]_(P!vars)
    BY DEF MCNext, DeduperStep, EventStep, TokenizerStep, PipelineStep, PipelineStops, MCvars,
           pipelineVars, P!vars
  <2>2. PP!TruncateInv /\ [PP!Next]_(PP!vars) => PP!TruncateInv'
    BY PP!TruncateStep, PipelineAssumption DEF PP!PipelinerAssumption
  <2>3. QED BY <2>1, <2>2, SameSteps
<1>3. PP!TruncateInv => OnlyTruncates
  <2>1. PP!TruncateInv => PP!OnlyTruncates BY DEF PP!TruncateInv
  <2>2. QED BY <2>1 DEF PP!OnlyTruncates, OnlyTruncates, P!OnlyTruncates
<1>4. QED BY <1>1, <1>2, <1>3, PTL DEF MCSpec, MCSafety

-----------------------------------------------------------------------------
(***************************************************************************)
(* The split of a stream, byte by byte.                                    *)
(***************************************************************************)

\* The tokens among the first i bytes of s, their number in s, and the k-th of them.
TokensIn(s, i) == {j \in 1 .. i : s[j] = Token}
CountIn(s) == Cardinality(TokensIn(s, Len(s)))
IsNth(s, k, i) == i \in 1 .. Len(s) /\ s[i] = Token /\ Cardinality(TokensIn(s, i)) = k
NthIn(s, k) == IF k = 0 THEN 0 ELSE CHOOSE i \in DOMAIN s : s[i] = Token /\ Cardinality(TokensIn(s, i)) = k

\* The messages of s and what follows its last token.
SplitOf(s) == [k \in 1 .. CountIn(s) |-> SubSeq(s, NthIn(s, k - 1) + 1, NthIn(s, k) - 1)]
RestOf(s) == SubSeq(s, NthIn(s, CountIn(s)) + 1, Len(s))

\* Every number up to the count has its token.
Counted(s) == \A k \in 1 .. CountIn(s) : \E i \in 1 .. Len(s) : IsNth(s, k, i)

\* Tokens of a prefix are finitely many, and fewer the shorter it is.
LEMMA TokensFinite ==
  ASSUME NEW S, NEW s \in Seq(S), NEW i \in Int
  PROVE  IsFiniteSet(TokensIn(s, i)) /\ Cardinality(TokensIn(s, i)) \in Nat
<1>1. IsFiniteSet(1 .. i) BY FS_Interval
<1>2. TokensIn(s, i) \in SUBSET (1 .. i) BY DEF TokensIn
<1>3. QED BY <1>1, <1>2, FS_Subset, FS_CardinalityType

\* No two tokens are the k-th.
LEMMA NthUnique ==
  ASSUME NEW S, NEW s \in Seq(S), NEW k, NEW i, NEW j, IsNth(s, k, i), IsNth(s, k, j)
  PROVE  i = j
<1>1. ASSUME NEW a, NEW b, IsNth(s, k, a), IsNth(s, k, b), a < b PROVE FALSE
  <2>1. a \in Nat /\ b \in Nat /\ s[b] = Token /\ b >= 1 BY <1>1, LenProperties DEF IsNth
  <2>2. TokensIn(s, a) \in SUBSET TokensIn(s, b) BY <1>1, <2>1 DEF TokensIn
  <2>3. b \in TokensIn(s, b) /\ b \notin TokensIn(s, a) BY <1>1, <2>1 DEF TokensIn
  <2>4. Cardinality(TokensIn(s, a)) = Cardinality(TokensIn(s, b)) BY <1>1 DEF IsNth
  <2>5. IsFiniteSet(TokensIn(s, b)) BY <2>1, TokensFinite
  <2>6. TokensIn(s, b) = TokensIn(s, a) BY <2>2, <2>4, <2>5, FS_Subset
  <2>7. QED BY <2>3, <2>6
<1>2. i \in Int /\ j \in Int BY DEF IsNth
<1>3. ~(i < j) BY <1>1
<1>4. ~(j < i) BY <1>1
<1>5. QED BY <1>2, <1>3, <1>4

\* The k-th token is the one that is chosen.
LEMMA NthIs ==
  ASSUME NEW S, NEW s \in Seq(S), NEW k \in Nat, k > 0, NEW i, IsNth(s, k, i)
  PROVE  NthIn(s, k) = i
<1>1. DOMAIN s = 1 .. Len(s) BY LenProperties
<1>2. \A j \in DOMAIN s : (s[j] = Token /\ Cardinality(TokensIn(s, j)) = k) <=> IsNth(s, k, j)
  BY <1>1 DEF IsNth
<1>3. i \in DOMAIN s BY <1>1 DEF IsNth
<1>4. IsNth(s, k, NthIn(s, k))
  <2>1. NthIn(s, k) = CHOOSE j \in DOMAIN s : s[j] = Token /\ Cardinality(TokensIn(s, j)) = k
    BY DEF NthIn
  <2>2. QED BY <1>2, <1>3, <2>1
<1>5. QED BY <1>4, NthUnique

\* The tokens of s with one more byte.
LEMMA TokensOfAppend ==
  ASSUME NEW S, NEW s \in Seq(S), NEW x \in S
  PROVE  /\ \A i \in 0 .. Len(s) : TokensIn(Append(s, x), i) = TokensIn(s, i)
         /\ CountIn(Append(s, x)) = CountIn(s) + IF x = Token THEN 1 ELSE 0
         /\ \A k, i : IsNth(s, k, i) => IsNth(Append(s, x), k, i)
         /\ x = Token => IsNth(Append(s, x), CountIn(s) + 1, Len(s) + 1)
<1> DEFINE n == Len(s)
           t == Append(s, x)
<1>1. /\ n \in Nat /\ t \in Seq(S) /\ Len(t) = n + 1 /\ t[n + 1] = x
      /\ \A k \in 1 .. n : t[k] = s[k]
  BY AppendProperties, LenProperties
<1> HIDE DEF n, t
<1>2. \A i \in 0 .. n : TokensIn(t, i) = TokensIn(s, i) BY <1>1 DEF TokensIn
<1>3. TokensIn(t, n + 1) = IF x = Token THEN TokensIn(s, n) \cup {n + 1} ELSE TokensIn(s, n)
  BY <1>1 DEF TokensIn
<1>4. n + 1 \notin TokensIn(s, n) BY <1>1 DEF TokensIn
<1>5. IsFiniteSet(TokensIn(s, n)) /\ Cardinality(TokensIn(s, n)) \in Nat
  <2>1. n \in Int BY <1>1
  <2>2. QED BY <2>1, TokensFinite
<1>6. Cardinality(TokensIn(t, n + 1)) = Cardinality(TokensIn(s, n)) + IF x = Token THEN 1 ELSE 0
  <2>1. CASE x = Token
    <3>1. Cardinality(TokensIn(s, n) \cup {n + 1}) = Cardinality(TokensIn(s, n)) + 1
      BY <1>4, <1>5, FS_AddElement
    <3>2. QED BY <1>3, <2>1, <3>1
  <2>2. CASE x # Token BY <1>3, <1>5, <2>2
  <2>3. QED BY <2>1, <2>2
<1>7. CountIn(t) = CountIn(s) + IF x = Token THEN 1 ELSE 0
  <2>1. CountIn(s) = Cardinality(TokensIn(s, n)) BY DEF CountIn, n
  <2>2. CountIn(t) = Cardinality(TokensIn(t, n + 1)) BY <1>1 DEF CountIn
  <2>3. QED BY <1>6, <2>1, <2>2
<1>8. \A k, i : IsNth(s, k, i) => IsNth(t, k, i)
  <2> SUFFICES ASSUME NEW k, NEW i, IsNth(s, k, i) PROVE IsNth(t, k, i) OBVIOUS
  <2>1. i \in 1 .. n /\ s[i] = Token /\ Cardinality(TokensIn(s, i)) = k BY DEF IsNth, n
  <2>2. i \in 0 .. n /\ i \in 1 .. n + 1 BY <1>1, <2>1
  <2>3. TokensIn(t, i) = TokensIn(s, i) /\ t[i] = s[i] BY <1>1, <1>2, <2>1, <2>2
  <2>4. QED BY <1>1, <2>1, <2>2, <2>3 DEF IsNth
<1>9. x = Token => IsNth(t, CountIn(s) + 1, n + 1)
  <2>1. CountIn(s) = Cardinality(TokensIn(s, n)) BY DEF CountIn, n
  <2>2. n + 1 \in 1 .. Len(t) BY <1>1
  <2>3. QED BY <1>1, <1>6, <2>1, <2>2 DEF IsNth
<1>10. QED BY <1>2, <1>7, <1>8, <1>9 DEF t, n

\* The part of s with one more byte that begins at a.
LEMMA SubSeqAppend ==
  ASSUME NEW S, NEW s \in Seq(S), NEW x \in S, NEW a \in Int, a >= 1
  PROVE  /\ \A b \in Int : b <= Len(s) => SubSeq(Append(s, x), a, b) = SubSeq(s, a, b)
         /\ a <= Len(s) + 1 =>
              SubSeq(Append(s, x), a, Len(s) + 1) = Append(SubSeq(s, a, Len(s)), x)
<1> DEFINE n == Len(s)
           t == Append(s, x)
<1>1. /\ n \in Nat /\ t \in Seq(S) /\ Len(t) = n + 1 /\ t[n + 1] = x
      /\ \A k \in 1 .. n : t[k] = s[k] /\ s[k] \in S
  BY AppendProperties, LenProperties, ElementOfSeq
<1> HIDE DEF n, t
<1>2. ASSUME NEW b \in Int, b <= n PROVE SubSeq(t, a, b) = SubSeq(s, a, b)
  <2>1. \A i \in a .. b : t[i] = s[i] /\ s[i] \in S BY <1>1, <1>2
  <2>2. /\ SubSeq(t, a, b) \in Seq(S) /\ SubSeq(s, a, b) \in Seq(S)
        /\ Len(SubSeq(t, a, b)) = Len(SubSeq(s, a, b))
        /\ Len(SubSeq(t, a, b)) = IF a <= b THEN b - a + 1 ELSE 0
        /\ \A i \in 1 .. b - a + 1 : /\ SubSeq(t, a, b)[i] = t[a + i - 1]
                                     /\ SubSeq(s, a, b)[i] = s[a + i - 1]
    BY <2>1, SubSeqProperties
  <2>3. \A i \in 1 .. Len(SubSeq(t, a, b)) : SubSeq(t, a, b)[i] = SubSeq(s, a, b)[i]
    <3>1. \A i \in 1 .. b - a + 1 : a + i - 1 \in a .. b OBVIOUS
    <3>2. QED BY <2>1, <2>2, <3>1
  <2>4. QED BY <2>2, <2>3, SeqEqual
<1>3. ASSUME a <= n + 1 PROVE SubSeq(t, a, n + 1) = Append(SubSeq(s, a, n), x)
  <2>1. a \in 1 .. Len(t) /\ n + 1 \in a .. Len(t) BY <1>1, <1>3
  <2>2. SubSeq(t, a, n + 1) = SubSeq(t, a, n + 1 - 1) \o << t[n + 1] >>
    BY <1>1, <2>1, SubSeqRecursiveSecond
  <2>3. n + 1 - 1 = n /\ SubSeq(t, a, n) = SubSeq(s, a, n) BY <1>1, <1>2
  <2>4. SubSeq(s, a, n) \in Seq(S) BY <1>1, SubSeqProperties
  <2>5. QED BY <1>1, <2>2, <2>3, <2>4, AppendIsConcat
<1>4. QED BY <1>2, <1>3 DEF n, t

\* Where the tokens of a stream are, when one more byte arrives.
LEMMA NthOfAppend ==
  ASSUME NEW S, NEW s \in Seq(S), NEW x \in S, Counted(s)
  PROVE  /\ Counted(Append(s, x)) /\ CountIn(s) \in Nat
         /\ \A k \in 0 .. CountIn(s) : /\ NthIn(Append(s, x), k) = NthIn(s, k)
                                       /\ NthIn(s, k) \in 0 .. Len(s)
         /\ x = Token => NthIn(Append(s, x), CountIn(s) + 1) = Len(s) + 1
<1> DEFINE n == Len(s)
           t == Append(s, x)
           c == CountIn(s)
<1>1. n \in Nat /\ t \in Seq(S) /\ Len(t) = n + 1 BY AppendProperties, LenProperties
<1>2. /\ CountIn(t) = c + IF x = Token THEN 1 ELSE 0
      /\ \A k, i : IsNth(s, k, i) => IsNth(t, k, i)
      /\ x = Token => IsNth(t, c + 1, n + 1)
  BY TokensOfAppend
<1>3. c \in Nat
  <2>1. n \in Int BY <1>1
  <2>2. QED BY <2>1, TokensFinite DEF CountIn
<1> HIDE DEF n, t, c
<1>4. \A k \in 1 .. c : \E i \in 1 .. n : IsNth(s, k, i) BY DEF Counted, c, n
<1>5. Counted(t)
  <2> SUFFICES ASSUME NEW k \in 1 .. CountIn(t) PROVE \E i \in 1 .. n + 1 : IsNth(t, k, i) BY <1>1 DEF Counted
  <2>1. CASE k \in 1 .. c
    <3>1. PICK i \in 1 .. n : IsNth(s, k, i) BY <1>4, <2>1
    <3>2. QED BY <1>1, <1>2, <3>1
  <2>2. CASE k = c + 1 /\ x = Token BY <1>1, <1>2, <2>2
  <2>3. QED BY <1>2, <1>3, <2>1, <2>2
<1>6. ASSUME NEW k \in 0 .. c PROVE NthIn(t, k) = NthIn(s, k) /\ NthIn(s, k) \in 0 .. n
  <2>1. CASE k = 0 BY <1>1, <2>1 DEF NthIn
  <2>2. CASE k > 0
    <3>1. PICK i \in 1 .. n : IsNth(s, k, i) BY <1>3, <1>4, <2>2
    <3>2. k \in Nat /\ i \in 1 .. n BY <1>3, <3>1 DEF IsNth, n
    <3>3. NthIn(s, k) = i BY <2>2, <3>1, <3>2, NthIs
    <3>4. NthIn(t, k) = i BY <1>1, <1>2, <2>2, <3>1, <3>2, NthIs
    <3>5. QED BY <1>1, <3>2, <3>3, <3>4
  <2>3. QED BY <1>3, <2>1, <2>2
<1>7. x = Token => NthIn(t, c + 1) = n + 1 BY <1>1, <1>2, <1>3, NthIs
<1>8. QED BY <1>3, <1>5, <1>6, <1>7 DEF n, t, c

\* One more byte of the stream lengthens the rest, one more token makes it a message.
LEMMA SplitOfAppend ==
  ASSUME NEW S, NEW s \in Seq(S), NEW x \in S, Counted(s)
  PROVE  /\ SplitOf(s) \in Seq(Seq(S)) /\ Len(SplitOf(s)) = CountIn(s) /\ RestOf(s) \in Seq(S)
         /\ x # Token => /\ SplitOf(Append(s, x)) = SplitOf(s)
                         /\ RestOf(Append(s, x)) = Append(RestOf(s), x)
         /\ x = Token => /\ SplitOf(Append(s, x)) = Append(SplitOf(s), RestOf(s))
                         /\ RestOf(Append(s, x)) = <<>>
<1> DEFINE n == Len(s)
           t == Append(s, x)
           c == CountIn(s)
<1>1. /\ n \in Nat /\ t \in Seq(S) /\ Len(t) = n + 1
      /\ \A k \in 1 .. n : s[k] \in S
  BY AppendProperties, LenProperties, ElementOfSeq
<1>2. CountIn(t) = c + IF x = Token THEN 1 ELSE 0 BY TokensOfAppend
<1>3. /\ c \in Nat
      /\ \A k \in 0 .. c : NthIn(t, k) = NthIn(s, k) /\ NthIn(s, k) \in 0 .. n
      /\ x = Token => NthIn(t, c + 1) = n + 1
  BY NthOfAppend
<1>4. \A a, b \in Int : a >= 1 /\ b <= n => SubSeq(t, a, b) = SubSeq(s, a, b)
  BY SubSeqAppend
<1>5. \A a \in Int : a >= 1 /\ a <= n + 1 => SubSeq(t, a, n + 1) = Append(SubSeq(s, a, n), x)
  BY SubSeqAppend
<1>6. \A a, b \in Int : a >= 1 /\ b <= n => SubSeq(s, a, b) \in Seq(S)
  BY <1>1, SubSeqProperties
<1>7. SplitOf(s) = [k \in 1 .. c |-> SubSeq(s, NthIn(s, k - 1) + 1, NthIn(s, k) - 1)]
      /\ RestOf(s) = SubSeq(s, NthIn(s, c) + 1, n)
  BY DEF SplitOf, RestOf
<1>8. SplitOf(t) = [k \in 1 .. CountIn(t) |-> SubSeq(t, NthIn(t, k - 1) + 1, NthIn(t, k) - 1)]
      /\ RestOf(t) = SubSeq(t, NthIn(t, CountIn(t)) + 1, n + 1)
  BY <1>1 DEF SplitOf, RestOf
<1> HIDE DEF n, t, c
<1>9. \A k \in 1 .. c :
        LET a == NthIn(s, k - 1) + 1
            b == NthIn(s, k) - 1
        IN  SubSeq(t, NthIn(t, k - 1) + 1, NthIn(t, k) - 1) = SubSeq(s, a, b)
            /\ SubSeq(s, a, b) \in Seq(S)
  <2> SUFFICES ASSUME NEW k \in 1 .. c
               PROVE  /\ SubSeq(t, NthIn(t, k - 1) + 1, NthIn(t, k) - 1)
                           = SubSeq(s, NthIn(s, k - 1) + 1, NthIn(s, k) - 1)
                      /\ SubSeq(s, NthIn(s, k - 1) + 1, NthIn(s, k) - 1) \in Seq(S)
    OBVIOUS
  <2>1. k \in 0 .. c /\ k - 1 \in 0 .. c BY <1>3
  <2>2. /\ NthIn(t, k) = NthIn(s, k) /\ NthIn(s, k) \in 0 .. n
        /\ NthIn(t, k - 1) = NthIn(s, k - 1) /\ NthIn(s, k - 1) \in 0 .. n
    BY <1>3, <2>1
  <2>3. /\ NthIn(s, k - 1) + 1 \in Int /\ NthIn(s, k) - 1 \in Int
        /\ NthIn(s, k - 1) + 1 >= 1 /\ NthIn(s, k) - 1 <= n
    BY <1>1, <2>2
  <2>4. QED BY <1>4, <1>6, <2>2, <2>3
<1>10. /\ NthIn(s, c) + 1 \in Int /\ NthIn(s, c) + 1 >= 1 /\ NthIn(s, c) + 1 <= n + 1
       /\ NthIn(t, c) = NthIn(s, c) /\ n \in Int /\ n <= n
  BY <1>1, <1>3
<1>11. RestOf(s) \in Seq(S) BY <1>6, <1>7, <1>10
<1>12. SplitOf(s) \in Seq(Seq(S)) /\ Len(SplitOf(s)) = c
  <2>1. SplitOf(s) \in [1 .. c -> Seq(S)] BY <1>7, <1>9
  <2>2. QED BY <1>3, <2>1
<1>13. ASSUME x # Token PROVE SplitOf(t) = SplitOf(s) /\ RestOf(t) = Append(RestOf(s), x)
  <2>1. CountIn(t) = c BY <1>2, <1>3, <1>13
  <2>2. SplitOf(t) = SplitOf(s) BY <1>7, <1>8, <1>9, <2>1
  <2>3. RestOf(t) = Append(RestOf(s), x) BY <1>5, <1>7, <1>8, <1>10, <2>1
  <2>4. QED BY <2>2, <2>3
<1>14. ASSUME x = Token PROVE SplitOf(t) = Append(SplitOf(s), RestOf(s)) /\ RestOf(t) = <<>>
  <2>1. CountIn(t) = c + 1 /\ NthIn(t, c + 1) = n + 1 BY <1>2, <1>3, <1>14
  <2>2. RestOf(t) = <<>>
    <3>1. RestOf(t) = SubSeq(t, n + 2, n + 1) BY <1>1, <1>8, <2>1
    <3>2. n + 2 \in Int /\ n + 1 \in Int /\ n + 1 < n + 2 BY <1>1
    <3>3. QED BY <3>1, <3>2, SubSeqEmpty
  <2> DEFINE u == Append(SplitOf(s), RestOf(s))
  <2>3. /\ u \in Seq(Seq(S)) /\ Len(u) = c + 1 /\ u[c + 1] = RestOf(s)
        /\ \A k \in 1 .. c : u[k] = SplitOf(s)[k]
    BY <1>3, <1>11, <1>12, AppendProperties
  <2> HIDE DEF u
  <2>4. SplitOf(t)[c + 1] = RestOf(s)
    <3>1. \A k \in 1 .. CountIn(t) :
            SplitOf(t)[k] = SubSeq(t, NthIn(t, k - 1) + 1, NthIn(t, k) - 1)
      BY <1>8
    <3>2. PICK m \in 1 .. CountIn(t) : m = c + 1 /\ m - 1 = c BY <1>3, <2>1
    <3>3. SplitOf(t)[m] = SubSeq(t, NthIn(t, c) + 1, n)
      <4>1. SplitOf(t)[m] = SubSeq(t, NthIn(t, m - 1) + 1, NthIn(t, m) - 1) BY <3>1
      <4>2. NthIn(t, m) - 1 = n BY <1>1, <2>1, <3>2
      <4>3. QED BY <3>2, <4>1, <4>2
    <3>4. QED BY <1>4, <1>7, <1>10, <3>2, <3>3
  <2>5. \A k \in 1 .. c : SplitOf(t)[k] = SplitOf(s)[k]
    <3>1. \A k \in 1 .. c : k \in 1 .. CountIn(t) BY <1>3, <2>1
    <3>2. QED BY <1>7, <1>8, <1>9, <3>1
  <2>6. \A k \in 1 .. c + 1 : SplitOf(t)[k] = u[k]
    <3>1. \A k \in 1 .. c + 1 : k \in 1 .. c \/ k = c + 1 BY <1>3
    <3>2. QED BY <2>3, <2>4, <2>5, <3>1
  <2>7. u = [k \in 1 .. c + 1 |-> u[k]] BY <2>3, LenProperties
  <2>8. SplitOf(t) = [k \in 1 .. c + 1 |-> SplitOf(t)[k]] BY <1>8, <2>1
  <2>9. SplitOf(t) = u BY <2>6, <2>7, <2>8
  <2>10. QED BY <2>2, <2>9 DEF u
<1>15. QED BY <1>11, <1>12, <1>13, <1>14 DEF n, t, c

-----------------------------------------------------------------------------
(***************************************************************************)
(* The loop of Add, a turn at a time.                                      *)
(***************************************************************************)

\* A set of naturals that is not empty has a least element.
LEMMA LeastNatural ==
  ASSUME NEW B \in SUBSET Nat, B # {}
  PROVE  \E m \in B : \A k \in B : m <= k
<1> DEFINE R == {ss \in Nat \X Nat : ss[1] < ss[2]}
<1>1. IsWellFoundedOn(R, Nat) BY NatLessThanWellFounded DEF OpToRel
<1> HIDE DEF R
<1>2. PICK m \in B : \A k \in B : ~(<<k, m>> \in R) BY <1>1, WFMin
<1>3. \A k \in B : ~(k < m) BY <1>2 DEF R
<1>4. QED BY <1>3

\* The loop's variables before the first byte; f gives them after each of n turns.
LoopStart == [start |-> 1, cur |-> currentData, report |-> <<>>, err |-> FALSE]
IsLoop(data, n, f) ==
  f = [i \in 0 .. n |-> IF i = 0 THEN LoopStart ELSE T!Step(data, i, f[i - 1])]

\* The loop can be run for any number of turns.
LEMMA LoopExists ==
  ASSUME NEW data, NEW n \in Nat
  PROVE  \E f : IsLoop(data, n, f)
<1> DEFINE B == {m \in Nat : ~\E f : IsLoop(data, m, f)}
<1> SUFFICES ASSUME B # {} PROVE FALSE OBVIOUS
<1>1. PICK m \in B : \A k \in B : m <= k BY LeastNatural
<1>2. CASE m = 0
  <2> DEFINE f == [i \in 0 .. 0 |-> LoopStart]
  <2>1. IsLoop(data, 0, f) BY DEF IsLoop
  <2>2. QED BY <1>1, <1>2, <2>1
<1>3. CASE m > 0
  <2>1. m - 1 \in Nat /\ m - 1 \notin B BY <1>1, <1>3
  <2>2. PICK g : IsLoop(data, m - 1, g) BY <2>1
  <2> DEFINE f == [i \in 0 .. m |-> IF i = m THEN T!Step(data, m, g[m - 1]) ELSE g[i]]
  <2>3. \A i \in 0 .. m - 1 : g[i] = IF i = 0 THEN LoopStart ELSE T!Step(data, i, g[i - 1])
    BY <2>2 DEF IsLoop
  <2>4. \A i \in 0 .. m - 1 : i \in 0 .. m /\ i # m /\ (i # 0 => i - 1 \in 0 .. m - 1)
    BY <1>1, <1>3
  <2>5. /\ f[m] = T!Step(data, m, g[m - 1]) /\ f = [i \in 0 .. m |-> f[i]]
        /\ \A i \in 0 .. m - 1 : f[i] = g[i]
    BY <1>1, <2>4
  <2>6. m - 1 \in 0 .. m - 1 /\ m # 0 /\ f[m - 1] = g[m - 1] BY <1>1, <1>3, <2>4, <2>5
  <2> HIDE DEF f
  <2>7. \A i \in 0 .. m : f[i] = IF i = 0 THEN LoopStart ELSE T!Step(data, i, f[i - 1])
    <3> SUFFICES ASSUME NEW i \in 0 .. m
                 PROVE  f[i] = IF i = 0 THEN LoopStart ELSE T!Step(data, i, f[i - 1])
      OBVIOUS
    <3>1. CASE i = m BY <2>5, <2>6, <3>1
    <3>2. CASE i # m
      <4>1. i \in 0 .. m - 1 BY <1>1, <3>2
      <4>2. f[i] = g[i] /\ (i # 0 => f[i - 1] = g[i - 1]) BY <2>4, <2>5, <4>1
      <4>3. QED BY <2>3, <4>1, <4>2
    <3>3. QED BY <3>1, <3>2
  <2>8. IsLoop(data, m, f) BY <2>5, <2>7 DEF IsLoop
  <2>9. QED BY <1>1, <2>8
<1>4. QED BY <1>1, <1>2, <1>3

\* What Add leaves is what the loop has after the last byte.
LEMMA ScanIsLoop ==
  ASSUME NEW S, NEW data \in Seq(S)
  PROVE  \E f : IsLoop(data, Len(data), f) /\ T!Scan(data) = f[Len(data)]
<1>1. Len(data) \in Nat BY LenProperties
<1> DEFINE f == CHOOSE f : IsLoop(data, Len(data), f)
<1>2. IsLoop(data, Len(data), f) BY <1>1, LoopExists
<1>3. T!Scan(data) = f[Len(data)] BY DEF T!Scan, IsLoop, LoopStart
<1>4. QED BY <1>2, <1>3

Bytes == Letters \union {Token}

\* The stream after i bytes of data, and what the loop keeps of it.
FedTo(data, i) == fed \o SubSeq(data, 1, i)
Pending(data, i, s) ==
  IF i > 0 /\ i = Len(data) /\ data[i] # Token THEN s.cur
  ELSE s.cur \o SubSeq(data, s.start, i)

LoopVars == [start : Nat, cur : Seq(Letters), report : Seq(Seq(Letters)), err : BOOLEAN]

\* Nothing is longer than the limit.
WithinLimit(cur, messages) ==
  MaxSize # 0 => Len(cur) <= MaxSize /\ \A k \in 1 .. Len(messages) : Len(messages[k]) <= MaxSize

\* After i turns s has the messages of the stream so far, and start is behind its last
\* token; the contents are exact as long as no segment was short.
LoopInv(data, i, s) ==
  /\ s \in LoopVars
  /\ MaxSize = 0 => ~s.err
  /\ WithinLimit(s.cur, s.report)
  /\ ~s.err =>
       /\ s.start \in 1 .. i + 1 /\ (s.start = 1 \/ data[s.start - 1] = Token)
       /\ \A j \in s.start .. i : data[j] # Token
       /\ Counted(FedTo(data, i))
       /\ Len(out) + Len(s.report) = CountIn(FedTo(data, i))
       /\ MaxSize = 0 /\ ~short /\ ~T!HasShortSegment(data) =>
            /\ out \o s.report = SplitOf(FedTo(data, i))
            /\ Pending(data, i, s) = RestOf(FedTo(data, i))

TokenizerInv ==
  /\ T!TypeOK /\ MaxSize \in MaxSizes
  /\ WithinLimit(currentData, out)
  /\ Counted(fed) /\ Len(out) = CountIn(fed)
  /\ MaxSize = 0 /\ ~short => out = SplitOf(fed) /\ currentData = RestOf(fed)

\* Appending to the second part appends to the whole.
LEMMA AppendToConcat ==
  ASSUME NEW S, NEW a \in Seq(S), NEW b \in Seq(S), NEW x \in S
  PROVE  \A c : c = Append(a \o b, x) => c = a \o Append(b, x)
<1>1. << x >> \in Seq(S) OBVIOUS
<1>2. Append(b, x) = b \o << x >> BY AppendIsConcat
<1>3. a \o b \in Seq(S) BY ConcatProperties
<1>4. Append(a \o b, x) = (a \o b) \o << x >> BY <1>3, AppendIsConcat
<1>5. (a \o b) \o << x >> = a \o (b \o << x >>) BY <1>1, ConcatAssociative
<1>6. QED BY <1>2, <1>4, <1>5

\* Turn i appends byte i to the stream and to what is pending.
LEMMA ByteArrives ==
  ASSUME NEW data \in Seq(Bytes), fed \in Seq(Bytes), NEW i \in 1 .. Len(data)
  PROVE  /\ FedTo(data, i - 1) \in Seq(Bytes)
         /\ FedTo(data, i) = Append(FedTo(data, i - 1), data[i])
         /\ \A cur \in Seq(Letters), start \in 1 .. i :
              cur \o SubSeq(data, start, i) = Append(cur \o SubSeq(data, start, i - 1), data[i])
<1>1. /\ Len(data) \in Nat /\ i \in Int /\ data[i] \in Bytes
      /\ \A k \in 1 .. Len(data) : data[k] \in Bytes
  BY LenProperties, ElementOfSeq
<1>2. ASSUME NEW cur \in Seq(Bytes), NEW start \in 1 .. i
      PROVE  /\ cur \o SubSeq(data, start, i - 1) \in Seq(Bytes)
             /\ cur \o SubSeq(data, start, i) = Append(cur \o SubSeq(data, start, i - 1), data[i])
  <2>1. start \in 1 .. Len(data) /\ i \in start .. Len(data) BY <1>1
  <2>2. SubSeq(data, start, i) = SubSeq(data, start, i - 1) \o << data[i] >>
    BY <2>1, SubSeqRecursiveSecond
  <2>3. SubSeq(data, start, i - 1) \in Seq(Bytes)
    <3>1. \A k \in start .. i - 1 : data[k] \in Bytes BY <1>1, <2>1
    <3>2. QED BY <1>1, <2>1, <3>1, SubSeqProperties
  <2>4. << data[i] >> \in Seq(Bytes) BY <1>1
  <2>5. cur \o SubSeq(data, start, i - 1) \in Seq(Bytes) BY <2>3, ConcatProperties
  <2>6. cur \o SubSeq(data, start, i) = (cur \o SubSeq(data, start, i - 1)) \o << data[i] >>
    BY <2>2, <2>3, <2>4, ConcatAssociative
  <2>7. QED BY <1>1, <2>5, <2>6, AppendIsConcat
<1>3. \A cur \in Seq(Letters) : cur \in Seq(Bytes)
  <2>1. Letters \subseteq Bytes BY DEF Bytes
  <2>2. QED BY <2>1, SeqMonotonic
<1>4. 1 \in 1 .. i BY <1>1
<1>5. QED BY <1>2, <1>3, <1>4 DEF FedTo

\* What stands before the next token are letters, and all of it unless it is one byte.
LEMMA SegmentIs ==
  ASSUME NEW data \in Seq(Bytes), NEW i \in 1 .. Len(data), NEW start \in 1 .. i,
         \A j \in start .. i - 1 : data[j] # Token
  PROVE  /\ SubSeq(data, start, i - 1) \in Seq(Letters)
         /\ data[i] # Token => SubSeq(data, start, i) \in Seq(Letters)
         /\ T!Segment(data, start, i) \in Seq(Letters)
         /\ (/\ data[i] = Token /\ (start = 1 \/ data[start - 1] = Token)
             /\ ~T!HasShortSegment(data)) =>
              T!Segment(data, start, i) = SubSeq(data, start, i - 1)
<1>1. /\ Len(data) \in Nat /\ i \in Int /\ start \in Int
      /\ \A k \in 1 .. Len(data) : data[k] \in Bytes
  BY LenProperties, ElementOfSeq
<1>2. \A j \in start .. i - 1 : data[j] \in Letters BY <1>1 DEF Bytes
<1>3. SubSeq(data, start, i - 1) \in Seq(Letters) BY <1>1, <1>2, SubSeqProperties
<1>4. ASSUME data[i] # Token PROVE SubSeq(data, start, i) \in Seq(Letters)
  <2>1. data[i] \in Letters BY <1>1, <1>4 DEF Bytes
  <2>2. \A j \in start .. i : data[j] \in Letters BY <1>1, <1>2, <2>1
  <2>3. QED BY <1>1, <2>2, SubSeqProperties
<1>5. T!Segment(data, start, i) \in Seq(Letters) BY <1>3 DEF T!Segment
<1>6. ASSUME data[i] = Token, start = 1 \/ data[start - 1] = Token, ~T!HasShortSegment(data)
      PROVE  T!Segment(data, start, i) = SubSeq(data, start, i - 1)
  <2>1. CASE i - 1 > start BY <2>1 DEF T!Segment
  <2>2. CASE i - 1 = start
    <3>1. start \in 1 .. Len(data) - 1 /\ data[start] # Token /\ data[start + 1] = Token
      BY <1>1, <1>6, <2>2
    <3>2. QED BY <1>6, <3>1 DEF T!HasShortSegment
  <2>3. CASE i - 1 < start
    <3>1. SubSeq(data, start, i - 1) = <<>> BY <1>1, <2>3, SubSeqEmpty
    <3>2. QED BY <1>1, <2>3, <3>1 DEF T!Segment
  <2>4. QED BY <1>1, <2>1, <2>2, <2>3
<1>7. QED BY <1>3, <1>4, <1>5, <1>6

\* A turn keeps the invariant.
LEMMA LoopStep ==
  ASSUME TokenizerInv, NEW data \in Seq(Bytes), NEW i \in 1 .. Len(data), NEW s,
         LoopInv(data, i - 1, s)
  PROVE  LoopInv(data, i, T!Step(data, i, s))
<1> DEFINE before == FedTo(data, i - 1)
           after == FedTo(data, i)
           exact == MaxSize = 0 /\ ~short /\ ~T!HasShortSegment(data)
           grown == s.cur \o IF data[i] = Token THEN T!Segment(data, s.start, i)
                             ELSE SubSeq(data, s.start, i)
           r == T!Step(data, i, s)
<1>1. /\ s \in LoopVars /\ i \in Nat /\ Len(data) \in Nat /\ MaxSize \in Nat
      /\ fed \in Seq(Bytes) /\ out \in Seq(Seq(Letters)) /\ data[i] \in Bytes
  BY TokenizerAssumption, LenProperties, ElementOfSeq
  DEF LoopInv, TokenizerInv, T!TypeOK, Bytes
<1>2. CASE s.err
  <2>1. r = s BY <1>2 DEF T!Step
  <2>2. QED BY <1>2, <2>1 DEF LoopInv
<1>3. CASE ~s.err
  <2>1. /\ s.start \in 1 .. i /\ (s.start = 1 \/ data[s.start - 1] = Token)
        /\ \A j \in s.start .. i - 1 : data[j] # Token
        /\ Counted(before) /\ Len(out) + Len(s.report) = CountIn(before)
        /\ exact => /\ out \o s.report = SplitOf(before)
                    /\ Pending(data, i - 1, s) = RestOf(before)
    BY <1>1, <1>3 DEF LoopInv
  <2>2. /\ before \in Seq(Bytes) /\ after = Append(before, data[i])
        /\ s.cur \o SubSeq(data, s.start, i) = Append(s.cur \o SubSeq(data, s.start, i - 1), data[i])
    BY <1>1, <2>1, ByteArrives DEF LoopVars
  <2>3. Pending(data, i - 1, s) = s.cur \o SubSeq(data, s.start, i - 1)
    <3>1. i - 1 # Len(data) BY <1>1
    <3>2. QED BY <3>1, Zenon DEF Pending
  <2>4. /\ Counted(after) /\ CountIn(before) \in Nat
        /\ CountIn(after) = CountIn(before) + IF data[i] = Token THEN 1 ELSE 0
    BY <1>1, <2>1, <2>2, NthOfAppend, TokensOfAppend
  <2>5. /\ data[i] # Token => /\ SplitOf(after) = SplitOf(before)
                              /\ RestOf(after) = Append(RestOf(before), data[i])
        /\ data[i] = Token => /\ SplitOf(after) = Append(SplitOf(before), RestOf(before))
                              /\ RestOf(after) = <<>>
    <3> HIDE DEF before, after
    <3>1. \A x \in Bytes :
            /\ x # Token => /\ SplitOf(Append(before, x)) = SplitOf(before)
                            /\ RestOf(Append(before, x)) = Append(RestOf(before), x)
            /\ x = Token => /\ SplitOf(Append(before, x)) = Append(SplitOf(before), RestOf(before))
                            /\ RestOf(Append(before, x)) = <<>>
      <4>1. before \in Seq(Bytes) /\ Counted(before) BY <2>1, <2>2
      <4>2. QED BY <4>1, SplitOfAppend
    <3>2. QED BY <1>1, <2>2, <3>1, Zenon
  <2>6. /\ SubSeq(data, s.start, i - 1) \in Seq(Letters)
        /\ data[i] # Token => SubSeq(data, s.start, i) \in Seq(Letters)
        /\ T!Segment(data, s.start, i) \in Seq(Letters)
        /\ data[i] = Token /\ ~T!HasShortSegment(data) =>
             T!Segment(data, s.start, i) = SubSeq(data, s.start, i - 1)
    BY <2>1, SegmentIs
  <2>7. s.cur \in Seq(Letters) /\ s.report \in Seq(Seq(Letters)) /\ s.start \in Nat
    BY <1>1 DEF LoopVars
  <2>8. grown \in Seq(Letters) BY <2>6, <2>7, ConcatProperties
  <2> HIDE DEF before, after, exact, grown, r
  <2>9. CASE data[i] # Token /\ i < Len(data)
    <3>1. r = s BY <2>9 DEF r, T!Step
    <3>2. Pending(data, i, s) = Append(Pending(data, i - 1, s), data[i])
      <4>1. i # Len(data) BY <1>1, <2>9
      <4>2. Pending(data, i, s) = s.cur \o SubSeq(data, s.start, i) BY <4>1, Zenon DEF Pending
      <4>3. QED BY <2>2, <2>3, <4>2
    <3>3. \A j \in s.start .. i : data[j] # Token BY <1>1, <2>1, <2>7, <2>9
    <3>4. s.start \in 1 .. i + 1 BY <1>1, <2>1
    <3>5. exact => out \o s.report = SplitOf(after) /\ Pending(data, i, s) = RestOf(after)
      BY <2>1, <2>5, <2>9, <3>2
    <3>6. Len(out) + Len(s.report) = CountIn(after) BY <2>1, <2>4, <2>9
    <3>7. LoopInv(data, i, s)
      BY <1>3, <2>1, <2>4, <3>3, <3>4, <3>5, <3>6 DEF LoopInv, after, exact
    <3>8. QED BY <3>1, <3>7 DEF r
  <2>10. CASE (data[i] = Token \/ i = Len(data)) /\ T!OverLimit(grown)
    <3>1. r = [s EXCEPT !.err = TRUE, !.cur = <<>>, !.report = <<>>]
      BY <1>1, <1>3, <2>10 DEF r, T!Step, grown
    <3>2. MaxSize # 0 BY <2>10 DEF T!OverLimit
    <3>3. r \in LoopVars /\ r.err /\ r.cur = <<>> /\ r.report = <<>>
      <4>1. <<>> \in Seq(Letters) /\ <<>> \in Seq(Seq(Letters)) OBVIOUS
      <4>2. QED BY <1>1, <3>1, <4>1 DEF LoopVars
    <3>4. WithinLimit(r.cur, r.report) BY <1>1, <3>3 DEF WithinLimit
    <3>5. LoopInv(data, i, r) BY <3>2, <3>3, <3>4 DEF LoopInv
    <3>6. QED BY <3>5 DEF r
  <2>11. CASE data[i] # Token /\ i = Len(data) /\ ~T!OverLimit(grown)
    <3>1. r = [s EXCEPT !.cur = grown] BY <1>1, <1>3, <2>11 DEF r, T!Step, grown
    <3>2. /\ r \in LoopVars /\ r.cur = grown /\ r.report = s.report /\ r.start = s.start
          /\ r.err = s.err
      BY <1>1, <2>8, <3>1 DEF LoopVars
    <3>3. WithinLimit(r.cur, r.report)
      <4>1. WithinLimit(s.cur, s.report) BY DEF LoopInv
      <4>2. Len(grown) \in Nat BY <2>8, LenProperties
      <4>3. MaxSize # 0 => Len(grown) <= MaxSize BY <1>1, <2>11, <4>2 DEF T!OverLimit
      <4>4. QED BY <3>2, <4>1, <4>3 DEF WithinLimit
    <3>4. Pending(data, i, r) = Append(Pending(data, i - 1, s), data[i])
      <4>1. Pending(data, i, r) = grown BY <1>1, <2>11, <3>2 DEF Pending
      <4>2. grown = s.cur \o SubSeq(data, s.start, i) BY <2>11 DEF grown
      <4>3. QED BY <2>2, <2>3, <4>1, <4>2
    <3>5. \A j \in s.start .. i : data[j] # Token BY <1>1, <2>1, <2>7, <2>11
    <3>6. s.start \in 1 .. i + 1 BY <1>1, <2>1
    <3>7. exact => out \o s.report = SplitOf(after) /\ Pending(data, i, r) = RestOf(after)
      BY <2>1, <2>5, <2>11, <3>4
    <3>8. Len(out) + Len(s.report) = CountIn(after) BY <2>1, <2>4, <2>11
    <3> HIDE DEF WithinLimit
    <3>9. LoopInv(data, i, r)
      BY <1>3, <2>1, <2>4, <3>2, <3>3, <3>5, <3>6, <3>7, <3>8 DEF LoopInv, after, exact
    <3>10. QED BY <3>9 DEF r
  <2>12. CASE data[i] = Token /\ ~T!OverLimit(grown)
    <3>1. r = [s EXCEPT !.start = i + 1, !.cur = <<>>, !.report = Append(s.report, grown)]
      BY <1>1, <1>3, <2>12 DEF r, T!Step, T!Reported, grown
    <3>2. /\ Append(s.report, grown) \in Seq(Seq(Letters))
          /\ Len(Append(s.report, grown)) = Len(s.report) + 1
          /\ Append(s.report, grown)[Len(s.report) + 1] = grown
          /\ \A k \in 1 .. Len(s.report) : Append(s.report, grown)[k] = s.report[k]
          /\ Len(s.report) \in Nat
      BY <2>7, <2>8, AppendProperties, LenProperties
    <3>3. /\ r \in LoopVars /\ r.cur = <<>> /\ r.report = Append(s.report, grown)
          /\ r.start = i + 1 /\ r.err = s.err
      <4> DEFINE report == Append(s.report, grown)
      <4>1. <<>> \in Seq(Letters) /\ i + 1 \in Nat BY <1>1
      <4>2. report \in Seq(Seq(Letters)) BY <3>2
      <4>3. r = [s EXCEPT !.start = i + 1, !.cur = <<>>, !.report = report] BY <3>1
      <4> HIDE DEF report
      <4>4. /\ r \in LoopVars /\ r.cur = <<>> /\ r.report = report
            /\ r.start = i + 1 /\ r.err = s.err
        BY <1>1, <4>1, <4>2, <4>3 DEF LoopVars
      <4>5. QED BY <4>4 DEF report
    <3>4. WithinLimit(r.cur, r.report)
      <4>1. WithinLimit(s.cur, s.report) BY DEF LoopInv
      <4>2. Len(grown) \in Nat BY <2>8, LenProperties
      <4>3. MaxSize # 0 => Len(grown) <= MaxSize BY <1>1, <2>12, <4>2 DEF T!OverLimit
      <4>4. \A k \in 1 .. Len(s.report) + 1 : k \in 1 .. Len(s.report) \/ k = Len(s.report) + 1
        BY <3>2
      <4>5. QED BY <1>1, <3>2, <3>3, <4>1, <4>3, <4>4 DEF WithinLimit
    <3>5. Pending(data, i, r) = <<>>
      <4>1. SubSeq(data, i + 1, i) = <<>> BY <1>1, SubSeqEmpty
      <4>2. Pending(data, i, r) = <<>> \o SubSeq(data, i + 1, i) BY <2>12, <3>3 DEF Pending
      <4>3. QED BY <4>1, <4>2
    <3>6. exact => out \o r.report = SplitOf(after) /\ Pending(data, i, r) = RestOf(after)
      <4>1. ASSUME exact PROVE out \o r.report = SplitOf(after)
        <5>1. grown = Pending(data, i - 1, s)
          BY <2>3, <2>6, <2>12, <4>1 DEF grown, exact
        <5>2. SplitOf(after) = Append(out \o s.report, grown)
          BY <2>1, <2>5, <2>12, <4>1, <5>1
        <5>3. Append(out \o s.report, grown) = out \o Append(s.report, grown)
          <6>1. out \in Seq(Seq(Letters)) /\ s.report \in Seq(Seq(Letters)) BY <1>1, <2>7
          <6>2. QED BY ONLY <2>8, <6>1, AppendToConcat
        <5>4. QED BY <3>3, <5>2, <5>3
      <4>2. QED BY <2>5, <2>12, <3>5, <4>1
    <3>7. Len(out) + Len(r.report) = CountIn(after)
      <4>1. Len(out) \in Nat BY <1>1, LenProperties
      <4>2. QED BY <2>1, <2>4, <2>12, <3>2, <3>3, <4>1
    <3>8. r.start \in 1 .. i + 1 /\ data[r.start - 1] = Token BY <1>1, <2>12, <3>3
    <3>9. \A j \in r.start .. i : data[j] # Token BY <1>1, <3>3
    <3>10. LoopInv(data, i, r)
      BY <1>3, <2>4, <3>3, <3>4, <3>6, <3>7, <3>8, <3>9 DEF LoopInv, after, exact
    <3>11. QED BY <3>10 DEF r
  <2>13. QED BY <1>1, <2>9, <2>10, <2>11, <2>12
<1>4. QED BY <1>2, <1>3

\* Every turn keeps it, so it holds after the last.
LEMMA LoopHolds ==
  ASSUME TokenizerInv, NEW data \in Seq(Bytes), NEW f, IsLoop(data, Len(data), f)
  PROVE  LoopInv(data, Len(data), f[Len(data)])
<1> DEFINE n == Len(data)
           B == {i \in Nat : i \in 0 .. n /\ ~LoopInv(data, i, f[i])}
<1>1. n \in Nat /\ MaxSize \in Nat BY TokenizerAssumption, LenProperties DEF TokenizerInv
<1>2. \A i \in 0 .. n : f[i] = IF i = 0 THEN LoopStart ELSE T!Step(data, i, f[i - 1])
  BY DEF IsLoop
<1> SUFFICES ASSUME B # {} PROVE FALSE BY <1>1
<1>3. PICK m \in B : \A k \in B : m <= k BY LeastNatural
<1>4. m \in 0 .. n /\ m \in Nat /\ ~LoopInv(data, m, f[m]) BY <1>3
<1>5. CASE m = 0
  <2> DEFINE s == LoopStart
  <2>1. f[0] = s BY <1>2, <1>4, <1>5
  <2>2. /\ currentData \in Seq(Letters) /\ fed \in Seq(Bytes) /\ out \in Seq(Seq(Letters))
        /\ WithinLimit(currentData, out) /\ Counted(fed) /\ Len(out) = CountIn(fed)
        /\ MaxSize = 0 /\ ~short => out = SplitOf(fed) /\ currentData = RestOf(fed)
    BY DEF TokenizerInv, T!TypeOK, Bytes
  <2>3. /\ s.start = 1 /\ s.cur = currentData /\ s.report = <<>> /\ ~s.err
        /\ s \in LoopVars
    <3>1. <<>> \in Seq(Seq(Letters)) OBVIOUS
    <3>2. QED BY <2>2, <3>1 DEF LoopStart, LoopVars
  <2> HIDE DEF s
  <2>4. SubSeq(data, 1, 0) = <<>> BY SubSeqEmpty
  <2>5. FedTo(data, 0) = fed BY <2>2, <2>4, ConcatEmptySeq DEF FedTo
  <2>6. Pending(data, 0, s) = currentData BY <2>2, <2>3, <2>4, ConcatEmptySeq DEF Pending
  <2>7. out \o s.report = out BY <2>2, <2>3, ConcatEmptySeq
  <2>8. Len(out) + Len(s.report) = CountIn(fed)
    <3>1. Len(out) \in Nat BY <2>2, LenProperties
    <3>2. Len(s.report) = 0 BY <2>3
    <3>3. QED BY <2>2, <3>1, <3>2
  <2>9. WithinLimit(s.cur, s.report) BY <2>2, <2>3 DEF WithinLimit
  <2>10. s.start \in 1 .. 0 + 1 /\ \A j \in s.start .. 0 : data[j] # Token BY <2>3
  <2>11. LoopInv(data, 0, s)
    BY <2>2, <2>3, <2>5, <2>6, <2>7, <2>8, <2>9, <2>10 DEF LoopInv
  <2>12. QED BY <1>4, <1>5, <2>1, <2>11
<1>6. CASE m # 0
  <2>1. m - 1 \in 0 .. n /\ m - 1 \in Nat /\ m \in 1 .. n BY <1>1, <1>4, <1>6
  <2>2. m - 1 \notin B
    <3>1. ~(m <= m - 1) BY <1>4
    <3>2. QED BY <1>3, <3>1
  <2>3. LoopInv(data, m - 1, f[m - 1]) BY <2>1, <2>2
  <2>4. LoopInv(data, m, T!Step(data, m, f[m - 1])) BY <2>1, <2>3, LoopStep
  <2>5. f[m] = T!Step(data, m, f[m - 1]) BY <1>2, <1>4, <1>6
  <2>6. QED BY <1>4, <2>4, <2>5
<1>7. QED BY <1>5, <1>6

\* Nothing is pending behind the last byte of a buffer but what is kept.
LEMMA NothingPending ==
  ASSUME NEW data \in Seq(Bytes), NEW s, s \in LoopVars, s.start \in 1 .. Len(data) + 1,
         \A j \in s.start .. Len(data) : data[j] # Token
  PROVE  Pending(data, Len(data), s) = s.cur
<1> DEFINE n == Len(data)
<1>1. n \in Nat /\ s.cur \in Seq(Letters) BY LenProperties DEF LoopVars
<1>2. CASE n > 0 /\ data[n] # Token BY <1>2 DEF Pending
<1>3. CASE ~(n > 0 /\ data[n] # Token)
  <2>1. s.start > n
    <3>1. CASE n = 0 BY <1>1, <3>1
    <3>2. CASE n > 0 /\ data[n] = Token BY <1>1, <3>2
    <3>3. QED BY <1>1, <1>3, <3>1, <3>2
  <2>2. SubSeq(data, s.start, n) = <<>> BY <1>1, <2>1, SubSeqEmpty
  <2>3. Pending(data, n, s) = s.cur \o SubSeq(data, s.start, n) BY <1>3, Zenon DEF Pending
  <2>4. QED BY <1>1, <2>2, <2>3, ConcatEmptySeq
<1>4. QED BY <1>2, <1>3

\* An empty stream has no message.
LEMMA EmptyStream ==
  /\ Counted(<<>>) /\ CountIn(<<>>) = 0
  /\ SplitOf(<<>>) = <<>> /\ RestOf(<<>>) = <<>>
<1>1. TokensIn(<<>>, 0) = {} BY DEF TokensIn
<1>2. CountIn(<<>>) = 0 BY <1>1, FS_EmptySet DEF CountIn
<1>3. SplitOf(<<>>) = <<>>
  <2>1. SplitOf(<<>>) = [k \in 1 .. 0 |-> SubSeq(<<>>, NthIn(<<>>, k - 1) + 1, NthIn(<<>>, k) - 1)]
    BY <1>2 DEF SplitOf
  <2>2. 1 .. 0 = {} OBVIOUS
  <2>3. QED BY <2>1, <2>2
<1>4. RestOf(<<>>) = <<>>
  <2>1. NthIn(<<>>, 0) = 0 BY DEF NthIn
  <2>2. RestOf(<<>>) = SubSeq(<<>>, 1, 0) BY <1>2, <2>1 DEF RestOf
  <2>3. QED BY <2>2, SubSeqEmpty
<1>5. QED BY <1>2, <1>3, <1>4 DEF Counted

\* A buffer keeps the invariant, whether it is reported, kept or too large.
LEMMA AddKeeps ==
  ASSUME TokenizerInv, NEW data \in T!Chunks, Len(fed) + Len(data) <= MaxFed, T!Add(data)
  PROVE  TokenizerInv'
<1>1. data \in Seq(Bytes) BY TokenizerAssumption DEF T!Chunks, Bytes
<1> DEFINE n == Len(data)
           s == T!Scan(data)
           t == fed \o data
<1>2. LoopInv(data, n, s)
  <2>1. PICK f : IsLoop(data, n, f) /\ s = f[n] BY <1>1, ScanIsLoop
  <2>2. QED BY <1>1, <2>1, LoopHolds
<1>3. /\ currentData' = s.cur /\ tooLarge' = s.err
      /\ fed' = IF s.err THEN <<>> ELSE t
      /\ out' = IF s.err THEN <<>> ELSE out \o s.report
      /\ short' = (short \/ T!HasShortSegment(data)) /\ MaxSize' = MaxSize
  BY DEF T!Add
<1>4. /\ n \in Nat /\ MaxSize \in MaxSizes /\ MaxSize \in Nat /\ MaxFed \in Nat
      /\ s \in LoopVars /\ s.cur \in Seq(Letters) /\ s.report \in Seq(Seq(Letters)) /\ s.err \in BOOLEAN
      /\ out \in Seq(Seq(Letters)) /\ fed \in Seq(Bytes)
      /\ Bytes = Letters \union {Token} /\ short \in BOOLEAN
  BY <1>1, <1>2, TokenizerAssumption, LenProperties
  DEF LoopInv, LoopVars, TokenizerInv, T!TypeOK, Bytes
<1> HIDE DEF s, n
<1>5. CASE s.err
  <2>1. MaxSize # 0 /\ WithinLimit(s.cur, s.report) BY <1>2, <1>5 DEF LoopInv
  <2>2. fed' = <<>> /\ out' = <<>> BY <1>3, <1>5
  <2>3. Counted(fed') /\ Len(out') = CountIn(fed')
    <3>1. Len(out') = 0 BY <2>2
    <3>2. QED BY <2>2, <3>1, EmptyStream
  <2>4. WithinLimit(currentData, out)'
    <3>1. Len(out') = 0 BY <2>2
    <3>2. QED BY <1>3, <2>1, <3>1 DEF WithinLimit
  <2>5. T!TypeOK'
    <3>1. Len(fed') = 0 BY <2>2
    <3>2. <<>> \in Seq(Letters \union {Token}) /\ <<>> \in Seq(Seq(Letters)) OBVIOUS
    <3>3. {tooLarge', short'} \subseteq BOOLEAN BY <1>3, <1>4
    <3>4. QED BY <1>3, <1>4, <2>2, <3>1, <3>2, <3>3 DEF T!TypeOK
  <2>6. QED BY <1>3, <1>4, <2>1, <2>3, <2>4, <2>5 DEF TokenizerInv
<1>6. CASE ~s.err
  <2>1. fed' = t /\ out' = out \o s.report BY <1>3, <1>6
  <2>2. t \in Seq(Bytes) /\ Len(t) = Len(fed) + n BY <1>1, <1>4, ConcatProperties DEF n
  <2>3. FedTo(data, n) = t BY <1>1, SubSeqFull DEF FedTo, n
  <2>4. /\ s.start \in 1 .. n + 1 /\ \A j \in s.start .. n : data[j] # Token
        /\ Counted(t) /\ Len(out) + Len(s.report) = CountIn(t)
        /\ MaxSize = 0 /\ ~short /\ ~T!HasShortSegment(data) =>
             out \o s.report = SplitOf(t) /\ Pending(data, n, s) = RestOf(t)
    BY <1>2, <1>6, <2>3 DEF LoopInv
  <2>5. Pending(data, n, s) = s.cur BY <1>1, <1>4, <2>4, NothingPending DEF n
  <2>6. /\ out' \in Seq(Seq(Letters)) /\ Len(out') = Len(out) + Len(s.report)
        /\ \A k \in 1 .. Len(out) + Len(s.report) :
             out'[k] = IF k <= Len(out) THEN out[k] ELSE s.report[k - Len(out)]
        /\ Len(out) \in Nat /\ Len(s.report) \in Nat
    BY <1>4, <2>1, ConcatProperties, LenProperties
  <2>7. WithinLimit(currentData, out)'
    <3>1. WithinLimit(currentData, out) /\ WithinLimit(s.cur, s.report)
      BY <1>2 DEF LoopInv, TokenizerInv
    <3>2. ASSUME MaxSize # 0, NEW k \in 1 .. Len(out) + Len(s.report) PROVE Len(out'[k]) <= MaxSize
      <4>1. CASE k <= Len(out)
        <5>1. k \in 1 .. Len(out) BY <2>6, <4>1
        <5>2. QED BY <2>6, <3>1, <3>2, <4>1, <5>1 DEF WithinLimit
      <4>2. CASE ~(k <= Len(out))
        <5>1. k - Len(out) \in 1 .. Len(s.report) BY <2>6, <4>2
        <5>2. out'[k] = s.report[k - Len(out)] BY <2>6, <4>2
        <5>3. QED BY <3>1, <3>2, <5>1, <5>2 DEF WithinLimit
      <4>3. QED BY <4>1, <4>2
    <3>3. QED BY <1>3, <2>6, <3>1, <3>2 DEF WithinLimit
  <2>8. T!TypeOK'
    <3>1. {tooLarge', short'} \subseteq BOOLEAN BY <1>3, <1>4
    <3>2. Len(fed') <= MaxFed BY <2>1, <2>2 DEF n
    <3>3. QED BY <1>3, <1>4, <2>1, <2>2, <2>6, <3>1, <3>2 DEF T!TypeOK
  <2>9. MaxSize' = 0 /\ ~short' => out' = SplitOf(t) /\ currentData' = RestOf(t)
    BY <1>3, <1>4, <2>1, <2>4, <2>5
  <2>10. Counted(fed') /\ Len(out') = CountIn(fed') BY <2>1, <2>4, <2>6
  <2>11. MaxSize' \in MaxSizes BY <1>3, <1>4
  <2> HIDE DEF t
  <2>12. QED BY <2>1, <2>7, <2>8, <2>9, <2>10, <2>11 DEF TokenizerInv
<1>7. QED BY <1>5, <1>6

\* The tokenizer starts with its invariant.
LEMMA TokenizerInit == T!Init => TokenizerInv
<1> SUFFICES ASSUME T!Init PROVE TokenizerInv OBVIOUS
<1>1. /\ MaxSize \in MaxSizes /\ currentData = <<>> /\ fed = <<>> /\ out = <<>>
      /\ tooLarge = FALSE /\ short = FALSE
  BY DEF T!Init
<1>2. Len(fed) = 0 /\ Len(out) = 0 /\ Len(currentData) = 0 BY <1>1
<1>3. T!TypeOK
  <2>1. /\ currentData \in Seq(Letters) /\ out \in Seq(Seq(Letters))
        /\ fed \in Seq(Letters \union {Token})
    BY <1>1
  <2>2. {tooLarge, short} \subseteq BOOLEAN BY <1>1
  <2>3. Len(fed) <= MaxFed BY <1>2, TokenizerAssumption
  <2>4. QED BY <2>1, <2>2, <2>3 DEF T!TypeOK
<1>4. WithinLimit(currentData, out)
  <2>1. MaxSize \in Nat BY <1>1, TokenizerAssumption
  <2>2. QED BY <1>2, <2>1 DEF WithinLimit
<1>5. /\ Counted(fed) /\ Len(out) = CountIn(fed)
      /\ out = SplitOf(fed) /\ currentData = RestOf(fed)
  BY <1>1, <1>2, EmptyStream
<1>6. QED BY <1>1, <1>3, <1>4, <1>5 DEF TokenizerInv

\* Every step keeps it.
LEMMA TokenizerKeeps == TokenizerInv /\ [T!Next]_tokenizerVars => TokenizerInv'
<1> SUFFICES ASSUME TokenizerInv, [T!Next]_tokenizerVars PROVE TokenizerInv' OBVIOUS
<1>1. ASSUME NEW data \in T!Chunks, Len(fed) + Len(data) <= MaxFed, T!Add(data) PROVE TokenizerInv'
  BY <1>1, AddKeeps
<1>2. CASE UNCHANGED tokenizerVars
  <2>1. /\ MaxSize' = MaxSize /\ currentData' = currentData /\ fed' = fed /\ out' = out
        /\ tooLarge' = tooLarge /\ short' = short
    BY <1>2 DEF tokenizerVars
  <2>2. WithinLimit(currentData, out)' BY <2>1 DEF TokenizerInv, WithinLimit
  <2>3. T!TypeOK' BY <2>1 DEF TokenizerInv, T!TypeOK
  <2>4. QED BY <2>1, <2>2, <2>3 DEF TokenizerInv
<1>3. CASE UNCHANGED T!vars BY <1>2, <1>3 DEF T!vars, tokenizerVars
<1>4. QED BY <1>1, <1>2, <1>3 DEF T!Next

\* The split the property names is the one the invariant names.
LEMMA SplitIs ==
  ASSUME TokenizerInv
  PROVE  T!Tokens = CountIn(fed) /\ T!Messages = SplitOf(fed) /\ T!Remainder = RestOf(fed)
<1>1. DOMAIN fed = 1 .. Len(fed) BY LenProperties DEF TokenizerInv, T!TypeOK
<1>2. T!Tokens = CountIn(fed)
  BY <1>1 DEF T!Tokens, CountIn, TokensIn, T!Cardinality, Cardinality
<1>3. \A k : T!TokenAt(k) = NthIn(fed, k)
  BY DEF T!TokenAt, NthIn, TokensIn, T!Cardinality, Cardinality
<1>4. T!Messages = SplitOf(fed) BY <1>2, <1>3 DEF T!Messages, SplitOf
<1>5. T!Remainder = RestOf(fed) BY <1>2, <1>3 DEF T!Remainder, RestOf
<1>6. QED BY <1>2, <1>4, <1>5

\* However the stream is cut into buffers, Add reports the messages of the whole stream
\* and keeps what follows its last token, as long as no buffer has had a single byte
\* before a token; and under a limit it still reports one message per token, none of them
\* longer than the limit.
THEOREM CutsHarmless == MCSpec => []CutsDoNotMatter
<1>1. MCInit => TokenizerInv BY TokenizerInit DEF MCInit
<1>2. TokenizerInv /\ [MCNext]_MCvars => TokenizerInv' BY StepOfEach, TokenizerKeeps
<1>3. TokenizerInv => CutsDoNotMatter
  <2> SUFFICES ASSUME TokenizerInv PROVE CutsDoNotMatter OBVIOUS
  <2>1. T!LosslessUnlessShort
    BY SplitIs DEF TokenizerInv, T!LosslessUnlessShort, T!Lossless
  <2>2. DOMAIN out = 1 .. Len(out) BY LenProperties DEF TokenizerInv, T!TypeOK
  <2>3. T!LimitKeepsFraming
    BY SplitIs, <2>2 DEF TokenizerInv, WithinLimit, T!LimitKeepsFraming
  <2>4. QED BY <2>1, <2>3 DEF CutsDoNotMatter
<1>4. QED BY <1>1, <1>2, <1>3, PTL DEF MCSpec, MCSafety

\* The helpers keep their types.
THEOREM HelpersTypeCorrect == MCSpec => []HelpersTypeOK
<1> DEFINE Inv == TokenizerInv /\ DedupInv /\ EventInv
<1>1. MCInit => Inv BY TokenizerInit, DedupInit, EventInit DEF MCInit
<1>2. Inv /\ [MCNext]_MCvars => Inv'
  BY StepOfEach, TokenizerKeeps, DedupStep, EventStepInv
<1>3. Inv => HelpersTypeOK BY DEF HelpersTypeOK, TokenizerInv, DedupInv, EventInv
<1>4. QED BY <1>1, <1>2, <1>3, PTL DEF MCSpec, MCSafety
==============================================================================
